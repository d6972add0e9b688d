-------------------------- MODULE BrokerLogProofs ---------------------------
(***************************************************************************)
(* What the broker writes to a peer, for any number of connections, keys   *)
(* and session ids: `paired' once, one farewell, and the signals of one    *)
(* partner in order.                                                       *)
(***************************************************************************)
EXTENDS BrokerProofs, FiniteSetTheorems

-----------------------------------------------------------------------------
(* Logs. *)

\* m is written to c.
Writes(c, m) == c \in Conns /\ out' = [out EXCEPT ![c] = Append(@, m)]

\* A write is delivered or leaves every log alone.
LEMMA SendWrites ==
  ASSUME TypeOK, NEW c \in Conns \cup {None}, NEW m, Send(c, m)
  PROVE  UNCHANGED out \/ Writes(c, m)
BY DEF Send, Writes, TypeOK

\* A delivered write makes one log longer by one message.
LEMMA WritesLog ==
  ASSUME TypeOK, NEW c, NEW m, Writes(c, m)
  PROVE  /\ \A d \in Conns \ {c} : out'[d] = out[d]
         /\ Len(out[c]) + 1 \notin DOMAIN out[c]
         /\ DOMAIN out'[c] = DOMAIN out[c] \cup {Len(out[c]) + 1}
         /\ \A i \in DOMAIN out[c] : out'[c][i] = out[c][i]
         /\ \A i \in DOMAIN out[c] : i < Len(out[c]) + 1
         /\ out'[c][Len(out[c]) + 1] = m
<1>1. out \in [Conns -> Seq(Message)] /\ c \in Conns
      /\ out' = [out EXCEPT ![c] = Append(@, m)]
  BY DEF Writes, TypeOK
<1>2. out[c] \in Seq(Message) /\ out'[c] = Append(out[c], m)
  BY <1>1
<1>3. Len(out[c]) \in Nat /\ DOMAIN out[c] = 1..Len(out[c])
  BY <1>2
<1>4. /\ DOMAIN Append(out[c], m) = 1..(Len(out[c]) + 1)
      /\ \A i \in 1..Len(out[c]) : Append(out[c], m)[i] = out[c][i]
      /\ Append(out[c], m)[Len(out[c]) + 1] = m
  BY <1>2, <1>3
<1> QED BY <1>1, <1>2, <1>3, <1>4

-----------------------------------------------------------------------------
(* `paired'. *)

\* A peer that tryPair may still put into a session.
Unpaired(c) == phase[c] \in Early \/ \E k \in Keys : waiting[k] = c

\* An unpaired peer has no delivery goroutine and has not been told; as long
\* as the goroutine has not written, the peer has not been told either.
PairedAfterSend ==
  \A c \in Conns : \A i \in DOMAIN out[c] :
    out[c][i].type = "paired" =>
      /\ task[c] # "send" /\ ~Unpaired(c)
      /\ out[c][i].initiator = (mode[c] = "connect")
      /\ \A j \in DOMAIN out[c] : out[c][j].type = "paired" => i = j

NoTaskUnpaired == \A c \in Conns : Unpaired(c) => task[c] = "none"

\* No step makes a peer unpaired again.
LEMMA UnpairedShrinks ==
  ASSUME TypeOK, Known, [Next]_vars, NEW c \in Conns, Unpaired(c)'
  PROVE  Unpaired(c)
<1> USE DEF TypeOK, Unpaired, Early, Goto
<1>1. CASE \E d \in Conns : ClientStep(d) \/ RegisterFail(d)
  BY <1>1 DEF ClientStep, Connect, ConnLost, WriteStall, Register, ReadSignal,
       CanRead, ReadOther, RegisterFail, maps
<1>2. CASE \E d \in Conns : ServerStep(d)
  <2>1. PICK d \in Conns : ServerStep(d)
    BY <1>2
  <2>2. CASE Unregister(d)
    BY <2>2, NoneAssumption DEF Unregister, UnregisterPeer, maps
  <2>3. CASE BecomeWaiter(d)
    BY <2>3 DEF BecomeWaiter
  <2>4. CASE Pair(d)
    BY <2>4, NoneAssumption DEF Pair
  <2>5. CASE ~Unregister(d) /\ ~BecomeWaiter(d) /\ ~Pair(d)
    BY <2>1, <2>5 DEF ServerStep, Ack, PairRefused, Reject, RelaySignal,
         RelayFailed, ReadError, NotifyLeft, Close, maps
  <2> QED BY <2>2, <2>3, <2>4, <2>5
<1>3. CASE \E d \in Conns : TaskStep(d)
  BY <1>3, NoneAssumption DEF TaskStep, DeliverPaired, TaskUnregister,
       TaskNotify, UnregisterPeer, maps
<1>4. CASE \E W \in SUBSET Keys, S \in SUBSET Sids : CollectStale(W, S)
  BY <1>4, NoneAssumption DEF CollectStale
<1>5. CASE \/ EvictStep \/ Shutdown \/ JanitorExit \/ ShutdownClose
           \/ Finished \/ UNCHANGED vars
  BY <1>5 DEF EvictStep, EvictSend, EvictClose, Shutdown, JanitorExit,
       ShutdownClose, Finished, vars, maps
<1> QED BY <1>1, <1>2, <1>3, <1>4, <1>5 DEF Next

\* tryPair gives a delivery goroutine to the peers it pairs, and to no other.
LEMMA TaskStarts ==
  ASSUME MapsInv, [Next]_vars, NEW c \in Conns
  PROVE  \/ task'[c] = task[c]
         \/ task[c] # "none" /\ task'[c] # "send"
         \/ Unpaired(c) /\ ~Unpaired(c)' /\ task'[c] = "send" /\ UNCHANGED out
<1> USE DEF MapsInv, TypeOK
<1>1. CASE \E d \in Conns : Pair(d)
  <2>1. PICK d \in Conns : Pair(d)
    BY <1>1
  <2> DEFINE w == waiting[key[d]]
  <2>2. /\ key[d] \in Keys /\ w \in Conns /\ phase[d] = "pair" /\ w # d
        /\ phase[w] \in Owning
        /\ waiting' = [waiting EXCEPT ![key[d]] = None]
        /\ task' = [task EXCEPT ![w] = "send", ![d] = "send"]
        /\ phase' = [phase EXCEPT ![d] = "read"] /\ UNCHANGED out
    BY <2>1 DEF Pair, Known, Goto, Owned, Owning
  <2>3. \A k \in Keys : waiting'[k] \notin {w, d}
    BY <2>2, NoneAssumption DEF MapsCore, WaitingOK, Owned, Owning
  <2>4. c \notin {w, d} => task'[c] = task[c]
    BY <2>2
  <2>5. c \in {w, d} => task'[c] = "send" /\ Unpaired(c) /\ ~Unpaired(c)'
    BY <2>2, <2>3 DEF Unpaired, Early, Owning
  <2> QED BY <2>2, <2>4, <2>5
<1>2. CASE \E d \in Conns : ClientStep(d) \/ RegisterFail(d)
  BY <1>2 DEF ClientStep, Connect, ConnLost, WriteStall, Register, ReadSignal,
       ReadOther, RegisterFail, jobs
<1>3. CASE \E d \in Conns : ServerStep(d) /\ ~Pair(d)
  BY <1>3 DEF ServerStep, Ack, PairRefused, BecomeWaiter, Reject, RelaySignal,
       RelayFailed, ReadError, Unregister, NotifyLeft, Close, jobs
<1>4. CASE \E d \in Conns : TaskStep(d)
  BY <1>4 DEF TaskStep, DeliverPaired, TaskUnregister, TaskNotify
<1>5. CASE \/ \E W \in SUBSET Keys, S \in SUBSET Sids : CollectStale(W, S)
           \/ EvictStep \/ Shutdown \/ JanitorExit \/ ShutdownClose
           \/ Finished \/ UNCHANGED vars
  BY <1>5 DEF CollectStale, EvictStep, EvictSend, EvictClose, Shutdown,
       JanitorExit, ShutdownClose, Finished, vars, jobs
<1> QED BY <1>1, <1>2, <1>3, <1>4, <1>5 DEF Next

Expiry == {"waiter-expired", "session-expired"}
FarewellCodes == Expiry \cup {"pairing-failed"}

IsFarewell(m) ==
  m.type = "peer-left" \/ (m.type = "error" /\ m.code \in FarewellCodes)

IsAnswer(m) == m.type \notin {"paired", "signal"} /\ ~IsFarewell(m)

\* Who is going to tell c of its end: the partner's handler, the partner's
\* delivery goroutine, the janitor or its own handler.
Source(c, how, x) ==
  \/ how = "handler" /\ x \in Conns /\ phase[x] = "notify" /\ target[x] = c
  \/ how = "task" /\ x \in Conns /\ task[x] = "notify" /\ taskTarget[x] = c
  \/ how = "janitor" /\ x = c /\ evict[c] \in Expiry
  \/ how = "refusal" /\ x = c /\ phase[c] = "reject"

\* Who may write what: nobody; the broker an answer to the peer itself; a
\* delivery goroutine its `paired'; a handler the signal it has read; and
\* whoever was going to a farewell.
StepWrites ==
  \/ UNCHANGED out
  \/ \E c \in Conns, m \in Message : Writes(c, m) /\ IsAnswer(m)
  \/ \E c \in Conns : /\ task[c] = "send" /\ task'[c] # "send"
                      /\ Writes(c, Paired(mode[c] = "connect"))
  \/ \E c, d \in Conns : /\ phase[d] = "relay" /\ target[d] = c
                         /\ phase'[d] # "relay" /\ UNCHANGED sent
                         /\ Writes(c, Signal(d, sent[d]))
  \/ \E c \in Conns, m \in Message : \E how, x :
       /\ Writes(c, m) /\ IsFarewell(m)
       /\ Source(c, how, x) /\ ~Source(c, how, x)'

\* Every write is one of these.
LEMMA NextWrites ==
  ASSUME TypeOK, [Next]_vars
  PROVE  StepWrites
<1> USE DEF IsAnswer, IsFarewell, FarewellCodes, Expiry
<1>1. /\ \A m \in {Registered, Pong} : IsAnswer(m) /\ m \in Message
      /\ \A e \in ErrorCodes \ FarewellCodes :
           IsAnswer(BrokerError(e)) /\ BrokerError(e) \in Message
      /\ IsFarewell(PeerLeft) /\ PeerLeft \in Message
      /\ \A e \in FarewellCodes :
           IsFarewell(BrokerError(e)) /\ BrokerError(e) \in Message
  BY MessageTypes DEF Registered, Pong, PeerLeft, BrokerError, ErrorCodes
<1> HIDE DEF IsAnswer, IsFarewell
<1>2. CASE \E c \in Conns : ClientStep(c) \/ RegisterFail(c)
  <2>1. PICK c \in Conns : ClientStep(c) \/ RegisterFail(c)
    BY <1>2
  <2>2. \/ UNCHANGED out
        \/ Send(c, Pong) \/ \E e \in ErrorCodes \ FarewellCodes : Send(c, BrokerError(e))
    BY <2>1 DEF ClientStep, Connect, ConnLost, WriteStall, Register, ReadSignal,
         ReadOther, RegisterFail, ErrorCodes
  <2> QED BY <1>1, <2>2, SendWrites DEF StepWrites
<1>3. CASE \E c \in Conns : ServerStep(c)
  <2>1. PICK c \in Conns : ServerStep(c)
    BY <1>3
  <2>2. CASE RelaySignal(c)
    <3>1. /\ Send(target[c], Signal(c, sent[c])) /\ UNCHANGED sent
          /\ target[c] \in Conns \cup {None}
          /\ phase[c] = "relay" /\ phase'[c] # "relay"
      BY <2>2 DEF RelaySignal, TypeOK, Goto, local
    <3>2. UNCHANGED out \/ Writes(target[c], Signal(c, sent[c]))
      BY <3>1, SendWrites
    <3> QED BY <3>1, <3>2 DEF StepWrites, Writes
  <2>3. CASE NotifyLeft(c)
    <3>1. /\ Send(target[c], PeerLeft) /\ target[c] \in Conns \cup {None}
          /\ phase[c] = "notify" /\ phase'[c] # "notify"
      BY <2>3 DEF NotifyLeft, TypeOK, Goto
    <3>2. UNCHANGED out \/ Writes(target[c], PeerLeft)
      BY <3>1, SendWrites
    <3>3. ASSUME NEW d, d = target[c]
          PROVE  Source(d, "handler", c) /\ ~Source(d, "handler", c)'
      BY <3>1, <3>3 DEF Source
    <3>4. ASSUME NEW d \in Conns, d = target[c], Writes(d, PeerLeft)
          PROVE  StepWrites
      BY <1>1, <3>3, <3>4 DEF StepWrites
    <3> QED BY <3>2, <3>4 DEF StepWrites, Writes
  <2>4. CASE Reject(c)
    <3>1. /\ Send(c, BrokerError("pairing-failed"))
          /\ phase[c] = "reject" /\ phase'[c] # "reject"
      BY <2>4 DEF Reject, TypeOK, Goto
    <3>2. UNCHANGED out \/ Writes(c, BrokerError("pairing-failed"))
      BY <3>1, SendWrites
    <3>3. Source(c, "refusal", c) /\ ~Source(c, "refusal", c)'
      BY <3>1 DEF Source
    <3> QED BY <1>1, <3>2, <3>3 DEF StepWrites
  <2>5. CASE ~RelaySignal(c) /\ ~NotifyLeft(c) /\ ~Reject(c)
    <3>1. \/ UNCHANGED out
          \/ Send(c, Registered) \/ Send(c, BrokerError("relay-failed"))
      BY <2>1, <2>5 DEF ServerStep, Ack, PairRefused, BecomeWaiter, Pair,
           RelayFailed, ReadError, Unregister, Close
    <3>2. \/ UNCHANGED out
          \/ Writes(c, Registered) \/ Writes(c, BrokerError("relay-failed"))
      BY <3>1, SendWrites
    <3> QED BY <1>1, <3>2 DEF StepWrites, ErrorCodes
  <2> QED BY <2>2, <2>3, <2>4, <2>5
<1>4. CASE \E c \in Conns : TaskStep(c)
  <2>1. PICK c \in Conns : TaskStep(c)
    BY <1>4
  <2>2. CASE DeliverPaired(c)
    <3>1. /\ task[c] = "send" /\ task'[c] # "send"
          /\ Send(c, Paired(mode[c] = "connect"))
      BY <2>2 DEF DeliverPaired, TypeOK
    <3> QED BY <3>1, SendWrites DEF StepWrites
  <2>3. CASE TaskUnregister(c)
    BY <2>3 DEF TaskUnregister, StepWrites
  <2>4. CASE TaskNotify(c)
    <3>1. /\ Send(taskTarget[c], PeerLeft) /\ taskTarget[c] \in Conns \cup {None}
          /\ task[c] = "notify" /\ task'[c] # "notify"
      BY <2>4 DEF TaskNotify, TypeOK
    <3>2. UNCHANGED out \/ Writes(taskTarget[c], PeerLeft)
      BY <3>1, SendWrites
    <3>3. ASSUME NEW d, d = taskTarget[c]
          PROVE  Source(d, "task", c) /\ ~Source(d, "task", c)'
      BY <3>1, <3>3 DEF Source
    <3>4. ASSUME NEW d \in Conns, d = taskTarget[c], Writes(d, PeerLeft)
          PROVE  StepWrites
      BY <1>1, <3>3, <3>4 DEF StepWrites
    <3> QED BY <3>2, <3>4 DEF StepWrites, Writes
  <2> QED BY <2>1, <2>2, <2>3, <2>4 DEF TaskStep
<1>5. CASE EvictStep
  <2>1. CASE \E c \in Conns : EvictClose(c)
    BY <2>1 DEF EvictClose, StepWrites
  <2>2. CASE \E c \in Conns : EvictSend(c)
    <3>1. PICK c \in Conns : EvictSend(c)
      BY <2>2
    <3>2. /\ Send(c, BrokerError(evict[c])) /\ evict[c] \in Expiry
          /\ evict'[c] \notin Expiry
      BY <3>1 DEF EvictSend, TypeOK
    <3>3. UNCHANGED out \/ Writes(c, BrokerError(evict[c]))
      BY <3>2, SendWrites
    <3>4. Source(c, "janitor", c) /\ ~Source(c, "janitor", c)'
      BY <3>2 DEF Source
    <3> QED BY <1>1, <3>2, <3>3, <3>4 DEF StepWrites
  <2> QED BY <1>5, <2>1, <2>2 DEF EvictStep
<1>6. CASE \/ \E W \in SUBSET Keys, S \in SUBSET Sids : CollectStale(W, S)
           \/ Shutdown \/ JanitorExit \/ ShutdownClose
           \/ Finished \/ UNCHANGED vars
  BY <1>6 DEF CollectStale, Shutdown, JanitorExit, ShutdownClose, Finished,
       vars, StepWrites
<1> QED BY <1>2, <1>3, <1>4, <1>5, <1>6 DEF Next

\* Unless the delivery goroutine writes, nobody adds a `paired' to a log.
LEMMA PairedStep ==
  ASSUME TypeOK, [Next]_vars, NEW c \in Conns
  PROVE  \/ \A i \in DOMAIN out'[c] : out'[c][i].type = "paired" =>
              i \in DOMAIN out[c] /\ out'[c][i] = out[c][i]
         \/ /\ task[c] = "send" /\ task'[c] # "send"
            /\ Writes(c, Paired(mode[c] = "connect"))
<1>1. StepWrites
  BY NextWrites
<1>2. ASSUME NEW d \in Conns, NEW m, Writes(d, m), m.type # "paired" \/ d # c
      PROVE  \A i \in DOMAIN out'[c] : out'[c][i].type = "paired" =>
               i \in DOMAIN out[c] /\ out'[c][i] = out[c][i]
  BY <1>2, WritesLog
<1>3. \A d, n : Signal(d, n).type # "paired"
  BY DEF Signal
<1>4. \A m : IsAnswer(m) \/ IsFarewell(m) => m.type # "paired"
  BY DEF IsAnswer, IsFarewell
<1> QED BY <1>1, <1>2, <1>3, <1>4 DEF StepWrites

\* A peer is told `paired' at most once, and of a session the connect peer is
\* told to make the offer and the other is not, although two goroutines tell
\* them and either may fail and unregister its peer before the other has run.
THEOREM PairedOnceAlways == Spec => []PairedOnce
<1> DEFINE Inv == NoTaskUnpaired /\ PairedAfterSend
<1>1. Init => Inv
  BY DEF Init, NoTaskUnpaired, PairedAfterSend
<1>2. MapsInv /\ Inv /\ [Next]_vars => Inv'
  <2> SUFFICES ASSUME MapsInv, Inv, [Next]_vars
               PROVE  Inv'
    OBVIOUS
  <2>1. TypeOK /\ Known
    BY DEF MapsInv
  <2>2. NoTaskUnpaired'
    BY <2>1, TaskStarts, UnpairedShrinks DEF NoTaskUnpaired
  <2>3. ASSUME NEW c \in Conns, ~Unpaired(c)
        PROVE  ~Unpaired(c)' /\ mode'[c] = mode[c]
    BY <2>1, <2>3, UnpairedShrinks, PastStable DEF Past, Unpaired, Early
  <2>4. PairedAfterSend'
    <3> SUFFICES ASSUME NEW c \in Conns, NEW i \in DOMAIN out'[c],
                        out'[c][i].type = "paired"
                 PROVE  /\ task'[c] # "send" /\ ~Unpaired(c)'
                        /\ out'[c][i].initiator = (mode'[c] = "connect")
                        /\ \A j \in DOMAIN out'[c] :
                             out'[c][j].type = "paired" => i = j
      BY DEF PairedAfterSend
    <3>1. CASE \A j \in DOMAIN out'[c] : out'[c][j].type = "paired" =>
                 j \in DOMAIN out[c] /\ out'[c][j] = out[c][j]
      <4>1. /\ task[c] # "send" /\ ~Unpaired(c)
            /\ out'[c][i].initiator = (mode[c] = "connect")
        BY <3>1 DEF PairedAfterSend
      <4>2. task'[c] # "send"
        BY <4>1, TaskStarts
      <4> QED BY <2>3, <3>1, <4>1, <4>2 DEF PairedAfterSend
    <3>2. CASE /\ task[c] = "send" /\ task'[c] # "send"
               /\ Writes(c, Paired(mode[c] = "connect"))
      <4>1. ~Unpaired(c)
        BY <3>2 DEF NoTaskUnpaired
      <4>2. \A j \in DOMAIN out[c] : out[c][j].type # "paired"
        BY <3>2 DEF PairedAfterSend
      <4>3. \A j \in DOMAIN out'[c] : out'[c][j].type = "paired" =>
              j = Len(out[c]) + 1
        BY <2>1, <3>2, <4>2, WritesLog
      <4>4. out'[c][Len(out[c]) + 1] = Paired(mode[c] = "connect")
        BY <2>1, <3>2, WritesLog
      <4>5. out'[c][i].initiator = (mode[c] = "connect")
        BY <4>3, <4>4 DEF Paired
      <4> QED BY <2>3, <3>2, <4>1, <4>3, <4>5
    <3> QED BY <2>1, <3>1, <3>2, PairedStep
  <2> QED BY <2>2, <2>4
<1>3. MapsInv /\ Inv => PairedOnce
  <2> SUFFICES ASSUME MapsInv, Inv, NEW c \in Conns, NEW d \in Conns,
                      NEW i \in DOMAIN out[c], NEW j \in DOMAIN out[d],
                      out[c][i].type = "paired", out[d][j].type = "paired",
                      NEW s \in SessionsOf(c), d = Partner(s, c)
               PROVE  out[c][i].initiator # out[d][j].initiator
    BY DEF PairedOnce, PairedAfterSend
  <2>1. MapTypes /\ MapsCore /\ Owned /\ Known
    BY MapsTyped DEF MapsInv
  <2>2. Linked(c, d)
    BY <2>1, PartnerLinked
  <2>3. mode[c] \in Modes /\ mode[d] \in Modes /\ mode[c] # mode[d]
    BY <2>1, <2>2 DEF Linked, SessionsOf, Partner, Owned, Owning, Known,
                      MapTypes, Sessions
  <2>4. (mode[c] = "connect") # (mode[d] = "connect")
    BY <2>3 DEF Modes
  <2> QED BY <2>4 DEF PairedAfterSend
<1> QED BY <1>1, <1>2, <1>3, MapsInvHolds, PTL DEF Spec

-----------------------------------------------------------------------------
(* Farewells. *)

\* How c is, or is going to be, told of its end: by a source, or by what the
\* log has at place x.
Ending(c, how, x) == Source(c, how, x) \/ (how = "said" /\ x \in Farewells(c))

\* A peer that is not past tryPair or that the maps hold.
InPlay(c) == Unpaired(c) \/ SessionsOf(c) # {}

Endings == {"handler", "task", "janitor", "refusal", "said"}

Ends(c) == Conns \cup DOMAIN out[c]

\* Nobody is going to tell a peer of its end while it has not come to it, and
\* nobody has.
NoEndingInPlay ==
  \A c \in Conns : InPlay(c) =>
    \A how \in Endings, x \in Ends(c) : ~Ending(c, how, x)

\* Of all who might, one has told or is going to tell.
OneEnding ==
  \A c \in Conns : \A h1, h2 \in Endings, x1, x2 \in Ends(c) :
    Ending(c, h1, x1) /\ Ending(c, h2, x2) => h1 = h2 /\ x1 = x2

\* The bounds of these quantifiers are no restriction.
LEMMA EndingBounds ==
  ASSUME NEW c \in Conns, NEW how, NEW x, Ending(c, how, x)
  PROVE  how \in Endings /\ x \in Ends(c)
BY DEF Ending, Source, Endings, Ends, Farewells

\* A session is only made by tryPair.
LEMMA SessionsStep ==
  ASSUME TypeOK, [Next]_vars
  PROVE  \/ \A s \in Sids : sessions'[s] \in {sessions[s], None}
         \/ \E d \in Conns : Pair(d)
<1> USE DEF TypeOK
<1>1. CASE \E d \in Conns : \E t \in Conns \cup {None} : UnregisterPeer(d, t)
  BY <1>1 DEF UnregisterPeer, maps
<1>2. CASE \E W \in SUBSET Keys, S \in SUBSET Sids : CollectStale(W, S)
  BY <1>2 DEF CollectStale
<1>3. \/ UNCHANGED sessions
      \/ \E d \in Conns : Pair(d) \/ \E t \in Conns \cup {None} : UnregisterPeer(d, t)
      \/ \E W \in SUBSET Keys, S \in SUBSET Sids : CollectStale(W, S)
  BY DEF Next, ClientStep, Connect, ConnLost, WriteStall, Register, ReadSignal,
       ReadOther, RegisterFail, ServerStep, Ack, PairRefused, BecomeWaiter,
       Reject, RelaySignal, RelayFailed, ReadError, Unregister, NotifyLeft,
       Close, TaskStep, DeliverPaired, TaskUnregister, TaskNotify, EvictStep,
       EvictSend, EvictClose, Shutdown, JanitorExit, ShutdownClose, Finished,
       vars, maps
<1> QED BY <1>1, <1>2, <1>3

\* A session of c after the step was one before it, unless tryPair makes it.
LEMMA InPlayShrinks ==
  ASSUME MapsInv, [Next]_vars, NEW c \in Conns, InPlay(c)'
  PROVE  InPlay(c)
<1> USE DEF MapsInv, TypeOK
<1>1. CASE Unpaired(c)'
  BY <1>1, UnpairedShrinks DEF InPlay
<1>2. CASE SessionsOf(c)' # {}
  <2>1. CASE \E d \in Conns : Pair(d)
    <3>1. PICK d \in Conns : Pair(d)
      BY <2>1
    <3> DEFINE w == waiting[key[d]]
    <3>2. PICK s \in Sids : /\ sessions' = [sessions EXCEPT ![s] =
                                 [key |-> key[d], first |-> w, second |-> d]]
                            /\ sessions[s] = None
      BY <3>1 DEF Pair
    <3>3. phase[d] = "pair" /\ key[d] \in Keys
      BY <3>1 DEF Pair, Known
    <3>4. CASE c \in {w, d}
      BY <3>3, <3>4 DEF InPlay, Unpaired, Early
    <3>5. CASE c \notin {w, d}
      BY <1>2, <3>2, <3>5 DEF SessionsOf, InPlay
    <3> QED BY <3>4, <3>5
  <2>2. CASE \A s \in Sids : sessions'[s] \in {sessions[s], None}
    BY <1>2, <2>2 DEF SessionsOf, InPlay
  <2> QED BY <2>1, <2>2, SessionsStep
<1> QED BY <1>1, <1>2 DEF InPlay

\* unregisterPeer takes the partner it will notify out of the maps.
LEMMA PartnerOut ==
  ASSUME MapsInv, NEW d \in Conns, NEW t \in Conns, UnregisterPeer(d, t)
  PROVE  /\ SessionsOf(t) # {} /\ t # d /\ phase[t] \in Owning
         /\ \A k \in Keys : waiting'[k] # t
         /\ SessionsOf(t)' = {}
<1>1. MapTypes /\ MapsCore /\ Owned
  BY MapsTyped DEF MapsInv
<1>2. PICK s \in SessionsOf(d) :
        /\ t = Partner(s, d)
        /\ sessions' = [sessions EXCEPT ![s] = None] /\ UNCHANGED waiting
  BY NoneAssumption DEF UnregisterPeer
<1>3. s \in Sids /\ sessions[s] # None /\ d \in {sessions[s].first, sessions[s].second}
  BY DEF SessionsOf
<1>4. sessions[s].first # sessions[s].second /\ t \in {sessions[s].first, sessions[s].second}
      /\ t # d
  BY <1>1, <1>2, <1>3 DEF MapsCore, SessionsOK, Partner
<1>5. s \in SessionsOf(t) /\ phase[t] \in Owning
  BY <1>1, <1>3, <1>4 DEF SessionsOf, Owned
<1>6. MapsAgree
  BY <1>1, MapsCoreImplies
<1>7. SessionsOf(t) = {s}
  BY <1>5, <1>6 DEF MapsAgree
<1>8. SessionsOf(t)' = {}
  BY <1>1, <1>2, <1>7 DEF SessionsOf, MapTypes
<1>9. \A k \in Keys : waiting'[k] # t
  BY <1>2, <1>5, <1>6, NoneAssumption DEF MapsAgree
<1> QED BY <1>4, <1>5, <1>8, <1>9

\* A farewell comes up only when its peer goes out of play, and then for one
\* reason: being refused, losing the partner, or the janitor.
NewSource(c, how, x) ==
  /\ InPlay(c) /\ ~InPlay(c)' /\ UNCHANGED out
  /\ \A h, y : Source(c, h, y)' => Source(c, h, y) \/ (h = how /\ y = x)

\* The handler's unregisterPeer.
LEMMA UnregisterSource ==
  ASSUME MapsInv, NEW d \in Conns, Unregister(d), NEW c \in Conns,
         NEW how, NEW x, Source(c, how, x)', ~Source(c, how, x)
  PROVE  NewSource(c, how, x)
<1> USE DEF MapsInv, TypeOK
<1>1. PICK t \in Conns \cup {None} :
        /\ UnregisterPeer(d, t)
        /\ target' = [target EXCEPT ![d] = t]
        /\ phase' = [phase EXCEPT ![d] = IF t = None THEN "close" ELSE "notify"]
        /\ UNCHANGED <<task, taskTarget, evict, out>>
  BY DEF Unregister, Goto, jobs
<1>2. \A h, y : Source(c, h, y)' => Source(c, h, y) \/ (h = "handler" /\ y = d /\ t = c)
  BY <1>1, NoneAssumption DEF Source
<1>3. how = "handler" /\ x = d /\ t = c
  BY <1>2
<1>4. /\ SessionsOf(c) # {} /\ c # d /\ phase[c] \in Owning
      /\ \A k \in Keys : waiting'[k] # c
      /\ SessionsOf(c)' = {}
  BY <1>1, <1>3, PartnerOut
<1>5. InPlay(c) /\ ~InPlay(c)'
  BY <1>1, <1>4 DEF InPlay, Unpaired, Owning, Early
<1> QED BY <1>1, <1>2, <1>3, <1>5 DEF NewSource

\* The delivery goroutine's unregisterPeer.
LEMMA TaskUnregisterSource ==
  ASSUME MapsInv, NEW d \in Conns, TaskUnregister(d), NEW c \in Conns,
         NEW how, NEW x, Source(c, how, x)', ~Source(c, how, x)
  PROVE  NewSource(c, how, x)
<1> USE DEF MapsInv, TypeOK
<1>1. PICK t \in Conns \cup {None} :
        /\ UnregisterPeer(d, t)
        /\ taskTarget' = [taskTarget EXCEPT ![d] = t]
        /\ task' = [task EXCEPT ![d] = IF t = None THEN "none" ELSE "notify"]
        /\ UNCHANGED <<phase, target, evict, out>>
  BY DEF TaskUnregister
<1>2. \A h, y : Source(c, h, y)' => Source(c, h, y) \/ (h = "task" /\ y = d /\ t = c)
  BY <1>1, NoneAssumption DEF Source
<1>3. how = "task" /\ x = d /\ t = c
  BY <1>2
<1>4. /\ SessionsOf(c) # {} /\ c # d /\ phase[c] \in Owning
      /\ \A k \in Keys : waiting'[k] # c
      /\ SessionsOf(c)' = {}
  BY <1>1, <1>3, PartnerOut
<1>5. InPlay(c) /\ ~InPlay(c)'
  BY <1>1, <1>4 DEF InPlay, Unpaired, Owning, Early
<1> QED BY <1>1, <1>2, <1>3, <1>5 DEF NewSource

\* collectStale.
LEMMA CollectSource ==
  ASSUME MapsInv, NEW W \in SUBSET Keys, NEW S \in SUBSET Sids,
         CollectStale(W, S), NEW c \in Conns,
         NEW how, NEW x, Source(c, how, x)', ~Source(c, how, x)
  PROVE  NewSource(c, how, x)
<1> USE DEF MapsInv, TypeOK
<1>1. /\ \A k \in Keys : waiting'[k] = IF k \in W THEN None ELSE waiting[k]
      /\ \A s \in Sids : sessions'[s] = IF s \in S THEN None ELSE sessions[s]
      /\ evict'[c] = IF \E k \in W : waiting[k] = c THEN "waiter-expired"
                     ELSE IF S \cap SessionsOf(c) # {} THEN "session-expired"
                     ELSE "none"
      /\ UNCHANGED <<phase, target, task, taskTarget, out>>
  BY DEF CollectStale
<1>2. \A h, y : Source(c, h, y)' => Source(c, h, y) \/ (h = "janitor" /\ y = c)
  BY <1>1 DEF Source
<1>3. how = "janitor" /\ x = c /\ evict'[c] \in Expiry
  BY <1>1, <1>2 DEF Source
<1>4. MapsAgree /\ Owned
  BY MapsTyped, MapsCoreImplies
<1>5. InPlay(c) /\ ~InPlay(c)'
  <2>1. CASE \E k \in W : waiting[k] = c
    <3>1. \A k \in Keys : waiting'[k] # c
      <4>1. c # None
        BY NoneAssumption
      <4>2. \A k \in Keys : waiting[k] = c => key[c] = k
        BY <1>4, <4>1 DEF MapsAgree
      <4> QED BY <1>1, <2>1, <4>1, <4>2
    <3>2. SessionsOf(c)' = {} /\ phase[c] \in Owning
      BY <1>1, <1>4, <2>1, NoneAssumption DEF MapsAgree, SessionsOf, Owned
    <3> QED BY <1>1, <2>1, <3>1, <3>2 DEF InPlay, Unpaired, Owning, Early
  <2>2. CASE S \cap SessionsOf(c) # {}
    <3>1. \A k \in Keys : waiting'[k] # c
      <4>1. c # None
        BY NoneAssumption
      <4>2. \A k \in Keys : waiting[k] # c
        BY <1>4, <2>2, <4>1 DEF MapsAgree
      <4> QED BY <1>1, <4>1, <4>2
    <3>2. SessionsOf(c)' = {}
      BY <1>1, <1>4, <2>2 DEF MapsAgree, SessionsOf
    <3>3. phase[c] \in Owning
      BY <1>4, <2>2 DEF SessionsOf, Owned
    <3> QED BY <1>1, <2>2, <3>1, <3>2, <3>3 DEF InPlay, Unpaired, Owning, Early
  <2> QED BY <1>1, <1>3, <2>1, <2>2 DEF Expiry
<1> QED BY <1>1, <1>2, <1>3, <1>5 DEF NewSource

\* No other step gives a peer a new source of a farewell.
LEMMA SourceStep ==
  ASSUME MapsInv, [Next]_vars, NEW c \in Conns, NEW how, NEW x,
         Source(c, how, x)', ~Source(c, how, x)
  PROVE  NewSource(c, how, x)
<1> USE DEF MapsInv, TypeOK
<1>1. CASE \E d \in Conns : PairRefused(d)
  <2>1. PICK d \in Conns : PairRefused(d)
    BY <1>1
  <2>2. /\ phase[d] = "pair" /\ phase' = [phase EXCEPT ![d] = "reject"]
        /\ UNCHANGED <<target, task, taskTarget, evict, maps, out>>
    BY <2>1 DEF PairRefused, Goto, jobs
  <2>3. \A h, y : Source(c, h, y)' => Source(c, h, y) \/ (h = "refusal" /\ y = d /\ c = d)
    BY <2>2 DEF Source
  <2>4. \A k \in Keys : waiting[k] # d
    <3>1. d # None
      BY NoneAssumption
    <3> QED BY <2>2, <3>1 DEF Owned, Owning
  <2>5. SessionsOf(d) = {}
    BY <2>2 DEF Owned, Owning, SessionsOf
  <2>6. SessionsOf(d)' = {}
    BY <2>2, <2>5 DEF SessionsOf, maps
  <2>7. InPlay(d) /\ ~InPlay(d)'
    BY <2>2, <2>4, <2>6 DEF InPlay, Unpaired, Early, maps
  <2> QED BY <2>2, <2>3, <2>7 DEF NewSource
<1>2. CASE \E d \in Conns : ClientStep(d) \/ RegisterFail(d)
  BY <1>2 DEF ClientStep, Connect, ConnLost, WriteStall, Register, ReadSignal,
       CanRead, ReadOther, RegisterFail, Source, jobs, Goto
<1>3. CASE \E d \in Conns : ServerStep(d) /\ ~Unregister(d) /\ ~PairRefused(d)
  <2>1. PICK d \in Conns : ServerStep(d) /\ ~Unregister(d) /\ ~PairRefused(d)
    BY <1>3
  <2>2. /\ UNCHANGED <<taskTarget, evict>>
        /\ \A e \in Conns : task'[e] = task[e] \/ task'[e] = "send"
        /\ \A e \in Conns \ {d} : phase'[e] = phase[e] /\ target'[e] = target[e]
        /\ phase'[d] \notin {"notify", "reject"}
    BY <2>1 DEF ServerStep, Ack, BecomeWaiter, Pair, Reject, RelaySignal,
         RelayFailed, ReadError, NotifyLeft, Close, jobs, Goto
  <2> QED BY <2>2 DEF Source
<1>4. CASE \E d \in Conns : DeliverPaired(d) \/ TaskNotify(d)
  BY <1>4 DEF DeliverPaired, TaskNotify, Source
<1>5. CASE \/ EvictStep \/ Shutdown \/ JanitorExit \/ ShutdownClose
           \/ Finished \/ UNCHANGED vars
  BY <1>5 DEF EvictStep, EvictSend, EvictClose, Shutdown, JanitorExit,
       ShutdownClose, Finished, vars, jobs, Source, Expiry
<1> HIDE DEF MapsInv, TypeOK
<1>6. CASE \E d \in Conns : Unregister(d)
  BY <1>6, UnregisterSource
<1>7. CASE \E d \in Conns : TaskUnregister(d)
  BY <1>7, TaskUnregisterSource
<1>8. CASE \E W \in SUBSET Keys, S \in SUBSET Sids : CollectStale(W, S)
  BY <1>8, CollectSource
<1> QED BY <1>1, <1>2, <1>3, <1>4, <1>5, <1>6, <1>7, <1>8 DEF Next, TaskStep

\* A farewell is written by a source, which is used up.
LEMMA FarewellStep ==
  ASSUME TypeOK, [Next]_vars, NEW c \in Conns,
         NEW x \in Farewells(c)', x \notin Farewells(c)
  PROVE  /\ x = Len(out[c]) + 1 /\ out' # out
         /\ \E h, y : Source(c, h, y) /\ ~Source(c, h, y)'
<1> USE DEF Farewells
<1>1. StepWrites
  BY NextWrites
<1>2. x \in DOMAIN out'[c] /\ IsFarewell(out'[c][x])
  BY DEF IsFarewell, FarewellCodes, Expiry
<1>3. ~(x \in DOMAIN out[c] /\ out'[c][x] = out[c][x])
  OBVIOUS
<1>4. out' # out
  BY <1>3, <1>2
<1>5. ASSUME NEW d \in Conns, NEW m, Writes(d, m)
      PROVE  d = c /\ IsFarewell(m) /\ x = Len(out[c]) + 1
  BY <1>2, <1>3, <1>5, WritesLog
<1>6. \A d, n : ~IsFarewell(Signal(d, n))
  BY DEF Signal, IsFarewell
<1>7. \A i : ~IsFarewell(Paired(i))
  BY DEF Paired, IsFarewell
<1>8. PICK d \in Conns, m \in Message : \E how, y :
        /\ Writes(d, m) /\ IsFarewell(m)
        /\ Source(d, how, y) /\ ~Source(d, how, y)'
  BY <1>1, <1>4, <1>5, <1>6, <1>7 DEF StepWrites, IsAnswer
<1> QED BY <1>4, <1>5, <1>8

\* Each peer is told of its end at most once, although both handlers, both
\* delivery goroutines and the janitor may find the same session: whoever
\* removes it from the maps under b.mu is the only one to tell.
THEOREM OneFarewellAlways == Spec => []OneFarewell
<1> DEFINE Inv == NoEndingInPlay /\ OneEnding
<1>1. Init => Inv
  BY DEF Init, NoEndingInPlay, OneEnding, Ending, Source, Farewells, Expiry
<1>2. MapsInv /\ Inv /\ [Next]_vars => Inv'
  <2> SUFFICES ASSUME MapsInv, Inv, [Next]_vars
               PROVE  Inv'
    OBVIOUS
  <2>0. TypeOK
    BY DEF MapsInv
  <2>1. ASSUME NEW c \in Conns, InPlay(c), NEW how, NEW x, Ending(c, how, x)
        PROVE  FALSE
    BY <2>1, EndingBounds DEF NoEndingInPlay
  <2>2. ASSUME NEW c \in Conns, NEW h1, NEW h2, NEW x1, NEW x2,
               Ending(c, h1, x1), Ending(c, h2, x2)
        PROVE  h1 = h2 /\ x1 = x2
    BY <2>2, EndingBounds DEF OneEnding
  <2>3. ASSUME NEW c \in Conns, NEW how, NEW x, Ending(c, how, x)',
               ~Ending(c, how, x), how # "said"
        PROVE  NewSource(c, how, x)
    BY <2>3, SourceStep DEF Ending
  <2>4. ASSUME NEW c \in Conns, NEW x, Ending(c, "said", x)',
               ~Ending(c, "said", x)
        PROVE  /\ x = Len(out[c]) + 1 /\ out' # out
               /\ \E h, y : Source(c, h, y) /\ ~Source(c, h, y)'
    BY <2>0, <2>4, FarewellStep DEF Ending, Source
  <2>5. NoEndingInPlay'
    <3> SUFFICES ASSUME NEW c \in Conns, InPlay(c)', NEW how, NEW x,
                        Ending(c, how, x)'
                 PROVE  FALSE
      BY DEF NoEndingInPlay
    <3>1. InPlay(c)
      BY InPlayShrinks
    <3>2. ~Ending(c, how, x)
      BY <2>1, <3>1
    <3>3. CASE how # "said"
      BY <2>3, <3>2, <3>3 DEF NewSource
    <3>4. CASE how = "said"
      BY <2>1, <2>4, <3>1, <3>2, <3>4 DEF Ending
    <3> QED BY <3>3, <3>4
  <2>6. OneEnding'
    <3> SUFFICES ASSUME NEW c \in Conns, NEW h1, NEW h2, NEW x1, NEW x2,
                        Ending(c, h1, x1)', Ending(c, h2, x2)'
                 PROVE  h1 = h2 /\ x1 = x2
      BY DEF OneEnding
    <3>1. ASSUME NEW g1, NEW g2, NEW y1, NEW y2, Ending(c, g1, y1)',
                 Ending(c, g2, y2)', ~Ending(c, g1, y1), g1 # "said"
          PROVE  g1 = g2 /\ y1 = y2
      <4>1. NewSource(c, g1, y1)
        BY <2>3, <3>1
      <4>2. ~Ending(c, g2, y2)
        BY <2>1, <4>1 DEF NewSource
      <4>3. g2 # "said"
        BY <2>4, <3>1, <4>1, <4>2 DEF NewSource
      <4>4. Source(c, g2, y2)' /\ ~Source(c, g2, y2)
        BY <3>1, <4>2, <4>3 DEF Ending
      <4> QED BY <4>1, <4>4 DEF NewSource
    <3>2. ASSUME NEW g2, NEW y1, NEW y2, Ending(c, "said", y1)',
                 Ending(c, g2, y2)', ~Ending(c, "said", y1)
          PROVE  "said" = g2 /\ y1 = y2
      <4>1. PICK h, y : Source(c, h, y) /\ ~Source(c, h, y)'
        BY <2>4, <3>2
      <4>2. h # "said" /\ Ending(c, h, y)
        BY <4>1 DEF Source, Ending
      <4>3. CASE Ending(c, g2, y2)
        <5>1. g2 = h /\ y2 = y
          BY <2>2, <4>2, <4>3
        <5> QED BY <3>2, <4>1, <4>2, <5>1 DEF Ending
      <4>4. CASE ~Ending(c, g2, y2)
        <5>1. CASE g2 # "said"
          BY <3>1, <3>2, <4>4, <5>1
        <5>2. CASE g2 = "said"
          BY <2>4, <3>2, <4>4, <5>2
        <5> QED BY <5>1, <5>2
      <4> QED BY <4>3, <4>4
    <3>3. CASE Ending(c, h1, x1) /\ Ending(c, h2, x2)
      BY <2>2, <3>3
    <3>4. CASE ~Ending(c, h1, x1)
      BY <3>1, <3>2, <3>4
    <3>5. CASE ~Ending(c, h2, x2)
      BY <3>1, <3>2, <3>5
    <3> QED BY <3>3, <3>4, <3>5
  <2> QED BY <2>5, <2>6
<1>3. Inv => OneFarewell
  <2> SUFFICES ASSUME Inv, NEW c \in Conns
               PROVE  Cardinality(Farewells(c)) <= 1
    BY DEF OneFarewell
  <2>1. \A i, j \in Farewells(c) : i = j
    BY DEF OneEnding, Ending, Endings, Ends, Farewells
  <2>2. CASE Farewells(c) = {}
    BY <2>2, FS_EmptySet
  <2>3. CASE Farewells(c) # {}
    <3>1. PICK i : Farewells(c) = {i}
      BY <2>1, <2>3
    <3>2. Cardinality({i}) = 1
      BY FS_Singleton
    <3> QED BY <3>1, <3>2
  <2> QED BY <2>2, <2>3
<1> QED BY <1>1, <1>2, <1>3, MapsInvHolds, PTL DEF Spec

-----------------------------------------------------------------------------
(* Signals. *)

\* d is, was or is going to be heard by c.
Heard(d, c) ==
  \/ \E s \in SessionsOf(c) : Partner(s, c) = d
  \/ phase[d] = "relay" /\ target[d] = c
  \/ \E i \in DOMAIN out[c] : out[c][i].type = "signal" /\ out[c][i].from = d

\* A peer that hears somebody has been paired, and hears nobody else.
OnePartner ==
  \A c \in Conns : \A d \in Conns : Heard(d, c) =>
    /\ ~Unpaired(c)
    /\ \A e \in Conns : Heard(e, c) => d = e

\* Signals are numbered as they are read; one that is still to be written has
\* a higher number than all that have been.
Numbered ==
  \A c \in Conns : \A i \in DOMAIN out[c] :
    out[c][i].type = "signal" =>
      /\ out[c][i].from \in Conns /\ out[c][i].n \in Nat
      /\ out[c][i].n <= sent[out[c][i].from]
      /\ phase[out[c][i].from] = "relay" => out[c][i].n < sent[out[c][i].from]

\* Messages are numbered one after the other, and reading a signal takes the
\* next number.
LEMMA SentStep ==
  ASSUME TypeOK, [Next]_vars, NEW d \in Conns
  PROVE  /\ sent[d] \in Nat /\ sent'[d] \in Nat /\ sent[d] <= sent'[d]
         /\ phase[d] # "relay" /\ phase'[d] = "relay" => sent'[d] = sent[d] + 1
<1> USE BoundAssumption DEF TypeOK, Goto
<1>1. CASE \E c \in Conns : ClientStep(c) \/ RegisterFail(c)
  BY <1>1 DEF ClientStep, Connect, ConnLost, WriteStall, Register, ReadSignal,
       CanRead, ReadOther, RegisterFail, local
<1>2. CASE \E c \in Conns : ServerStep(c)
  BY <1>2 DEF ServerStep, Ack, PairRefused, BecomeWaiter, Pair, Reject,
       RelaySignal, RelayFailed, ReadError, Unregister, NotifyLeft, Close, local
<1>3. CASE \E c \in Conns : TaskStep(c)
  BY <1>3 DEF TaskStep, DeliverPaired, TaskUnregister, TaskNotify, local
<1>4. CASE \/ \E W \in SUBSET Keys, S \in SUBSET Sids : CollectStale(W, S)
           \/ EvictStep \/ Shutdown \/ JanitorExit \/ ShutdownClose
           \/ Finished \/ UNCHANGED vars
  BY <1>4 DEF CollectStale, EvictStep, EvictSend, EvictClose, Shutdown,
       JanitorExit, ShutdownClose, Finished, vars, local
<1> QED BY <1>1, <1>2, <1>3, <1>4 DEF Next

\* The partner's partner.
LEMMA PartnerOfPartner ==
  ASSUME MapsInv, NEW c \in Conns, NEW s \in SessionsOf(c)
  PROVE  LET d == Partner(s, c)
         IN  d \in Conns /\ s \in SessionsOf(d) /\ Partner(s, d) = c
BY DEF MapsInv, TypeOK, MapsCore, SessionsOK, SessionsOf, Partner, Sessions

\* The sessions c has after a step are old ones, or c has just been paired and
\* has one partner.
LEMMA PartnerStep ==
  ASSUME MapsInv, [Next]_vars, NEW c \in Conns
  PROVE  \/ \A s \in SessionsOf(c)' :
              s \in SessionsOf(c) /\ Partner(s, c)' = Partner(s, c)
         \/ /\ Unpaired(c) /\ ~Unpaired(c)'
            /\ \E f \in Conns : \A s \in SessionsOf(c)' : Partner(s, c)' = f
<1> USE DEF MapsInv, TypeOK
<1>1. CASE \A s \in Sids : sessions'[s] \in {sessions[s], None}
  BY <1>1 DEF SessionsOf, Partner
<1>2. CASE \E d \in Conns : Pair(d)
  <2>1. PICK d \in Conns : Pair(d)
    BY <1>2
  <2> DEFINE w == waiting[key[d]]
  <2>2. /\ key[d] \in Keys /\ w \in Conns /\ phase[d] = "pair" /\ w # d
        /\ phase[w] \in Owning /\ activeKey[key[d]] = None /\ key[w] = key[d]
        /\ waiting' = [waiting EXCEPT ![key[d]] = None]
        /\ phase' = [phase EXCEPT ![d] = "read"]
    BY <2>1 DEF Pair, Known, Goto, Owned, Owning, MapsCore, WaitingOK
  <2>3. PICK s \in Sids : sessions' = [sessions EXCEPT ![s] =
                            [key |-> key[d], first |-> w, second |-> d]]
    BY <2>1 DEF Pair
  <2>4. sessions'[s] # None
    BY <2>2, <2>3, NoneAssumption DEF Sessions
  <2>5. CASE c \notin {w, d}
    <3>1. ASSUME NEW r \in SessionsOf(c)'
          PROVE  r \in SessionsOf(c) /\ Partner(r, c)' = Partner(r, c)
      <4>1. r # s
        BY <2>3, <2>5 DEF SessionsOf
      <4> QED BY <2>3, <4>1 DEF SessionsOf, Partner
    <3> QED BY <3>1
  <2>6. CASE c \in {w, d}
    <3>1. SessionsOf(c) = {}
      BY <2>2, <2>6, NoneAssumption DEF SessionsOf, MapsCore, SessionsOK, Sessions
    <3>2. \A r \in SessionsOf(c)' : r = s
      BY <2>3, <3>1 DEF SessionsOf
    <3>3. \A k \in Keys : waiting'[k] \notin {w, d}
      BY <2>2, NoneAssumption DEF MapsCore, WaitingOK, Owned, Owning
    <3>4. Unpaired(c) /\ ~Unpaired(c)'
      BY <2>2, <2>6, <3>3 DEF Unpaired, Early, Owning
    <3>5. Partner(s, c)' \in {w, d}
      BY <2>3 DEF Partner
    <3> QED BY <2>2, <3>2, <3>4, <3>5
  <2> QED BY <2>5, <2>6
<1> QED BY <1>1, <1>2, SessionsStep

\* Apart from a new session, nobody is heard who was not heard before.
LEMMA HeardStep ==
  ASSUME MapsInv, [Next]_vars, NEW c \in Conns, NEW d \in Conns, Heard(d, c)'
  PROVE  Heard(d, c) \/ \E s \in SessionsOf(c)' : Partner(s, c)' = d
<1>1. TypeOK
  BY DEF MapsInv
<1>2. CASE phase'[d] = "relay" /\ target'[d] = c
  <2>1. CASE phase[d] = "relay" /\ target'[d] = target[d]
    BY <1>2, <2>1 DEF Heard
  <2>2. CASE \E s \in SessionsOf(d) : target'[d] = Partner(s, d)
    BY <1>2, <2>2, PartnerOfPartner DEF Heard
  <2> QED BY <1>1, <1>2, <2>1, <2>2, NextRelay
<1>3. CASE \E i \in DOMAIN out'[c] : out'[c][i].type = "signal" /\ out'[c][i].from = d
  BY <1>1, <1>3, NextLog DEF LogStep, Heard
<1> QED BY <1>2, <1>3 DEF Heard

\* A second partner would need a second pairing.
LEMMA OnePartnerStep ==
  ASSUME MapsInv, OnePartner, [Next]_vars
  PROVE  OnePartner'
<1> SUFFICES ASSUME NEW c \in Conns, NEW d \in Conns, NEW e \in Conns,
                    Heard(d, c)', Heard(e, c)'
             PROVE  ~Unpaired(c)' /\ d = e
  BY DEF OnePartner
<1>1. CASE \A s \in SessionsOf(c)' :
             s \in SessionsOf(c) /\ Partner(s, c)' = Partner(s, c)
  <2>1. Heard(d, c) /\ Heard(e, c)
    BY <1>1, HeardStep DEF Heard
  <2> QED BY <2>1, UnpairedShrinks DEF OnePartner, MapsInv
<1>2. CASE /\ Unpaired(c) /\ ~Unpaired(c)'
           /\ \E f \in Conns : \A s \in SessionsOf(c)' : Partner(s, c)' = f
  <2>1. ~Heard(d, c) /\ ~Heard(e, c)
    BY <1>2 DEF OnePartner
  <2> QED BY <1>2, <2>1, HeardStep
<1> QED BY <1>1, <1>2, PartnerStep

\* The signals of a log after a step: those it had, or those and one more at
\* the end, from a handler that looked its peer up as its target.
LEMMA SignalStep ==
  ASSUME TypeOK, [Next]_vars, NEW c \in Conns
  PROVE  \/ \A i \in DOMAIN out'[c] : out'[c][i].type = "signal" =>
              i \in DOMAIN out[c] /\ out'[c][i] = out[c][i]
         \/ \E d \in Conns : /\ phase[d] = "relay" /\ target[d] = c
                             /\ phase'[d] # "relay" /\ UNCHANGED sent
                             /\ Writes(c, Signal(d, sent[d]))
<1>1. StepWrites
  BY NextWrites
<1>2. ASSUME NEW d \in Conns, NEW m, Writes(d, m), m.type # "signal" \/ d # c
      PROVE  \A i \in DOMAIN out'[c] : out'[c][i].type = "signal" =>
               i \in DOMAIN out[c] /\ out'[c][i] = out[c][i]
  BY <1>2, WritesLog
<1>3. \A b : Paired(b).type # "signal"
  BY DEF Paired
<1>4. \A m : IsAnswer(m) \/ IsFarewell(m) => m.type # "signal"
  BY DEF IsAnswer, IsFarewell
<1> QED BY <1>1, <1>2, <1>3, <1>4 DEF StepWrites

\* A handler that has a signal to write has read it last.
LEMMA NumberedStep ==
  ASSUME TypeOK, Numbered, [Next]_vars
  PROVE  Numbered'
<1> SUFFICES ASSUME NEW c \in Conns, NEW i \in DOMAIN out'[c],
                    out'[c][i].type = "signal"
             PROVE  /\ out'[c][i].from \in Conns /\ out'[c][i].n \in Nat
                    /\ out'[c][i].n <= sent'[out'[c][i].from]
                    /\ phase'[out'[c][i].from] = "relay" =>
                         out'[c][i].n < sent'[out'[c][i].from]
  BY DEF Numbered
<1>1. CASE i \in DOMAIN out[c] /\ out'[c][i] = out[c][i]
  <2>1. PICK d \in Conns, n \in Nat :
          /\ d = out[c][i].from /\ n = out[c][i].n
          /\ n <= sent[d] /\ (phase[d] = "relay" => n < sent[d])
    BY <1>1 DEF Numbered
  <2>2. /\ sent[d] \in Nat /\ sent'[d] \in Nat /\ sent[d] <= sent'[d]
        /\ phase[d] # "relay" /\ phase'[d] = "relay" => sent'[d] = sent[d] + 1
    BY SentStep
  <2>3. n <= sent'[d] /\ (phase'[d] = "relay" => n < sent'[d])
    BY <2>1, <2>2
  <2> QED BY <1>1, <2>1, <2>3
<1>2. CASE ~(i \in DOMAIN out[c] /\ out'[c][i] = out[c][i])
  <2>1. PICK d \in Conns : /\ phase'[d] # "relay" /\ UNCHANGED sent
                           /\ Writes(c, Signal(d, sent[d]))
    BY <1>2, SignalStep
  <2>2. out'[c][i] = Signal(d, sent[d])
    BY <1>2, <2>1, WritesLog
  <2>3. out'[c][i].from = d /\ out'[c][i].n = sent[d] /\ sent[d] \in Nat
    BY <2>2 DEF Signal, TypeOK
  <2> QED BY <2>1, <2>3
<1> QED BY <1>1, <1>2

\* A peer hears one partner in its life, and hears it in the order in which the
\* partner's handler read the signals, although the handler looks its target
\* up and writes to it in two steps.
THEOREM SignalsInOrderAlways == Spec => []SignalsInOrder
<1> DEFINE Inv == OnePartner /\ Numbered /\ SignalsInOrder
<1>1. Init => Inv
  BY DEF Init, OnePartner, Heard, SessionsOf, Numbered, SignalsInOrder
<1>2. MapsInv /\ Inv /\ [Next]_vars => Inv'
  <2> SUFFICES ASSUME MapsInv, Inv, [Next]_vars
               PROVE  SignalsInOrder'
    BY OnePartnerStep, NumberedStep DEF MapsInv
  <2>1. TypeOK
    BY DEF MapsInv
  <2> SUFFICES ASSUME NEW c \in Conns,
                      NEW i \in DOMAIN out'[c], NEW j \in DOMAIN out'[c], i < j,
                      out'[c][i].type = "signal", out'[c][j].type = "signal"
               PROVE  /\ out'[c][i].from = out'[c][j].from
                      /\ out'[c][i].n < out'[c][j].n
    BY DEF SignalsInOrder
  <2>2. CASE \A h \in DOMAIN out'[c] : out'[c][h].type = "signal" =>
               h \in DOMAIN out[c] /\ out'[c][h] = out[c][h]
    BY <2>2 DEF SignalsInOrder
  <2>3. CASE \E d \in Conns : /\ phase[d] = "relay" /\ target[d] = c
                              /\ Writes(c, Signal(d, sent[d]))
    <3>1. PICK d \in Conns : /\ phase[d] = "relay" /\ target[d] = c
                             /\ Writes(c, Signal(d, sent[d]))
      BY <2>3
    <3> DEFINE l == Len(out[c]) + 1
    <3>2. /\ DOMAIN out'[c] = DOMAIN out[c] \cup {l}
          /\ \A h \in DOMAIN out[c] : out'[c][h] = out[c][h] /\ h < l
          /\ out'[c][l] = Signal(d, sent[d])
      BY <2>1, <3>1, WritesLog
    <3>3. /\ DOMAIN out[c] \subseteq Nat /\ l \in Nat
      BY <2>1 DEF TypeOK
    <3>4. i \in DOMAIN out[c]
      BY <3>2, <3>3
    <3>5. CASE j \in DOMAIN out[c]
      BY <3>2, <3>4, <3>5 DEF SignalsInOrder
    <3>6. CASE j = l
      <4>1. Heard(d, c) /\ Heard(out[c][i].from, c) /\ out[c][i].from \in Conns
        BY <3>1, <3>2, <3>4 DEF Heard, Numbered
      <4>2. out[c][i].from = d
        BY <4>1 DEF OnePartner
      <4>3. out[c][i].n < sent[d]
        BY <3>1, <3>2, <3>4, <4>2 DEF Numbered
      <4> QED BY <3>2, <3>4, <3>6, <4>2, <4>3 DEF Signal
    <3> QED BY <3>2, <3>5, <3>6
  <2> QED BY <2>1, <2>2, <2>3, SignalStep
<1> QED BY <1>1, <1>2, MapsInvHolds, PTL DEF Spec

=============================================================================

---------------------------- MODULE StreamProofs ----------------------------
(***************************************************************************)
(* Stream for any number of chunks.  None of its three safety properties   *)
(* is inductive.  Places and NotYet say what has not happened before the   *)
(* dial, Reached which target that dial is of, Wires where the ready byte  *)
(* can be, Order is OnlyTheStartIsLost with the number of chunks read at   *)
(* the far end tied to it, and ReplyInv adds to ReplyThenAnswer who may    *)
(* have spoken and what is on its way.                                     *)
(***************************************************************************)
EXTENDS Stream, TLAPS

-----------------------------------------------------------------------------
(* Types. *)

\* what the messages are
LEMMA MessageKinds ==
  /\ \A n \in 1..MaxChunks : Data(n) \in Messages
  /\ Ready \in Messages /\ Replies \subseteq Messages
  /\ \A r \in {"success", "failure", "no method"} : Reply(r) \in Replies
  /\ \A n : IsData(Data(n)) /\ Data(n)[2] = n
  /\ ~IsData(Ready) /\ \A m \in Replies : ~IsData(m) /\ m # Ready
  /\ \A m \in Messages : IsData(m) => m = Data(m[2]) /\ m[2] \in 1..MaxChunks
<1>1. \A n \in 1..MaxChunks : Data(n) \in Messages
  BY DEF Messages
<1>2. Ready \in Messages /\ Replies \subseteq Messages
  BY DEF Messages
<1>3. \A r \in {"success", "failure", "no method"} : Reply(r) \in Replies
  BY DEF Replies
<1>4. \A n : IsData(Data(n)) /\ Data(n)[2] = n
  BY DEF Data, IsData
<1>5. ~IsData(Ready)
  BY DEF Ready, IsData
<1>6. \A m \in Replies : ~IsData(m) /\ m # Ready
  <2>1. \A r \in {"success", "failure", "no method"} : Reply(r)[1] = r
    BY DEF Reply
  <2>2. Ready[1] = "ready"
    BY DEF Ready
  <2> QED BY <2>1, <2>2 DEF Replies, IsData
<1>7. ASSUME NEW m \in Messages, IsData(m)
      PROVE  m = Data(m[2]) /\ m[2] \in 1..MaxChunks
  <2>1. PICK n \in 1..MaxChunks : m = Data(n)
    BY <1>5, <1>6, <1>7 DEF Messages
  <2> QED BY <1>4, <2>1
<1> QED BY <1>1, <1>2, <1>3, <1>4, <1>5, <1>6, <1>7

\* A message put at the end of one sequence.
LEMMA AppendIn ==
  ASSUME NEW S, NEW f \in [Ends -> Seq(S)], NEW e \in Ends, NEW m \in S
  PROVE  [f EXCEPT ![e] = Append(@, m)] \in [Ends -> Seq(S)]
OBVIOUS

\* A message taken off one sequence.
LEMMA TailIn ==
  ASSUME NEW S, NEW f \in [Ends -> Seq(S)], NEW e \in Ends, f[e] # <<>>
  PROVE  [f EXCEPT ![e] = Tail(@)] \in [Ends -> Seq(S)] /\ Head(f[e]) \in S
OBVIOUS

\* conn.Write leaves sequences of messages.
LEMMA WriteIn ==
  ASSUME TypeOK, NEW e \in Ends, NEW m \in Messages, Write(e, m)
  PROVE  got' \in [Ends -> Seq(Messages)]
BY AppendIn DEF TypeOK, Write

\* The first state is well typed.
LEMMA InitTypeOK == Init => TypeOK
BY ChunksAssumption DEF Init, TypeOK, Ends

\* An expose peer in SOCKS5 mode dials only with a label that names a target.
LabelOK == back = "dial" /\ socks["expose"] => socks["connect"]

\* Only parseSocks5Label lets the dial begin.
LEMMA NextLabelOK == LabelOK /\ [Next]_vars => LabelOK'
<1> SUFFICES ASSUME LabelOK, [Next]_vars PROVE LabelOK'
  OBVIOUS
<1> USE DEF LabelOK, setup
<1>1. CASE ParseLabel
  BY <1>1 DEF ParseLabel, Labelled
<1>2. CASE socks' = socks /\ (back' = back \/ back' # "dial")
  BY <1>2
<1> QED
  BY <1>1, <1>2 DEF Next, ConnectSteps, ExposeSteps, Handshake, OpenStreamChannel,
     OnOpen, AwaitReady, TimeoutClose, ConnectBridge, ReplySuccess, ChannelArrives,
     Dial, SendReady, ExposeBridge, ReadChunk, ReadEnds, OnMessage, OnClose,
     TransportFails, vars

\* Every step leaves every variable in its type.
LEMMA NextTypeOK == TypeOK /\ LabelOK /\ [Next]_vars => TypeOK'
<1> SUFFICES ASSUME TypeOK, LabelOK, [Next]_vars PROVE TypeOK'
  OBVIOUS
<1> USE ChunksAssumption
<1> USE DEF setup, ends, data, Set, CloseConn, CloseBoth
<1>0. "connect" \in Ends /\ "expose" \in Ends
  BY DEF Ends
<1>1. CASE Handshake
  <2>1. got' \in [Ends -> Seq(Messages)]
    BY <1>0, <1>1, WriteIn, MessageKinds DEF Handshake, TypeOK
  <2> QED BY <1>1, <2>1 DEF Handshake, TypeOK
<1>2. CASE OpenStreamChannel
  <2>1. got' \in [Ends -> Seq(Messages)]
    BY <1>0, <1>2, WriteIn, MessageKinds DEF OpenStreamChannel, TypeOK
  <2> QED BY <1>2, <2>1 DEF OpenStreamChannel, TypeOK
<1>3. CASE OnOpen
  BY <1>3 DEF OnOpen, TypeOK
<1>4. CASE AwaitReady
  <2>1. readyCh' \in 0..1
    BY <1>4 DEF AwaitReady, TypeOK
  <2>2. front' \in {"bridge", "close"}
    BY <1>4 DEF AwaitReady
  <2> QED BY <1>4, <2>1, <2>2 DEF AwaitReady, TypeOK
<1>5. CASE TimeoutClose
  BY <1>5 DEF TimeoutClose, TypeOK
<1>6. CASE ConnectBridge
  BY <1>6 DEF ConnectBridge, TypeOK
<1>7. CASE ReplySuccess
  <2>1. got' \in [Ends -> Seq(Messages)]
    BY <1>0, <1>7, WriteIn, MessageKinds DEF ReplySuccess, TypeOK
  <2> QED BY <1>7, <2>1 DEF ReplySuccess, TypeOK
<1>8. CASE ChannelArrives
  BY <1>8 DEF ChannelArrives, TypeOK
<1>9. CASE ParseLabel
  BY <1>9 DEF ParseLabel, TypeOK
<1>10. CASE Dial
  <2>1. reached' \in {"none", "asked", "own"}
    BY <1>10 DEF Dial, ActualTarget, Labelled, LabelOK, TypeOK
  <2> QED BY <1>10, <2>1 DEF Dial, TypeOK
<1>11. CASE SendReady
  <2>1. wire' \in [Ends -> Seq(Messages)]
    <3>1. wire \in [Ends -> Seq(Messages)]
      BY DEF TypeOK
    <3>2. [wire EXCEPT !["connect"] = Append(@, Ready)] \in [Ends -> Seq(Messages)]
      BY <1>0, <3>1, AppendIn, MessageKinds
    <3> QED BY <1>11, <3>1, <3>2 DEF SendReady
  <2> QED BY <1>11, <2>1 DEF SendReady, TypeOK
<1>12. CASE ExposeBridge
  BY <1>12 DEF ExposeBridge, TypeOK
<1>13. ASSUME NEW e \in Ends, ReadChunk(e) PROVE TypeOK'
  <2>1. Far(e) \in Ends
    BY DEF Far, Ends
  <2>2. sent[e] + 1 \in 1..MaxChunks
    BY SMTT(60), <1>13 DEF ReadChunk, TypeOK
  <2>3. wire' \in [Ends -> Seq(Messages)]
    <3>1. wire \in [Ends -> Seq(Messages)]
      BY DEF TypeOK
    <3>2. [wire EXCEPT ![Far(e)] = Append(@, Data(sent[e] + 1))] \in [Ends -> Seq(Messages)]
      BY <2>1, <2>2, <3>1, AppendIn, MessageKinds
    <3> QED BY <1>13, <3>1, <3>2 DEF ReadChunk
  <2>4. sent' \in [Ends -> 0..MaxChunks]
    BY <1>13, <2>2 DEF ReadChunk, TypeOK
  <2> QED BY <1>13, <2>3, <2>4 DEF ReadChunk, TypeOK
<1>14. ASSUME NEW e \in Ends, ReadEnds(e) PROVE TypeOK'
  BY <1>14 DEF ReadEnds, TypeOK
<1>15. ASSUME NEW e \in Ends, OnMessage(e) PROVE TypeOK'
  <2>1. wire' \in [Ends -> Seq(Messages)] /\ Head(wire[e]) \in Messages
    BY <1>15, TailIn DEF OnMessage, TypeOK
  <2>2. got' \in [Ends -> Seq(Messages)]
    BY <1>15, <2>1, WriteIn DEF OnMessage, TypeOK
  <2>3. lost' \in [Ends -> Seq(Messages)]
    BY <1>15, <2>1, AppendIn DEF OnMessage, TypeOK
  <2> QED BY <1>15, <2>1, <2>2, <2>3 DEF OnMessage, TypeOK
<1>16. ASSUME NEW e \in Ends, OnClose(e) PROVE TypeOK'
  BY <1>16 DEF OnClose, TypeOK
<1>17. CASE TransportFails
  BY <1>17 DEF TransportFails, TypeOK
<1>18. CASE UNCHANGED vars
  BY <1>18 DEF vars, TypeOK
<1> QED
  BY <1>1, <1>2, <1>3, <1>4, <1>5, <1>6, <1>7, <1>8, <1>9, <1>10, <1>11, <1>12,
     <1>13, <1>14, <1>15, <1>16, <1>17, <1>18 DEF Next, ConnectSteps, ExposeSteps

\* Every variable of a stream stays in its type, for any number of chunks: an
\* expose peer never dials what a label without a target would name, and all
\* that travels or is written is a chunk, the ready byte or a declared reply.
THEOREM TypeCorrect == Spec => []TypeOK
<1>1. Init => LabelOK
  BY DEF Init, LabelOK
<1> QED BY <1>1, InitTypeOK, NextTypeOK, NextLabelOK, PTL DEF Spec

-----------------------------------------------------------------------------
(* Where the two ends are. *)

\* the expose peer has not sent the ready byte, or never will
Early == back \notin {"bridge", "done"}

\* how far each end is, and which handler, channel and connection it then has
Places ==
  /\ front \in {"accepted", "open", "opening"} =>
       handler["connect"] = "none" /\ got["connect"] = <<>>
  /\ front \in {"wait", "bridge", "close"} => handler["connect"] = "ready"
  /\ front = "reply" => handler["connect"] = "bridge"
  /\ front \in {"wait", "bridge", "close", "reply"} => socks["connect"]
  /\ handler["connect"] = "none" <=> chan["connect"] = "none"
  /\ handler["connect"] = "ready" => got["connect"] = <<>>
  /\ handler["expose"] \in {"none", "bridge"}
  /\ handler["expose"] = "bridge" <=> back = "done"
  /\ handler["expose"] = "none" => got["expose"] = <<>>
  /\ conn["connect"] # "none"
  /\ back = "none" => chan["expose"] = "none"
  /\ back \in {"none", "label", "dial"} => conn["expose"] = "none"
  /\ back \in {"ready", "bridge", "done"} => conn["expose"] # "none"
  /\ back \in {"dial", "ready"} => (socks["expose"] => socks["connect"])
  /\ back = "ready" => socks["expose"]

\* before the ready byte, or its place in plain mode, nothing has been sent to
\* the connect peer, which in SOCKS5 mode has no bridge
NotYet ==
  Early => /\ wire["connect"] = <<>> /\ readyCh = 0
           /\ front \notin {"bridge", "reply"} /\ ~Succeeded
           /\ handler["connect"] = "bridge" => ~socks["connect"]

\* once there is a connection, its target is the one the mode asks for
Reached ==
  conn["expose"] # "none" => reached = IF socks["expose"] THEN "asked" ELSE "own"

\* only chunks
Pure(s) == \A i \in DOMAIN s : IsData(s[i])

\* only chunks, but for a ready byte in front
ReadyFirst(s) == \A i \in DOMAIN s : IsData(s[i]) \/ (i = 1 /\ s[i] = Ready)

\* the ready byte travels once, first, and only to a connect peer whose SOCKS5
\* set-up still waits for it; no bridge writes it
Wires ==
  /\ Pure(wire["expose"]) /\ ReadyFirst(wire["connect"])
  /\ Has(wire["connect"], Ready) =>
       /\ readyCh = 0 /\ front \notin {"bridge", "reply"}
       /\ handler["connect"] # "bridge" /\ socks["connect"]
  /\ \A e \in Ends : ~Has(got[e], Ready)

\* Every step keeps the two ends in step with their set-up.
LEMMA PlacesStep == TypeOK /\ Places /\ [Next]_vars => Places'
<1> SUFFICES ASSUME TypeOK, Places, [Next]_vars PROVE Places'
  OBVIOUS
<1> USE DEF TypeOK, Places, setup, ends, data, Set, CloseConn, CloseBoth, Write, Ends
<1>1. CASE Handshake
  BY <1>1 DEF Handshake
<1>2. CASE OpenStreamChannel
  BY <1>2 DEF OpenStreamChannel
<1>3. CASE OnOpen
  BY <1>3 DEF OnOpen
<1>4. CASE AwaitReady
  BY <1>4 DEF AwaitReady
<1>5. CASE TimeoutClose
  BY <1>5 DEF TimeoutClose
<1>6. CASE ConnectBridge
  BY <1>6 DEF ConnectBridge
<1>7. CASE ReplySuccess
  BY SMTT(60), <1>7 DEF ReplySuccess
<1>8. CASE ChannelArrives
  BY <1>8 DEF ChannelArrives
<1>9. CASE ParseLabel
  BY <1>9 DEF ParseLabel, Labelled
<1>10. CASE Dial
  BY <1>10 DEF Dial
<1>11. CASE SendReady
  BY <1>11 DEF SendReady
<1>12. CASE ExposeBridge
  BY <1>12 DEF ExposeBridge
<1>13. ASSUME NEW e \in Ends, ReadChunk(e) PROVE Places'
  BY <1>13 DEF ReadChunk
<1>14. ASSUME NEW e \in Ends, ReadEnds(e) PROVE Places'
  BY <1>14 DEF ReadEnds
<1>15. ASSUME NEW e \in Ends, OnMessage(e) PROVE Places'
  BY ZenonT(60), <1>15 DEF OnMessage
<1>16. ASSUME NEW e \in Ends, OnClose(e) PROVE Places'
  BY <1>16 DEF OnClose
<1>17. CASE TransportFails
  BY <1>17 DEF TransportFails
<1>18. CASE UNCHANGED vars
  BY <1>18 DEF vars
<1> QED
  BY <1>1, <1>2, <1>3, <1>4, <1>5, <1>6, <1>7, <1>8, <1>9, <1>10, <1>11, <1>12,
     <1>13, <1>14, <1>15, <1>16, <1>17, <1>18
     DEF Next, ConnectSteps, ExposeSteps

\* Only the dial makes a connection at the expose peer, after its label was
\* found to name a target.
LEMMA ReachedStep ==
  TypeOK /\ Places /\ Reached /\ [Next]_vars => Reached'
<1> SUFFICES ASSUME TypeOK, Places, Reached, [Next]_vars PROVE Reached'
  OBVIOUS
<1> USE DEF setup, ends, data, Set, CloseConn, CloseBoth, Ends
<1>1. CASE Dial
  BY <1>1 DEF Dial, ActualTarget, Labelled, Places, Reached, TypeOK
<1>2. CASE /\ UNCHANGED <<socks, reached>>
           /\ conn["expose"] = "none" => conn'["expose"] = "none"
  BY <1>2 DEF Reached
<1>3. CASE Handshake \/ OpenStreamChannel \/ OnOpen \/ AwaitReady \/ TimeoutClose
             \/ ConnectBridge \/ ReplySuccess
  BY <1>2, <1>3 DEF TypeOK, Handshake, OpenStreamChannel, OnOpen, AwaitReady,
     TimeoutClose, ConnectBridge, ReplySuccess
<1>4. CASE ChannelArrives \/ ParseLabel \/ ExposeBridge
  BY <1>2, <1>4 DEF ChannelArrives, ParseLabel, ExposeBridge
<1>5. CASE SendReady
  BY <1>2, <1>5 DEF SendReady, Places
<1>6. ASSUME NEW e \in Ends, ReadChunk(e) \/ ReadEnds(e) PROVE Reached'
  BY <1>2, <1>6 DEF ReadChunk, ReadEnds, TypeOK
<1>7. ASSUME NEW e \in Ends, OnMessage(e) PROVE Reached'
  BY <1>2, <1>7 DEF OnMessage
<1>8. ASSUME NEW e \in Ends, OnClose(e) PROVE Reached'
  BY <1>2, <1>8 DEF OnClose, Places, TypeOK
<1>9. CASE TransportFails \/ UNCHANGED vars
  BY <1>2, <1>9 DEF TransportFails, vars
<1> QED
  BY <1>1, <1>3, <1>4, <1>5, <1>6, <1>7, <1>8, <1>9 DEF Next, ConnectSteps, ExposeSteps

\* What a sequence with one more message has.
LEMMA HasAppend ==
  ASSUME NEW S, NEW s \in Seq(S), NEW m \in S, NEW x
  PROVE  Has(Append(s, m), x) <=> Has(s, x) \/ m = x
<1>1. /\ DOMAIN Append(s, m) = 1..(Len(s) + 1) /\ DOMAIN s = 1..Len(s) /\ Len(s) \in Nat
      /\ \A i \in DOMAIN s : Append(s, m)[i] = s[i]
      /\ Append(s, m)[Len(s) + 1] = m
  OBVIOUS
<1>2. /\ \A i \in DOMAIN Append(s, m) : i \in DOMAIN s \/ i = Len(s) + 1
      /\ \A i \in DOMAIN s : i \in DOMAIN Append(s, m)
      /\ Len(s) + 1 \in DOMAIN Append(s, m)
  BY <1>1
<1> QED BY <1>1, <1>2 DEF Has

\* The success reply is no other message.
LEMMA RepliesDiffer ==
  /\ Reply("success") # Reply("failure") /\ Reply("success") # Reply("no method")
  /\ Reply("success") # Ready /\ \A n : Reply("success") # Data(n)
BY DEF Reply, Ready, Data

\* conn.Write adds no message but the one it writes.
LEMMA WriteHas ==
  ASSUME TypeOK, NEW e \in Ends, NEW m \in Messages, Write(e, m), NEW x, m # x,
         NEW d \in Ends
  PROVE  Has(got'[d], x) => Has(got[d], x)
<1>1. got[e] \in Seq(Messages) /\ got \in [Ends -> Seq(Messages)]
  BY DEF TypeOK
<1>2. got'[d] = got[d] \/ (d = e /\ got'[d] = Append(got[e], m))
  BY <1>1 DEF Write
<1>3. Has(Append(got[e], m), x) => Has(got[e], x)
  BY <1>1, HasAppend
<1> QED BY <1>2, <1>3

\* Every step keeps NotYet: only SendReady after the dial, or a bridge
\* after the dial, puts anything on the wire to the connect peer.
LEMMA NotYetStep == TypeOK /\ Places /\ NotYet /\ [Next]_vars => NotYet'
<1> SUFFICES ASSUME TypeOK, Places, NotYet, [Next]_vars PROVE NotYet'
  OBVIOUS
<1> USE DEF TypeOK, Places, NotYet, Early, setup, ends, data, Set, CloseConn,
            CloseBoth, Ends
<1>1. CASE Handshake
  <2>1. ~Succeeded => ~Succeeded'
    BY <1>1, WriteHas, RepliesDiffer, MessageKinds DEF Handshake, Succeeded
  <2> QED BY <1>1, <2>1 DEF Handshake
<1>2. CASE OpenStreamChannel
  <2>1. ~Succeeded => ~Succeeded'
    BY <1>2, WriteHas, RepliesDiffer, MessageKinds DEF OpenStreamChannel, Succeeded
  <2> QED BY <1>2, <2>1 DEF OpenStreamChannel
<1>3. CASE OnOpen
  BY <1>3 DEF OnOpen, Succeeded
<1>4. CASE AwaitReady
  BY <1>4 DEF AwaitReady, Succeeded
<1>5. CASE TimeoutClose
  BY <1>5 DEF TimeoutClose, Succeeded
<1>6. CASE ConnectBridge
  BY <1>6 DEF ConnectBridge, Succeeded
<1>7. CASE ReplySuccess
  BY <1>7 DEF ReplySuccess
<1>8. CASE ChannelArrives
  BY <1>8 DEF ChannelArrives, Succeeded
<1>9. CASE ParseLabel
  BY <1>9 DEF ParseLabel, Succeeded
<1>10. CASE Dial
  BY <1>10 DEF Dial, Succeeded
<1>11. CASE SendReady
  BY <1>11 DEF SendReady, Succeeded
<1>12. CASE ExposeBridge
  BY <1>12 DEF ExposeBridge, Succeeded
<1>13. ASSUME NEW e \in Ends, ReadChunk(e) PROVE NotYet'
  <2>1. ASSUME Early PROVE wire'["connect"] = wire["connect"]
    <3>1. e = "connect" /\ Far(e) = "expose"
      BY <1>13, <2>1 DEF ReadChunk, Far
    <3> QED BY <1>13, <3>1 DEF ReadChunk
  <2> QED BY <1>13, <2>1 DEF ReadChunk, Succeeded
<1>14. ASSUME NEW e \in Ends, ReadEnds(e) PROVE NotYet'
  BY <1>14 DEF ReadEnds, Succeeded
<1>15. ASSUME NEW e \in Ends, OnMessage(e) PROVE NotYet'
  <2>1. ASSUME Early PROVE e = "expose" /\ got'["connect"] = got["connect"]
    BY <1>15, <2>1 DEF OnMessage, Write
  <2> QED BY <1>15, <2>1 DEF OnMessage, Succeeded
<1>16. ASSUME NEW e \in Ends, OnClose(e) PROVE NotYet'
  BY <1>16 DEF OnClose, Succeeded
<1>17. CASE TransportFails
  BY <1>17 DEF TransportFails, Succeeded
<1>18. CASE UNCHANGED vars
  BY <1>18 DEF vars, Succeeded
<1> QED
  BY <1>1, <1>2, <1>3, <1>4, <1>5, <1>6, <1>7, <1>8, <1>9, <1>10, <1>11, <1>12,
     <1>13, <1>14, <1>15, <1>16, <1>17, <1>18
     DEF Next, ConnectSteps, ExposeSteps

-----------------------------------------------------------------------------
(* What is on its way. *)

\* What is left of chunks behind a ready byte.
LEMMA PureFacts ==
  ASSUME NEW w \in Seq(Messages)
  PROVE  /\ Pure(w) => ReadyFirst(w) /\ ~Has(w, Ready)
         /\ w # <<>> /\ ReadyFirst(w) => Pure(Tail(w))
         /\ w # <<>> => Has(w, Head(w)) /\ (Pure(w) => IsData(Head(w)))
         /\ ReadyFirst(w) /\ ~Has(w, Ready) => Pure(w)
         /\ \A n \in 1..MaxChunks :
              /\ Pure(w) => Pure(Append(w, Data(n)))
              /\ ReadyFirst(w) => ReadyFirst(Append(w, Data(n)))
              /\ Has(Append(w, Data(n)), Ready) <=> Has(w, Ready)
<1>1. Pure(w) => ReadyFirst(w) /\ ~Has(w, Ready)
  <2>1. ~IsData(Ready)
    BY MessageKinds
  <2> QED BY <2>1 DEF Pure, ReadyFirst, Has
<1>2. ASSUME w # <<>>, ReadyFirst(w) PROVE Pure(Tail(w))
  <2>1. \A i \in DOMAIN Tail(w) : i + 1 \in DOMAIN w /\ i + 1 # 1 /\ Tail(w)[i] = w[i + 1]
    BY <1>2
  <2> QED BY <1>2, <2>1 DEF Pure, ReadyFirst
<1>3. w # <<>> => Has(w, Head(w)) /\ (Pure(w) => IsData(Head(w)))
  <2>1. w # <<>> => 1 \in DOMAIN w /\ Head(w) = w[1]
    OBVIOUS
  <2> QED BY <2>1 DEF Has, Pure
<1>4. ReadyFirst(w) /\ ~Has(w, Ready) => Pure(w)
  BY DEF ReadyFirst, Has, Pure
<1>5. ASSUME NEW n \in 1..MaxChunks
      PROVE  /\ Pure(w) => Pure(Append(w, Data(n)))
             /\ ReadyFirst(w) => ReadyFirst(Append(w, Data(n)))
             /\ Has(Append(w, Data(n)), Ready) <=> Has(w, Ready)
  <2>1. PICK m \in Messages : m = Data(n) /\ IsData(m) /\ m # Ready
    BY MessageKinds
  <2>2. \A i \in DOMAIN Append(w, m) :
          (i \in DOMAIN w /\ Append(w, m)[i] = w[i]) \/ Append(w, m)[i] = m
    OBVIOUS
  <2>3. Has(Append(w, m), Ready) <=> Has(w, Ready)
    BY <2>1, HasAppend
  <2> QED BY <2>1, <2>2, <2>3 DEF Pure, ReadyFirst
<1> QED BY <1>1, <1>2, <1>3, <1>4, <1>5

\* Every step keeps the ready byte alone, first, and out of the bridge.
LEMMA WiresStep == TypeOK /\ Places /\ NotYet /\ Wires /\ [Next]_vars => Wires'
<1> SUFFICES ASSUME TypeOK, Places, NotYet, Wires, [Next]_vars PROVE Wires'
  OBVIOUS
<1> USE DEF TypeOK, Places, NotYet, Early, Wires, setup, ends, data, Set, CloseConn,
            CloseBoth, Ends
<1>0. wire["connect"] \in Seq(Messages) /\ wire["expose"] \in Seq(Messages)
  OBVIOUS
<1>1. CASE Handshake
  <2>1. \A d \in Ends : ~Has(got'[d], Ready)
    BY <1>1, WriteHas, MessageKinds, RepliesDiffer DEF Handshake
  <2> QED BY <1>1, <2>1 DEF Handshake
<1>2. CASE OpenStreamChannel
  <2>1. \A d \in Ends : ~Has(got'[d], Ready)
    BY <1>2, WriteHas, MessageKinds, RepliesDiffer DEF OpenStreamChannel
  <2> QED BY <1>2, <2>1 DEF OpenStreamChannel
<1>3. CASE OnOpen
  BY <1>3 DEF OnOpen
<1>4. CASE AwaitReady
  BY <1>4 DEF AwaitReady
<1>5. CASE TimeoutClose
  BY <1>5 DEF TimeoutClose
<1>6. CASE ConnectBridge
  BY <1>6 DEF ConnectBridge
<1>7. CASE ReplySuccess
  <2>1. \A d \in Ends : ~Has(got'[d], Ready)
    BY <1>7, WriteHas, MessageKinds, RepliesDiffer DEF ReplySuccess
  <2> QED BY <1>7, <2>1 DEF ReplySuccess
<1>8. CASE ChannelArrives
  BY <1>8 DEF ChannelArrives
<1>9. CASE ParseLabel
  BY <1>9 DEF ParseLabel, Labelled
<1>10. CASE Dial
  BY <1>10 DEF Dial
<1>11. CASE SendReady
  <2>1. CASE UNCHANGED wire
    BY <1>11, <2>1 DEF SendReady
  <2>2. CASE wire' = [wire EXCEPT !["connect"] = Append(@, Ready)]
    <3>1. /\ wire["connect"] = <<>> /\ readyCh = 0 /\ socks["connect"]
          /\ front \notin {"bridge", "reply"} /\ handler["connect"] # "bridge"
      BY <1>11 DEF SendReady
    <3>2. wire'["connect"] = <<Ready>> /\ wire'["expose"] = wire["expose"]
      BY <2>2, <3>1
    <3>3. ReadyFirst(<<Ready>>)
      BY DEF ReadyFirst
    <3> QED BY <1>11, <3>1, <3>2, <3>3 DEF SendReady
  <2> QED BY <1>11, <2>1, <2>2 DEF SendReady
<1>12. CASE ExposeBridge
  BY <1>12 DEF ExposeBridge
<1>13. ASSUME NEW e \in Ends, ReadChunk(e) PROVE Wires'
  <2>1. CASE UNCHANGED wire
    BY <1>13, <2>1 DEF ReadChunk
  <2>2. CASE wire' = [wire EXCEPT ![Far(e)] = Append(@, Data(sent[e] + 1))]
    <3>1. sent[e] + 1 \in 1..MaxChunks
      <4>1. sent[e] \in 0..MaxChunks /\ sent[e] < MaxChunks
        BY <1>13 DEF ReadChunk
      <4> QED BY <4>1, ChunksAssumption
    <3>2. CASE e = "connect"
      <4>1. /\ wire'["connect"] = wire["connect"]
            /\ wire'["expose"] = Append(wire["expose"], Data(sent[e] + 1))
        BY <2>2, <3>2 DEF Far
      <4> QED BY <1>0, <1>13, <3>1, <4>1, PureFacts DEF ReadChunk
    <3>3. CASE e = "expose"
      <4>1. /\ wire'["expose"] = wire["expose"]
            /\ wire'["connect"] = Append(wire["connect"], Data(sent[e] + 1))
        BY <2>2, <3>3 DEF Far
      <4> QED BY <1>0, <1>13, <3>1, <4>1, PureFacts DEF ReadChunk
    <3> QED BY <3>2, <3>3
  <2> QED BY <1>13, <2>1, <2>2 DEF ReadChunk
<1>14. ASSUME NEW e \in Ends, ReadEnds(e) PROVE Wires'
  BY <1>14 DEF ReadEnds
<1>15. ASSUME NEW e \in Ends, OnMessage(e) PROVE Wires'
  <2>1. /\ wire[e] # <<>> /\ wire'[e] = Tail(wire[e]) /\ Head(wire[e]) \in Messages
        /\ \A d \in Ends : d # e => wire'[d] = wire[d]
    BY <1>15 DEF OnMessage
  <2>2. ReadyFirst(wire[e])
    BY <1>0, PureFacts
  <2>3. Pure(wire'[e]) /\ ~Has(wire'[e], Ready)
    <3>1. Pure(Tail(wire[e])) /\ Tail(wire[e]) \in Seq(Messages)
      BY <1>0, <2>1, <2>2, PureFacts
    <3>2. ~Has(Tail(wire[e]), Ready)
      BY <3>1, PureFacts
    <3> QED BY <2>1, <3>1, <3>2
  <2>4. ~Has(got'["connect"], Ready) /\ ~Has(got'["expose"], Ready)
    <3>1. CASE handler[e] = "bridge"
      <4>1. Head(wire[e]) # Ready
        BY <1>0, <2>1, <3>1, PureFacts
      <4> QED BY SMTT(60), <1>15, <2>1, <3>1, <4>1, WriteHas DEF OnMessage
    <3>2. CASE handler[e] # "bridge"
      BY <1>15, <3>2 DEF OnMessage
    <3> QED BY <3>1, <3>2
  <2>5. Pure(wire'["expose"]) /\ ReadyFirst(wire'["connect"])
    <3>1. Pure(wire'[e]) => ReadyFirst(wire'[e])
      BY DEF Pure, ReadyFirst
    <3> QED BY <2>1, <2>3, <3>1
  <2>6. ASSUME Has(wire'["connect"], Ready)
        PROVE  e = "expose" /\ Has(wire["connect"], Ready)
    BY <2>1, <2>3, <2>6
  <2>7. ASSUME e = "expose" PROVE readyCh' = readyCh
    BY <1>15, <2>7 DEF OnMessage
  <2> QED BY <1>15, <2>4, <2>5, <2>6, <2>7 DEF OnMessage
<1>16. ASSUME NEW e \in Ends, OnClose(e) PROVE Wires'
  BY <1>16 DEF OnClose
<1>17. CASE TransportFails
  BY <1>17 DEF TransportFails
<1>18. CASE UNCHANGED vars
  BY <1>18 DEF vars
<1> QED
  BY <1>1, <1>2, <1>3, <1>4, <1>5, <1>6, <1>7, <1>8, <1>9, <1>10, <1>11, <1>12,
     <1>13, <1>14, <1>15, <1>16, <1>17, <1>18
     DEF Next, ConnectSteps, ExposeSteps

-----------------------------------------------------------------------------
(* Chunks in order. *)

\* A message that is no chunk changes no order of chunks, wherever it is:
\* s is t without the message at p.
LEMMA MuteInside ==
  ASSUME NEW s \in Seq(Messages), NEW t \in Seq(Messages), NEW p \in 1..Len(t),
         NEW n \in Nat,
         Len(t) = Len(s) + 1, ~IsData(t[p]),
         \A i \in 1..Len(s) : s[i] = t[IF i < p THEN i ELSE i + 1]
  PROVE  InOrder(s, n) <=> InOrder(t, n)
<1> DEFINE f == [i \in DOMAIN s |-> IF i < p THEN i ELSE i + 1]
           g == [j \in DOMAIN t |-> IF j < p THEN j ELSE j - 1]
<1>0. /\ DOMAIN s = 1..Len(s) /\ DOMAIN t = 1..(Len(s) + 1) /\ Len(s) \in Nat
      /\ p \in 1..(Len(s) + 1)
  OBVIOUS
<1>1. /\ \A i \in DOMAIN s : f[i] = IF i < p THEN i ELSE i + 1
      /\ \A j \in DOMAIN t : g[j] = IF j < p THEN j ELSE j - 1
  OBVIOUS
<1> HIDE DEF f, g
<1>2. /\ \A i \in DOMAIN s : f[i] \in DOMAIN t /\ f[i] # p /\ s[i] = t[f[i]]
      /\ \A i, j \in DOMAIN s : i < j => f[i] < f[j]
  BY SMTT(60), <1>0, <1>1
<1>3. /\ \A j \in DOMAIN t : j # p => g[j] \in DOMAIN s /\ f[g[j]] = j
      /\ \A i, j \in DOMAIN t : i < j /\ i # p /\ j # p => g[i] < g[j]
  <2>1. ASSUME NEW j \in DOMAIN t, j # p PROVE g[j] \in DOMAIN s /\ f[g[j]] = j
    <3>1. CASE j < p
      <4>1. g[j] = j /\ j \in DOMAIN s
        BY <1>0, <1>1, <3>1
      <4> QED BY <1>1, <3>1, <4>1
    <3>2. CASE j > p
      <4>1. g[j] = j - 1 /\ j - 1 \in DOMAIN s /\ ~(j - 1 < p) /\ (j - 1) + 1 = j
        BY <1>0, <1>1, <3>2
      <4> QED BY <1>1, <4>1
    <3> QED BY <1>0, <2>1, <3>1, <3>2
  <2>2. \A i, j \in DOMAIN t : i < j /\ i # p /\ j # p => g[i] < g[j]
    BY <1>0, <1>1
  <2> QED BY <2>1, <2>2
<1>4. \A j \in DOMAIN t : j # p => g[j] \in DOMAIN s /\ t[j] = s[g[j]]
  BY <1>2, <1>3
<1>5. \A k : ~IsData(t[p]) /\ t[p] # Data(k)
  BY MessageKinds
<1>6. ASSUME InOrder(s, n) PROVE InOrder(t, n)
  <2>1. \A i \in DOMAIN t : IsData(t[i]) => t[i][2] \in 1..n
    BY <1>4, <1>5, <1>6 DEF InOrder
  <2>2. \A i, j \in DOMAIN t :
          i < j /\ IsData(t[i]) /\ IsData(t[j]) => t[i][2] < t[j][2]
    <3> SUFFICES ASSUME NEW i \in DOMAIN t, NEW j \in DOMAIN t, i < j,
                        IsData(t[i]), IsData(t[j])
                 PROVE  t[i][2] < t[j][2]
      OBVIOUS
    <3>1. i # p /\ j # p
      BY <1>5
    <3>2. g[i] \in DOMAIN s /\ g[j] \in DOMAIN s /\ g[i] < g[j]
      BY <1>3, <3>1
    <3>3. t[i] = s[g[i]] /\ t[j] = s[g[j]]
      BY <1>4, <3>1
    <3> QED BY <1>6, <3>2, <3>3 DEF InOrder
  <2>3. \A k \in 1..n : Has(t, Data(k))
    BY <1>2, <1>6 DEF InOrder, Has
  <2> QED BY <2>1, <2>2, <2>3 DEF InOrder
<1>7. ASSUME InOrder(t, n) PROVE InOrder(s, n)
  <2>1. \A i \in DOMAIN s : IsData(s[i]) => s[i][2] \in 1..n
    BY <1>2, <1>7 DEF InOrder
  <2>2. \A i, j \in DOMAIN s :
          i < j /\ IsData(s[i]) /\ IsData(s[j]) => s[i][2] < s[j][2]
    BY SMTT(60), <1>2, <1>7 DEF InOrder
  <2>3. \A k \in 1..n : Has(s, Data(k))
    <3> TAKE k \in 1..n
    <3>1. PICK j \in DOMAIN t : t[j] = Data(k)
      BY <1>7 DEF InOrder, Has
    <3> QED BY <1>4, <1>5, <3>1 DEF Has
  <2> QED BY <2>1, <2>2, <2>3 DEF InOrder
<1> QED BY <1>6, <1>7

\* The next chunk at the end.
LEMMA SpeakLast ==
  ASSUME NEW s \in Seq(Messages), NEW n \in Nat, n + 1 \in 1..MaxChunks, InOrder(s, n)
  PROVE  InOrder(Append(s, Data(n + 1)), n + 1)
<1>0. PICK m \in Messages : m = Data(n + 1)
  BY MessageKinds
<1> DEFINE t == Append(s, m)
<1>1. /\ DOMAIN t = 1..(Len(s) + 1) /\ DOMAIN s = 1..Len(s) /\ Len(s) \in Nat
      /\ \A i \in DOMAIN s : t[i] = s[i]
      /\ t[Len(s) + 1] = m
  OBVIOUS
<1> HIDE DEF t
<1>2. IsData(m) /\ m[2] = n + 1
  BY <1>0, MessageKinds
<1>3. \A i \in DOMAIN t : i \in DOMAIN s \/ i = Len(s) + 1
  BY <1>1
<1>4. \A i \in DOMAIN t : IsData(t[i]) => t[i][2] \in 1..(n + 1)
  <2>1. \A i \in DOMAIN s : IsData(s[i]) => s[i][2] \in 1..(n + 1)
    BY DEF InOrder
  <2>2. n + 1 \in 1..(n + 1)
    OBVIOUS
  <2> QED BY <1>1, <1>2, <1>3, <2>1, <2>2
<1>5. \A i, j \in DOMAIN t :
        i < j /\ IsData(t[i]) /\ IsData(t[j]) => t[i][2] < t[j][2]
  <2> SUFFICES ASSUME NEW i \in DOMAIN t, NEW j \in DOMAIN t, i < j,
                      IsData(t[i]), IsData(t[j])
               PROVE  t[i][2] < t[j][2]
    OBVIOUS
  <2>1. i \in DOMAIN s
    BY <1>1
  <2>2. CASE j \in DOMAIN s
    BY <1>1, <2>1, <2>2 DEF InOrder
  <2>3. CASE j = Len(s) + 1
    <3>1. t[i][2] \in 1..n
      BY <1>1, <2>1 DEF InOrder
    <3> QED BY <1>1, <1>2, <2>3, <3>1
  <2> QED BY <1>3, <2>2, <2>3
<1>6. \A k \in 1..(n + 1) : Has(t, Data(k))
  <2> TAKE k \in 1..(n + 1)
  <2>1. CASE k = n + 1
    <3>1. Len(s) + 1 \in DOMAIN t
      BY <1>1
    <3> QED BY <1>0, <1>1, <2>1, <3>1 DEF Has
  <2>2. CASE k \in 1..n
    <3>1. \A i \in DOMAIN s : i \in DOMAIN t
      BY <1>1
    <3> QED BY <1>1, <2>2, <3>1 DEF InOrder, Has
  <2> QED BY <2>1, <2>2
<1>7. InOrder(t, n + 1)
  BY <1>4, <1>5, <1>6 DEF InOrder
<1> QED BY <1>0, <1>7 DEF t

\* Another message at the end.
LEMMA MuteLast ==
  ASSUME NEW s \in Seq(Messages), NEW n \in Nat, NEW m \in Messages, ~IsData(m),
         InOrder(s, n)
  PROVE  InOrder(Append(s, m), n)
<1> DEFINE t == Append(s, m)
           p == Len(s) + 1
<1>1. /\ t \in Seq(Messages) /\ p \in 1..Len(t) /\ Len(t) = Len(s) + 1 /\ ~IsData(t[p])
      /\ \A i \in 1..Len(s) : s[i] = t[IF i < p THEN i ELSE i + 1]
  OBVIOUS
<1> HIDE DEF t, p
<1>2. InOrder(t, n)
  BY <1>1, MuteInside
<1> QED BY <1>2 DEF t

\* A message that is no chunk taken from the middle.
LEMMA TakeMute ==
  ASSUME NEW a \in Seq(Messages), NEW c \in Seq(Messages), NEW n \in Nat,
         c # <<>>, ~IsData(Head(c)), InOrder(a \o c, n)
  PROVE  InOrder(a \o Tail(c), n)
<1> DEFINE s == a \o Tail(c)
           t == a \o c
           p == Len(a) + 1
<1>1. /\ s \in Seq(Messages) /\ t \in Seq(Messages)
      /\ p \in 1..Len(t) /\ Len(t) = Len(s) + 1 /\ t[p] = Head(c)
  OBVIOUS
<1>2. \A i \in 1..Len(s) : s[i] = t[IF i < p THEN i ELSE i + 1]
  OBVIOUS
<1>3. InOrder(t, n) /\ ~IsData(t[p])
  BY <1>1
<1> HIDE DEF s, t, p
<1>4. InOrder(s, n)
  BY <1>1, <1>2, <1>3, MuteInside
<1> QED BY <1>4 DEF s

\* A message that is no chunk put in the middle.
LEMMA PutMute ==
  ASSUME NEW a \in Seq(Messages), NEW c \in Seq(Messages), NEW n \in Nat,
         NEW m \in Messages, ~IsData(m), InOrder(a \o c, n)
  PROVE  InOrder(Append(a, m) \o c, n)
<1> DEFINE s == a \o c
           t == Append(a, m) \o c
           p == Len(a) + 1
<1>1. /\ s \in Seq(Messages) /\ t \in Seq(Messages)
      /\ p \in 1..Len(t) /\ Len(t) = Len(s) + 1 /\ t[p] = m
  OBVIOUS
<1>2. \A i \in 1..Len(s) : s[i] = t[IF i < p THEN i ELSE i + 1]
  OBVIOUS
<1>3. InOrder(s, n) /\ ~IsData(t[p])
  BY <1>1
<1> HIDE DEF s, t, p
<1>4. InOrder(t, n)
  BY <1>1, <1>2, <1>3, MuteInside
<1> QED BY <1>4 DEF t

\* what was lost, written and is on its way at an end, as one sequence
Lined(l, g, w, n) == InOrder((l \o g) \o w, n)

\* the chunks sent to an end, of which sn have been read at the far end
OrderAt(l, g, w, sn, ch, co) ==
  co # "closed" =>
    \E n \in 0..sn : Lined(l, g, w, n) /\ (ch # "closed" => n = sn)

\* the chunks of both directions; as long as the far channel is open, all that
\* were read there are accounted for
Order ==
  \A e \in Ends :
    OrderAt(lost[e], got[e], wire[e], sent[Far(e)], chan[Far(e)], conn[e])

\* Two sequences joined.
LEMMA ConcatIn ==
  ASSUME NEW S, NEW a \in Seq(S), NEW b \in Seq(S)
  PROVE  a \o b \in Seq(S)
OBVIOUS

\* Joining, then adding a message.
LEMMA ConcatAppend ==
  ASSUME NEW S, NEW a \in Seq(S), NEW b \in Seq(S), NEW m \in S
  PROVE  a \o Append(b, m) = Append(a \o b, m)
OBVIOUS

\* Adding a message, then joining.
LEMMA AppendConcat ==
  ASSUME NEW S, NEW a \in Seq(S), NEW b \in Seq(S), NEW m \in S
  PROVE  Append(a, m) \o b = a \o (<<m>> \o b)
OBVIOUS

\* The far end reads the next chunk.
LEMMA LinedSpeak ==
  ASSUME NEW l \in Seq(Messages), NEW g \in Seq(Messages), NEW w \in Seq(Messages),
         NEW n \in Nat, n + 1 \in 1..MaxChunks, Lined(l, g, w, n)
  PROVE  Lined(l, g, Append(w, Data(n + 1)), n + 1)
<1>1. PICK a \in Seq(Messages) : a = l \o g
  BY ConcatIn
<1>2. PICK m \in Messages : m = Data(n + 1)
  BY MessageKinds
<1>3. a \o w \in Seq(Messages) /\ a \o Append(w, m) = Append(a \o w, m)
  BY SMTT(60)
<1>4. InOrder(Append(a \o w, Data(n + 1)), n + 1)
  BY <1>1, <1>3, SpeakLast DEF Lined
<1> QED BY <1>1, <1>2, <1>3, <1>4 DEF Lined

\* The far end sends the ready byte.
LEMMA LinedReady ==
  ASSUME NEW l \in Seq(Messages), NEW g \in Seq(Messages), NEW w \in Seq(Messages),
         NEW n \in Nat, Lined(l, g, w, n)
  PROVE  Lined(l, g, Append(w, Ready), n)
<1>1. PICK a \in Seq(Messages) : a = l \o g
  BY ConcatIn
<1>2. PICK m \in Messages : m = Ready /\ ~IsData(m)
  BY MessageKinds
<1>3. a \o w \in Seq(Messages) /\ a \o Append(w, m) = Append(a \o w, m)
  OBVIOUS
<1>4. InOrder(Append(a \o w, m), n)
  BY <1>1, <1>2, <1>3, MuteLast DEF Lined
<1> QED BY <1>1, <1>2, <1>3, <1>4 DEF Lined

\* The SOCKS5 server writes a reply between chunks.
LEMMA LinedReply ==
  ASSUME NEW l \in Seq(Messages), NEW g \in Seq(Messages), NEW w \in Seq(Messages),
         NEW n \in Nat, NEW m \in Messages, ~IsData(m), Lined(l, g, w, n)
  PROVE  Lined(l, Append(g, m), w, n)
<1>1. PICK a \in Seq(Messages) : a = l \o g
  BY ConcatIn
<1>2. l \o Append(g, m) = Append(l \o g, m)
  OBVIOUS
<1>3. InOrder(Append(a, m) \o w, n)
  BY <1>1, PutMute DEF Lined
<1> QED BY <1>1, <1>2, <1>3 DEF Lined

\* A message goes from the wire to the TCP side.
LEMMA LinedWritten ==
  ASSUME NEW l \in Seq(Messages), NEW g \in Seq(Messages), NEW w \in Seq(Messages),
         w # <<>>, NEW n \in Nat, Lined(l, g, w, n)
  PROVE  Lined(l, Append(g, Head(w)), Tail(w), n)
<1>1. PICK m \in Messages :
        m = Head(w) /\ Tail(w) \in Seq(Messages) /\ w = <<m>> \o Tail(w)
  BY SMTT(60)
<1>2. PICK v \in Seq(Messages) : v = Tail(w)
  BY <1>1
<1>3. (l \o Append(g, m)) \o v = (l \o g) \o (<<m>> \o v)
  <2>1. PICK a \in Seq(Messages) : a = l \o g
    BY ConcatIn
  <2>2. l \o Append(g, m) = Append(a, m)
    BY <2>1, ConcatAppend
  <2>3. Append(a, m) \o v = a \o (<<m>> \o v)
    <3>1. m \in Messages /\ a \in Seq(Messages) /\ v \in Seq(Messages)
      BY <1>1, <1>2, <2>1
    <3> HIDE <1>1, <1>2, <2>1, <2>2
    <3> QED BY ZenonT(60), <3>1, AppendConcat
  <2> QED BY <2>1, <2>2, <2>3
<1> QED BY <1>1, <1>2, <1>3 DEF Lined

\* A message goes from the wire to no bridge: a chunk counts as lost, the
\* ready byte is taken.
LEMMA LinedLost ==
  ASSUME NEW l \in Seq(Messages), NEW w \in Seq(Messages),
         w # <<>>, NEW n \in Nat, Lined(l, <<>>, w, n)
  PROVE  IF IsData(Head(w)) THEN Lined(Append(l, Head(w)), <<>>, Tail(w), n)
                            ELSE Lined(l, <<>>, Tail(w), n)
<1>1. PICK m \in Messages :
        m = Head(w) /\ Tail(w) \in Seq(Messages) /\ w = <<m>> \o Tail(w)
  OBVIOUS
<1>2. PICK v \in Seq(Messages) : v = Tail(w)
  BY <1>1
<1>3. /\ (Append(l, m) \o <<>>) \o v = (l \o <<>>) \o (<<m>> \o v)
      /\ l \o <<>> \in Seq(Messages)
  OBVIOUS
<1>4. CASE IsData(Head(w))
  BY <1>1, <1>2, <1>3, <1>4 DEF Lined
<1>5. CASE ~IsData(Head(w))
  <2>1. InOrder((l \o <<>>) \o Tail(w), n)
    BY <1>3, <1>5, TakeMute DEF Lined
  <2> QED BY <1>5, <2>1 DEF Lined
<1> QED BY <1>4, <1>5

\* Closing a connection or a channel asks for less.
LEMMA OrderStands ==
  ASSUME NEW l, NEW g, NEW w, NEW sn, NEW ch, NEW co, OrderAt(l, g, w, sn, ch, co),
         NEW dh, NEW do, dh # "closed" => ch # "closed", do # "closed" => co # "closed"
  PROVE  OrderAt(l, g, w, sn, dh, do)
BY DEF OrderAt

\* Every step keeps the chunks of both directions in order.
LEMMA OrderStep == TypeOK /\ Places /\ NotYet /\ Wires /\ Order /\ [Next]_vars => Order'
<1> SUFFICES ASSUME TypeOK, Places, NotYet, Wires, Order, [Next]_vars, NEW d \in Ends
             PROVE  OrderAt(lost'[d], got'[d], wire'[d], sent'[Far(d)], chan'[Far(d)],
                            conn'[d])
  BY DEF Order
<1>0. PICK l, g, w, sn, ch, co :
        /\ l = lost[d] /\ g = got[d] /\ w = wire[d] /\ sn = sent[Far(d)]
        /\ ch = chan[Far(d)] /\ co = conn[d]
  OBVIOUS
<1>11. OrderAt(l, g, w, sn, ch, co)
  BY <1>0 DEF Order
<1>12. /\ Far(d) \in Ends /\ Far(d) # d /\ "connect" \in Ends /\ "expose" \in Ends
       /\ \A e \in Ends : e # d => e = Far(d) /\ Far(e) = d
  BY DEF Far, Ends
<1>13. /\ l \in Seq(Messages) /\ g \in Seq(Messages) /\ w \in Seq(Messages)
       /\ sn \in 0..MaxChunks
       /\ lost \in [Ends -> Seq(Messages)] /\ got \in [Ends -> Seq(Messages)]
       /\ wire \in [Ends -> Seq(Messages)] /\ sent \in [Ends -> 0..MaxChunks]
       /\ DOMAIN chan = Ends /\ DOMAIN conn = Ends
  BY <1>0, <1>12 DEF TypeOK
<1> DEFINE Goal == OrderAt(lost'[d], got'[d], wire'[d], sent'[Far(d)], chan'[Far(d)],
                           conn'[d])
           Still == /\ lost'[d] = l /\ got'[d] = g /\ wire'[d] = w /\ sent'[Far(d)] = sn
                    /\ chan'[Far(d)] # "closed" => ch # "closed"
                    /\ conn'[d] # "closed" => co # "closed"
<1>14. Still => Goal
  BY <1>11, OrderStands
<1>15. conn'[d] = "closed" => Goal
  BY DEF OrderAt
<1> HIDE DEF Goal
<1> USE DEF setup, ends, data, Set, CloseConn, CloseBoth
<1>1. CASE Handshake \/ OpenStreamChannel
  <2>1. d = "connect" => conn'[d] = "closed" \/ Still
    BY <1>0, <1>1, <1>12, <1>13 DEF Handshake, OpenStreamChannel
  <2>2. d = "expose" => Still
    BY <1>0, <1>1, <1>12, <1>13 DEF Handshake, OpenStreamChannel, Write
  <2> QED BY <1>14, <1>15, <2>1, <2>2 DEF Ends, Goal
<1>2. CASE OnOpen \/ AwaitReady \/ TimeoutClose \/ ConnectBridge
  <2>1. Still
    BY <1>0, <1>2, <1>12, <1>13
       DEF OnOpen, AwaitReady, TimeoutClose, ConnectBridge, Places
  <2> QED BY <1>14, <2>1 DEF Goal
<1>3. CASE ReplySuccess
  <2>1. CASE ~(d = "connect" /\ conn["connect"] = "open")
    <3>1. Still
      BY <1>0, <1>3, <1>12, <1>13, <2>1 DEF ReplySuccess, Write
    <3> QED BY <1>14, <3>1 DEF Goal
  <2>2. CASE d = "connect" /\ conn["connect"] = "open"
    <3>1. /\ lost'[d] = l /\ got'[d] = Append(g, Reply("success")) /\ wire'[d] = w
          /\ sent'[Far(d)] = sn /\ chan'[Far(d)] = ch /\ conn'[d] = co
      BY <1>0, <1>3, <1>12, <1>13, <2>2 DEF ReplySuccess, Write
    <3>2. Reply("success") \in Messages /\ ~IsData(Reply("success"))
      BY MessageKinds
    <3>3. \A n \in Nat : Lined(l, g, w, n) => Lined(l, Append(g, Reply("success")), w, n)
      BY <1>13, <3>2, LinedReply
    <3>4. \A n \in 0..sn : n \in Nat
      BY <1>13
    <3>5. OrderAt(l, Append(g, Reply("success")), w, sn, ch, co)
      BY <1>11, <3>3, <3>4 DEF OrderAt
    <3> QED BY <3>1, <3>5 DEF Goal
  <2> QED BY <2>1, <2>2
<1>4. CASE ChannelArrives \/ ParseLabel \/ Dial \/ ExposeBridge
  <2>1. UNCHANGED data
    BY <1>4 DEF ChannelArrives, ParseLabel, Dial, ExposeBridge
  <2>2. chan'[Far(d)] # "closed" => ch # "closed"
    BY <1>0, <1>4, <1>12, <1>13
    DEF ChannelArrives, ParseLabel, Dial, ExposeBridge, Places
  <2>3. conn'[d] # "closed" => co # "closed"
    BY <1>0, <1>4, <1>12, <1>13
    DEF ChannelArrives, ParseLabel, Dial, ExposeBridge, Places
  <2>4. Still
    BY <1>0, <2>1, <2>2, <2>3
  <2> QED BY <1>14, <2>4 DEF Goal
<1>5. CASE SendReady
  <2>1. CASE d = "connect" /\ wire' = [wire EXCEPT !["connect"] = Append(@, Ready)]
    <3>1. /\ lost'[d] = l /\ got'[d] = g /\ wire'[d] = Append(w, Ready)
          /\ sent'[Far(d)] = sn
          /\ chan'[Far(d)] # "closed" => ch # "closed"
          /\ conn'[d] # "closed" => co # "closed"
      BY <1>0, <1>5, <1>12, <1>13, <2>1 DEF SendReady
    <3>2. \A n \in Nat : Lined(l, g, w, n) => Lined(l, g, Append(w, Ready), n)
      BY <1>13, LinedReady
    <3>3. \A n \in 0..sn : n \in Nat
      BY <1>13
    <3>4. OrderAt(l, g, Append(w, Ready), sn, ch, co)
      BY <1>11, <3>2, <3>3 DEF OrderAt
    <3> QED BY <3>1, <3>4, OrderStands DEF Goal
  <2>2. CASE d = "expose" \/ UNCHANGED wire
    <3>1. Still
      BY <1>0, <1>5, <1>12, <1>13, <2>2 DEF SendReady
    <3> QED BY <1>14, <3>1 DEF Goal
  <2> QED BY <1>5, <2>1, <2>2 DEF SendReady, Ends
<1>6. ASSUME NEW e \in Ends, ReadChunk(e) PROVE Goal
  <2>1. CASE e = d
    <3>1. Still
      BY <1>0, <1>6, <1>12, <1>13, <2>1 DEF ReadChunk
    <3> QED BY <1>14, <3>1
  <2>2. CASE e # d
    <3>0. e = Far(d) /\ Far(e) = d
      BY <1>12, <2>2
    <3>1. /\ lost'[d] = l /\ got'[d] = g /\ sent'[Far(d)] = sn + 1
          /\ conn'[d] = co /\ sn + 1 \in 1..MaxChunks
      <4>1. sn < MaxChunks /\ sent' = [sent EXCEPT ![e] = @ + 1]
        BY <1>0, <1>6, <3>0 DEF ReadChunk
      <4>2. sent'[Far(d)] = sn + 1 /\ sn + 1 \in 1..MaxChunks
        BY SMTT(60), <1>0, <1>12, <1>13, <3>0, <4>1, ChunksAssumption
      <4>3. conn'[d] = co
        BY <1>0, <1>6, <1>12, <1>13, <2>2 DEF ReadChunk
      <4> QED BY <1>0, <1>6, <4>2, <4>3 DEF ReadChunk
    <3>2. CASE /\ CanSend(e) /\ UNCHANGED <<conn, chan>>
               /\ wire' = [wire EXCEPT ![Far(e)] = Append(@, Data(sent[e] + 1))]
      <4>1. wire'[d] = Append(w, Data(sn + 1)) /\ ch = "open" /\ chan'[Far(d)] = ch
        <5>1. wire' = [wire EXCEPT ![d] = Append(@, Data(sn + 1))]
          BY <1>0, <3>0, <3>2
        <5>2. wire'[d] = Append(w, Data(sn + 1))
          BY <1>0, <1>12, <1>13, <5>1
        <5>3. ch = "open" /\ chan'[Far(d)] = ch
          BY <1>0, <3>0, <3>2 DEF CanSend
        <5> QED BY <5>2, <5>3
      <4>2. ASSUME co # "closed" PROVE Lined(l, g, Append(w, Data(sn + 1)), sn + 1)
        <5>1. Lined(l, g, w, sn) /\ sn \in Nat
          BY <1>11, <1>13, <4>1, <4>2 DEF OrderAt
        <5> QED BY <1>13, <3>1, <5>1, LinedSpeak
      <4>3. sn + 1 \in 0..(sn + 1)
        BY <1>13
      <4>4. OrderAt(l, g, Append(w, Data(sn + 1)), sn + 1, ch, co)
        BY <4>2, <4>3 DEF OrderAt
      <4> QED BY <3>1, <4>1, <4>4 DEF Goal
    <3>3. CASE CloseBoth(e) /\ UNCHANGED wire
      <4>1. chan'[Far(d)] = "closed" /\ wire'[d] = w
        BY <1>0, <1>12, <1>13, <3>0, <3>3
      <4>2. \A n \in 0..sn : n \in 0..(sn + 1)
        BY <1>13
      <4>3. OrderAt(l, g, w, sn + 1, "closed", co)
        BY <1>11, <4>2 DEF OrderAt
      <4> QED BY <3>1, <4>1, <4>3 DEF Goal
    <3> QED BY <1>6, <3>2, <3>3 DEF ReadChunk
  <2> QED BY <2>1, <2>2
<1>7. ASSUME NEW e \in Ends, ReadEnds(e) PROVE Goal
  <2>1. Still
    BY <1>0, <1>7, <1>12, <1>13 DEF ReadEnds
  <2> QED BY <1>14, <2>1
<1>8. ASSUME NEW e \in Ends, OnMessage(e) PROVE Goal
  <2>1. CASE e # d
    <3>1. Still
      BY <1>0, <1>8, <1>12, <1>13, <2>1 DEF OnMessage, Write
    <3> QED BY <1>14, <3>1
  <2>2. CASE e = d /\ conn[d] = "closed"
    <3>1. conn'[d] = "closed"
      BY <1>8, <2>2 DEF OnMessage
    <3> QED BY <1>15, <3>1
  <2>3. CASE e = d /\ conn[d] # "closed"
    <3>0. /\ w # <<>> /\ wire'[d] = Tail(w) /\ sent'[Far(d)] = sn /\ chan'[Far(d)] = ch
          /\ conn'[d] = co /\ co # "closed"
      BY <1>0, <1>8, <1>12, <1>13, <2>3 DEF OnMessage
    <3>1. \A n \in 0..sn : n \in Nat
      BY <1>13
    <3>2. CASE handler[d] = "bridge"
      <4>1. conn[d] = "open"
        BY <2>3, <3>2 DEF Places, TypeOK, Ends
      <4>2. lost'[d] = l /\ got'[d] = Append(g, Head(w))
        BY <1>0, <1>8, <1>12, <1>13, <2>3, <3>2, <4>1 DEF OnMessage, Write
      <4>3. \A n \in Nat : Lined(l, g, w, n) => Lined(l, Append(g, Head(w)), Tail(w), n)
        BY <1>13, <3>0, LinedWritten
      <4>4. OrderAt(l, Append(g, Head(w)), Tail(w), sn, ch, co)
        BY <1>11, <3>1, <4>3 DEF OrderAt
      <4> QED BY <3>0, <4>2, <4>4 DEF Goal
    <3>3. CASE handler[d] # "bridge"
      <4>1. g = <<>> /\ got'[d] = <<>>
        BY <1>0, <1>8, <1>12, <2>3, <3>3 DEF OnMessage, Places, Ends, TypeOK
      <4>2. lost'[d] = IF IsData(Head(w)) THEN Append(l, Head(w)) ELSE l
        BY <1>0, <1>8, <1>12, <1>13, <2>3, <3>3 DEF OnMessage
      <4>3. ASSUME NEW n \in Nat, Lined(l, g, w, n)
            PROVE  Lined(lost'[d], <<>>, Tail(w), n)
        <5>1. IF IsData(Head(w)) THEN Lined(Append(l, Head(w)), <<>>, Tail(w), n)
                                 ELSE Lined(l, <<>>, Tail(w), n)
          BY <1>13, <3>0, <4>1, <4>3, LinedLost
        <5> QED BY <4>2, <5>1
      <4>4. OrderAt(lost'[d], <<>>, Tail(w), sn, ch, co)
        BY <1>11, <3>1, <4>3 DEF OrderAt
      <4> QED BY <3>0, <4>1, <4>4 DEF Goal
    <3> QED BY <3>2, <3>3
  <2> QED BY <2>1, <2>2, <2>3
<1>9. ASSUME NEW e \in Ends, OnClose(e) PROVE Goal
  <2>1. Still
    BY <1>0, <1>9, <1>12, <1>13 DEF OnClose
  <2> QED BY <1>14, <2>1
<1>10. CASE TransportFails \/ UNCHANGED vars
  <2>1. Still
    BY <1>0, <1>10 DEF TransportFails, vars
  <2> QED BY <1>14, <2>1 DEF Goal
<1> QED
  BY <1>1, <1>2, <1>3, <1>4, <1>5, <1>6, <1>7, <1>8, <1>9, <1>10
     DEF Next, ConnectSteps, ExposeSteps, Goal

-----------------------------------------------------------------------------
(* One reply, then the answer. *)

\* a reply, then the chunks of the answer from the first
AnswerSoFar(g) ==
  \A i \in DOMAIN g : IF i = 1 THEN g[1] \in Replies ELSE g[i] = Data(i - 1)

\* w is what follows g in the answer
Continues(g, w) == \A j \in DOMAIN w : w[j] = Data(Len(g) - 1 + j)

\* both peers in SOCKS5 mode, a target that does not greet
Waits == socks = [e \in Ends |-> TRUE] /\ ~greets

\* nobody speaks out of turn: the client after its reply, the target after its
\* client; so the connect bridge is there before the answer
Patient ==
  /\ sent["connect"] > 0 => Succeeded
  /\ wire["expose"] # <<>> \/ got["expose"] # <<>> => sent["connect"] > 0
  /\ sent["expose"] > 0 => got["expose"] # <<>>
  /\ HasData(wire["connect"]) => sent["expose"] > 0
  /\ Succeeded => front = "done" /\ handler["connect"] = "bridge"
  /\ front = "reply" => got["connect"] = <<>>
  /\ lost["connect"] = <<>>

\* what the client has, and what is on its way to it
Replied ==
  /\ AnswerSoFar(got["connect"])
  /\ Succeeded /\ conn["connect"] = "open" =>
       /\ Continues(got["connect"], wire["connect"])
       /\ chan["expose"] # "closed" =>
            sent["expose"] = Len(got["connect"]) - 1 + Len(wire["connect"])

\* the two together, in the mode they are about
ReplyInv == Waits => Patient /\ Replied

\* The bridge writes the next chunk of the answer.
LEMMA AnswerGrows ==
  ASSUME NEW g \in Seq(Messages), NEW w \in Seq(Messages), g # <<>>, w # <<>>,
         AnswerSoFar(g), Continues(g, w)
  PROVE  /\ AnswerSoFar(Append(g, Head(w)))
         /\ Continues(Append(g, Head(w)), Tail(w))
         /\ Len(Append(g, Head(w))) - 1 + Len(Tail(w)) = Len(g) - 1 + Len(w)
<1>1. PICK m \in Messages : m = Head(w)
  OBVIOUS
<1>2. /\ Len(g) \in Nat \ {0} /\ Len(w) \in Nat \ {0}
      /\ DOMAIN g = 1..Len(g) /\ DOMAIN w = 1..Len(w)
      /\ Len(Append(g, m)) = Len(g) + 1 /\ DOMAIN Append(g, m) = 1..(Len(g) + 1)
      /\ \A i \in 1..Len(g) : Append(g, m)[i] = g[i]
      /\ Append(g, m)[Len(g) + 1] = m
  OBVIOUS
<1>3. /\ Len(Tail(w)) = Len(w) - 1 /\ DOMAIN Tail(w) = 1..(Len(w) - 1) /\ m = w[1]
      /\ \A j \in 1..(Len(w) - 1) : Tail(w)[j] = w[j + 1]
  BY <1>1
<1>4. m = Data(Len(g))
  <2>1. 1 \in DOMAIN w /\ Len(g) - 1 + 1 = Len(g)
    BY <1>2
  <2> QED BY <1>3, <2>1 DEF Continues
<1> DEFINE h == Append(g, m)
           v == Tail(w)
<1>5. AnswerSoFar(h)
  <2> SUFFICES ASSUME NEW i \in 1..(Len(g) + 1)
               PROVE  IF i = 1 THEN h[1] \in Replies ELSE h[i] = Data(i - 1)
    BY <1>2 DEF AnswerSoFar
  <2>1. CASE i \in 1..Len(g)
    BY <1>2, <2>1 DEF AnswerSoFar
  <2>2. CASE i = Len(g) + 1
    <3>1. i # 1 /\ i - 1 = Len(g)
      BY <1>2, <2>2
    <3> QED BY <1>2, <1>4, <2>2, <3>1
  <2> QED BY <1>2, <2>1, <2>2
<1>6. Continues(h, v)
  <2> SUFFICES ASSUME NEW j \in 1..(Len(w) - 1) PROVE v[j] = Data(Len(h) - 1 + j)
    BY <1>3 DEF Continues
  <2>1. j + 1 \in DOMAIN w /\ Len(g) - 1 + (j + 1) = Len(h) - 1 + j
    BY <1>2
  <2>2. v[j] = w[j + 1]
    BY <1>3
  <2>3. w[j + 1] = Data(Len(g) - 1 + (j + 1))
    BY <2>1 DEF Continues
  <2> QED BY <2>1, <2>2, <2>3
<1>7. Len(h) - 1 + Len(v) = Len(g) - 1 + Len(w)
  BY <1>2, <1>3
<1> QED BY <1>1, <1>5, <1>6, <1>7

\* The target speaks.
LEMMA AnswerSpoken ==
  ASSUME NEW g \in Seq(Messages), NEW w \in Seq(Messages), NEW n \in Nat,
         n + 1 \in 1..MaxChunks, Continues(g, w), n = Len(g) - 1 + Len(w)
  PROVE  /\ Continues(g, Append(w, Data(n + 1)))
         /\ n + 1 = Len(g) - 1 + Len(Append(w, Data(n + 1)))
<1>1. PICK m \in Messages : m = Data(n + 1)
  BY MessageKinds
<1>2. /\ Len(w) \in Nat /\ Len(g) \in Nat /\ DOMAIN w = 1..Len(w)
      /\ Len(Append(w, m)) = Len(w) + 1 /\ DOMAIN Append(w, m) = 1..(Len(w) + 1)
      /\ \A i \in 1..Len(w) : Append(w, m)[i] = w[i]
      /\ Append(w, m)[Len(w) + 1] = m
  OBVIOUS
<1>3. Len(g) - 1 + (Len(w) + 1) = n + 1
  BY <1>2
<1>4. Continues(g, Append(w, m))
  <2> SUFFICES ASSUME NEW j \in 1..(Len(w) + 1)
               PROVE  Append(w, m)[j] = Data(Len(g) - 1 + j)
    BY <1>2 DEF Continues
  <2>1. CASE j \in 1..Len(w)
    BY <1>2, <2>1 DEF Continues
  <2>2. CASE j = Len(w) + 1
    BY <1>1, <1>2, <1>3, <2>2
  <2> QED BY <1>2, <2>1, <2>2
<1> QED BY <1>1, <1>2, <1>3, <1>4

\* Chunks in what is left of a sequence.
LEMMA HasDataFacts ==
  ASSUME NEW w \in Seq(Messages), w # <<>>
  PROVE  /\ Pure(w) => HasData(w)
         /\ HasData(Tail(w)) => HasData(w)
         /\ IsData(Head(w)) => HasData(w)
<1>1. 1 \in DOMAIN w /\ Head(w) = w[1]
  OBVIOUS
<1>2. \A i \in DOMAIN Tail(w) : i + 1 \in DOMAIN w /\ Tail(w)[i] = w[i + 1]
  OBVIOUS
<1> QED BY <1>1, <1>2 DEF Pure, HasData

\* The first message.
LEMMA AppendNothing == ASSUME NEW x PROVE Append(<<>>, x) = <<x>>
OBVIOUS

\* What a sequence of one message has.
LEMMA Singleton ==
  ASSUME NEW x
  PROVE  /\ DOMAIN <<x>> = {1} /\ <<x>>[1] = x /\ Len(<<x>>) = 1
         /\ \A m : Has(<<x>>, m) => x = m
         /\ HasData(<<x>>) => IsData(x)
         /\ x \in Replies => AnswerSoFar(<<x>>)
<1>1. DOMAIN <<x>> = {1} /\ <<x>>[1] = x /\ Len(<<x>>) = 1
  OBVIOUS
<1>2. \A i \in DOMAIN <<x>> : i = 1 /\ <<x>>[i] = x
  BY <1>1
<1>3. \A m : Has(<<x>>, m) => x = m
  BY <1>2 DEF Has
<1>4. HasData(<<x>>) => IsData(x)
  BY <1>2 DEF HasData
<1>5. x \in Replies => AnswerSoFar(<<x>>)
  BY <1>1, <1>2 DEF AnswerSoFar
<1> QED BY <1>1, <1>3, <1>4, <1>5

\* What the empty sequence has.
LEMMA Nothing ==
  /\ \A m : ~Has(<<>>, m)
  /\ ~HasData(<<>>) /\ AnswerSoFar(<<>>)
  /\ \A g : Continues(g, <<>>)
<1>1. DOMAIN <<>> = {}
  OBVIOUS
<1> QED BY <1>1 DEF Has, HasData, AnswerSoFar, Continues

\* Before the success reply neither TCP side has said anything.
LEMMA Unanswered ==
  ASSUME TypeOK, Places, Wires, Waits, ReplyInv
  PROVE  /\ ~Succeeded => /\ sent["connect"] = 0 /\ sent["expose"] = 0
                        /\ wire["expose"] = <<>> /\ got["expose"] = <<>>
                        /\ ~HasData(wire["connect"])
         /\ handler["connect"] = "bridge" /\ wire["connect"] # <<>> => Succeeded
<1>1. Patient /\ sent["connect"] \in Nat /\ sent["expose"] \in Nat
      /\ wire["connect"] \in Seq(Messages)
  BY DEF ReplyInv, TypeOK, Ends
<1>2. ~Succeeded => /\ sent["connect"] = 0 /\ sent["expose"] = 0
                  /\ wire["expose"] = <<>> /\ got["expose"] = <<>>
                  /\ ~HasData(wire["connect"])
  BY <1>1 DEF Patient
<1>3. handler["connect"] = "bridge" /\ wire["connect"] # <<>> => HasData(wire["connect"])
  BY <1>1, PureFacts, HasDataFacts DEF Wires
<1> QED BY <1>2, <1>3

\* Every step keeps the reply before the answer.
LEMMA ReplyStep ==
  TypeOK /\ Places /\ NotYet /\ Wires /\ ReplyInv /\ [Next]_vars => ReplyInv'
<1> SUFFICES ASSUME TypeOK, Places, NotYet, Wires, ReplyInv, [Next]_vars, Waits'
             PROVE  Patient' /\ Replied'
  BY DEF ReplyInv
<1> USE DEF setup, ends, data, Set, CloseConn, CloseBoth
<1>0. UNCHANGED <<socks, greets>>
  BY DEF Next, ConnectSteps, ExposeSteps, Handshake, OpenStreamChannel, OnOpen,
     AwaitReady, TimeoutClose, ConnectBridge, ReplySuccess, ChannelArrives, ParseLabel,
     Dial, SendReady, ExposeBridge, ReadChunk, ReadEnds, OnMessage, OnClose,
     TransportFails, vars
<1>1. Waits /\ Patient /\ Replied /\ socks["connect"]
  BY <1>0 DEF Waits, ReplyInv, Ends
<1>2. /\ "connect" \in Ends /\ "expose" \in Ends
      /\ \A e \in Ends : e \in {"connect", "expose"}
      /\ Far("connect") = "expose" /\ Far("expose") = "connect"
  BY DEF Ends, Far
<1>3. /\ wire \in [Ends -> Seq(Messages)] /\ got \in [Ends -> Seq(Messages)]
      /\ lost \in [Ends -> Seq(Messages)] /\ sent \in [Ends -> 0..MaxChunks]
      /\ DOMAIN chan = Ends /\ DOMAIN conn = Ends /\ DOMAIN handler = Ends
      /\ conn["connect"] \in {"open", "closed"}
  BY <1>2 DEF TypeOK, Places
<1>4. CASE Handshake \/ OpenStreamChannel
  <2>1. /\ got["connect"] = <<>> /\ UNCHANGED <<wire, sent, lost, handler, chan>>
        /\ front' \in {"open", "opening", "done"}
    BY <1>4 DEF Handshake, OpenStreamChannel, Places
  <2>2. PICK r \in {"no method", "failure"} :
          UNCHANGED <<got, conn>> \/ UNCHANGED got \/ Write("connect", Reply(r))
    BY <1>4 DEF Handshake, OpenStreamChannel
  <2>3. /\ got'["connect"] = <<>> \/ got'["connect"] = <<Reply(r)>>
        /\ got'["expose"] = got["expose"]
    <3>1. Append(<<>>, Reply(r)) = <<Reply(r)>>
      BY AppendNothing
    <3>2. CASE UNCHANGED got
      BY <2>1, <3>2
    <3>3. CASE Write("connect", Reply(r))
      BY <1>2, <1>3, <2>1, <3>1, <3>3 DEF Write
    <3> QED BY <2>2, <3>2, <3>3
  <2>4. ~Has(<<>>, Reply("success")) /\ ~Has(<<Reply(r)>>, Reply("success"))
    <3>1. Reply(r) # Reply("success")
      BY DEF Reply
    <3> QED BY <3>1, Singleton, Nothing
  <2>5. ~Succeeded' /\ ~Succeeded
    BY <2>1, <2>3, <2>4 DEF Succeeded
  <2>6. AnswerSoFar(<<>>) /\ AnswerSoFar(<<Reply(r)>>)
    <3>1. Reply(r) \in Replies
      BY DEF Replies
    <3> QED BY <3>1, Singleton, Nothing
  <2>7. Patient'
    BY <1>1, <2>1, <2>3, <2>5 DEF Patient
  <2>8. Replied'
    BY <2>3, <2>5, <2>6 DEF Replied
  <2> QED BY <2>7, <2>8
<1>5. CASE OnOpen \/ AwaitReady \/ TimeoutClose \/ ConnectBridge
  <2>1. /\ UNCHANGED <<wire, got, sent, lost>> /\ chan'["expose"] = chan["expose"]
        /\ conn'["connect"] = "open" => conn["connect"] = "open"
        /\ front # "done"
    BY <1>2, <1>3, <1>5 DEF OnOpen, AwaitReady, TimeoutClose, ConnectBridge
  <2>2. ~Succeeded /\ ~Succeeded'
    BY <1>1, <2>1 DEF Patient, Succeeded
  <2>3. front' = "reply" => got["connect"] = <<>>
    BY <1>5 DEF OnOpen, AwaitReady, TimeoutClose, ConnectBridge, Places
  <2> QED BY <1>1, <2>1, <2>2, <2>3 DEF Patient, Replied
<1>6. CASE ReplySuccess
  <2>1. /\ front = "reply" /\ front' = "done" /\ got["connect"] = <<>>
        /\ handler["connect"] = "bridge" /\ UNCHANGED <<wire, sent, lost, handler>>
    BY <1>1, <1>6 DEF ReplySuccess, Patient, Places
  <2>2. ~Succeeded
    BY <2>1 DEF Succeeded, Has
  <2>3. /\ sent["connect"] = 0 /\ sent["expose"] = 0 /\ wire["connect"] = <<>>
        /\ wire["expose"] = <<>> /\ got["expose"] = <<>> /\ ~HasData(wire["connect"])
    BY <1>1, <2>1, <2>2, Unanswered
  <2>4. CASE conn["connect"] = "open"
    <3>1. got'["connect"] = <<Reply("success")>> /\ got'["expose"] = <<>>
      BY <1>2, <1>3, <1>6, <2>1, <2>3, <2>4 DEF ReplySuccess, Write
    <3>2. AnswerSoFar(<<Reply("success")>>) /\ Continues(<<Reply("success")>>, <<>>)
      <4>1. Reply("success") \in Replies
        BY DEF Replies
      <4> QED BY <4>1, Singleton, Nothing
    <3>3. Has(<<Reply("success")>>, Reply("success"))
      <4>1. 1 \in DOMAIN <<Reply("success")>> /\ <<Reply("success")>>[1] = Reply("success")
        OBVIOUS
      <4> QED BY <4>1 DEF Has
    <3>4. Patient'
      BY <1>1, <2>1, <2>3, <3>1, <3>3 DEF Patient, Succeeded
    <3>5. Len(<<Reply("success")>>) - 1 + Len(<<>>) = 0
      OBVIOUS
    <3>6. Replied'
      BY <2>1, <2>3, <3>1, <3>2, <3>5 DEF Replied
    <3> QED BY <3>4, <3>6
  <2>5. CASE conn["connect"] # "open"
    <3>1. UNCHANGED got
      BY <1>6, <2>5 DEF ReplySuccess
    <3>2. ~Succeeded'
      BY <2>2, <3>1 DEF Succeeded
    <3> QED BY <1>1, <2>1, <3>1, <3>2 DEF Patient, Replied
  <2> QED BY <2>4, <2>5
<1>7. CASE ChannelArrives \/ ParseLabel \/ Dial \/ ExposeBridge
  <2>1. /\ UNCHANGED <<wire, got, sent, lost, front>>
        /\ conn'["connect"] = conn["connect"] /\ handler'["connect"] = handler["connect"]
    BY <1>2, <1>3, <1>7 DEF ChannelArrives, ParseLabel, Dial, ExposeBridge
  <2>2. chan'["expose"] # "closed" => chan["expose"] # "closed"
    BY <1>2, <1>3, <1>7 DEF ChannelArrives, ParseLabel, Dial, ExposeBridge, Places
  <2> QED BY <1>1, <2>1, <2>2 DEF Patient, Replied, Succeeded
<1>8. CASE SendReady
  <2>1. /\ UNCHANGED <<got, sent, lost, front, handler>>
        /\ conn'["connect"] = conn["connect"] /\ wire'["expose"] = wire["expose"]
    BY <1>2, <1>3, <1>8 DEF SendReady
  <2>2. ~Succeeded /\ wire["connect"] = <<>>
    BY <1>8 DEF SendReady, NotYet, Early
  <2>3. wire'["connect"] = <<>> \/ wire'["connect"] = <<Ready>>
    BY <1>2, <1>3, <1>8, <2>2 DEF SendReady
  <2>4. ~HasData(<<>>) /\ ~HasData(<<Ready>>)
    <3>1. ~IsData(Ready)
      BY DEF IsData, Ready
    <3> QED BY <3>1, Singleton, Nothing
  <2>5. ~Succeeded' /\ ~HasData(wire'["connect"])
    BY <2>1, <2>2, <2>3, <2>4 DEF Succeeded
  <2>6. Patient'
    BY <1>1, <2>1, <2>2, <2>5 DEF Patient
  <2>7. Replied'
    BY <1>1, <2>1, <2>5 DEF Replied
  <2> QED BY <2>6, <2>7
<1>9. CASE ReadChunk("connect")
  <2>1. Succeeded
    BY <1>1, <1>9 DEF ReadChunk, MaySpeak, Succeeded
  <2>2. /\ UNCHANGED <<got, lost, front, handler>> /\ sent'["expose"] = sent["expose"]
        /\ sent'["connect"] > 0 /\ wire'["connect"] = wire["connect"]
        /\ conn'["connect"] = "open" => conn["connect"] = "open"
        /\ chan'["expose"] = chan["expose"]
    BY <1>2, <1>3, <1>9 DEF ReadChunk
  <2>3. Succeeded'
    BY <2>1, <2>2 DEF Succeeded
  <2> QED BY <1>1, <2>1, <2>2, <2>3 DEF Patient, Replied
<1>10. CASE ReadChunk("expose")
  <2>1. got["expose"] # <<>>
    BY <1>1, <1>10 DEF ReadChunk, MaySpeak, HasData, Waits
  <2>2. Succeeded /\ sent["connect"] > 0 /\ got["connect"] # <<>>
    BY <1>1, <2>1 DEF Patient, Succeeded, Has
  <2>3. PICK n \in Nat : n = sent["expose"] /\ n + 1 \in 1..MaxChunks
    <3>1. sent["expose"] < MaxChunks /\ sent["expose"] \in 0..MaxChunks
      BY <1>2, <1>3, <1>10 DEF ReadChunk
    <3> QED BY <3>1, ChunksAssumption
  <2>4. /\ UNCHANGED <<got, lost, front, handler>> /\ sent'["expose"] = n + 1
        /\ sent'["connect"] = sent["connect"] /\ wire'["expose"] = wire["expose"]
        /\ conn'["connect"] = conn["connect"]
    BY <1>2, <1>3, <1>10, <2>3 DEF ReadChunk
  <2>5. Succeeded' /\ n + 1 > 0
    BY <2>2, <2>4 DEF Succeeded
  <2>6. Patient'
    BY <1>1, <2>1, <2>2, <2>4, <2>5 DEF Patient
  <2>7. CASE wire'["connect"] = wire["connect"] /\ chan'["expose"] = "closed"
    BY <1>1, <2>2, <2>4, <2>5, <2>6, <2>7 DEF Replied
  <2>8. CASE /\ wire'["connect"] = Append(wire["connect"], Data(n + 1))
             /\ chan["expose"] = "open"
               /\ UNCHANGED chan
    <3>1. ASSUME conn["connect"] = "open"
          PROVE  /\ Continues(got["connect"], Append(wire["connect"], Data(n + 1)))
                 /\ n + 1 = Len(got["connect"]) - 1 + Len(Append(wire["connect"], Data(n + 1)))
      <4>1. /\ Continues(got["connect"], wire["connect"])
            /\ n = Len(got["connect"]) - 1 + Len(wire["connect"])
        BY <1>1, <2>2, <2>3, <2>8, <3>1 DEF Replied
      <4>2. got["connect"] \in Seq(Messages) /\ wire["connect"] \in Seq(Messages)
        BY <1>2, <1>3
      <4> QED BY <2>3, <4>1, <4>2, AnswerSpoken
    <3> QED BY <1>1, <2>4, <2>5, <2>6, <2>8, <3>1 DEF Replied
  <2> QED BY <1>2, <1>3, <1>10, <2>3, <2>7, <2>8 DEF ReadChunk, CanSend
<1>11. ASSUME NEW e \in Ends, ReadEnds(e) \/ OnClose(e) PROVE Patient' /\ Replied'
  <2>1. /\ UNCHANGED <<wire, got, sent, lost, front, handler>>
        /\ conn'["connect"] = "open" => conn["connect"] = "open"
        /\ chan'["expose"] # "closed" => chan["expose"] # "closed"
    BY <1>2, <1>3, <1>11 DEF ReadEnds, OnClose
  <2> QED BY <1>1, <2>1 DEF Patient, Replied, Succeeded
<1>12. CASE OnMessage("expose")
  <2>1. /\ UNCHANGED <<sent, front, handler, conn, chan>> /\ wire["expose"] # <<>>
        /\ wire'["connect"] = wire["connect"] /\ got'["connect"] = got["connect"]
        /\ lost'["connect"] = lost["connect"]
    BY <1>2, <1>3, <1>12 DEF OnMessage, Write
  <2>2. got["expose"] # <<>> => got'["expose"] # <<>>
    BY <1>2, <1>3, <1>12 DEF OnMessage, Write
  <2> QED BY <1>1, <2>1, <2>2 DEF Patient, Replied, Succeeded
<1>13. CASE OnMessage("connect")
  <2>1. /\ UNCHANGED <<sent, front, handler, conn, chan>> /\ wire["connect"] # <<>>
        /\ wire'["connect"] = Tail(wire["connect"]) /\ wire'["expose"] = wire["expose"]
        /\ got'["expose"] = got["expose"]
    BY <1>2, <1>3, <1>13 DEF OnMessage, Write
  <2>2. HasData(wire'["connect"]) => HasData(wire["connect"])
    BY <1>2, <1>3, <2>1, HasDataFacts
  <2>3. CASE handler["connect"] # "bridge"
    <3>1. ~Succeeded
      BY <1>1, <2>3 DEF Patient
    <3>2. ~IsData(Head(wire["connect"]))
      BY <1>1, <1>2, <1>3, <2>1, <3>1, Unanswered, HasDataFacts
    <3>3. UNCHANGED <<got, lost>>
      BY <1>13, <2>3, <3>2 DEF OnMessage
    <3> QED BY <1>1, <2>1, <2>2, <3>1, <3>3 DEF Patient, Replied, Succeeded
  <2>4. CASE handler["connect"] = "bridge"
    <3>1. Succeeded /\ front = "done" /\ UNCHANGED lost /\ got["connect"] # <<>>
      BY <1>1, <1>13, <2>1, <2>4, Unanswered DEF Patient, OnMessage, Succeeded, Has
    <3>2. CASE conn["connect"] = "open"
      <4>1. got'["connect"] = Append(got["connect"], Head(wire["connect"]))
        BY <1>2, <1>3, <1>13, <2>4, <3>2 DEF OnMessage, Write
      <4>2. /\ got["connect"] \in Seq(Messages) /\ wire["connect"] \in Seq(Messages)
            /\ Head(wire["connect"]) \in Messages
        BY <1>2, <1>3, <2>1
      <4>3. Succeeded'
        BY <3>1, <4>1, <4>2, HasAppend DEF Succeeded
      <4>4. Patient'
        BY <1>1, <2>1, <2>2, <3>1, <4>3 DEF Patient
      <4>5. /\ AnswerSoFar(Append(got["connect"], Head(wire["connect"])))
            /\ Continues(Append(got["connect"], Head(wire["connect"])), Tail(wire["connect"]))
            /\ Len(Append(got["connect"], Head(wire["connect"]))) - 1 + Len(Tail(wire["connect"]))
                 = Len(got["connect"]) - 1 + Len(wire["connect"])
        BY <1>1, <2>1, <3>1, <3>2, <4>2, AnswerGrows DEF Replied
      <4>6. Replied'
        BY <1>1, <2>1, <3>1, <3>2, <4>1, <4>5 DEF Replied
      <4> QED BY <4>4, <4>6
    <3>3. CASE conn["connect"] # "open"
      <4>1. UNCHANGED got
        BY <1>13, <2>4, <3>3 DEF OnMessage, Write
      <4> QED BY <1>1, <2>1, <2>2, <3>1, <3>3, <4>1 DEF Patient, Replied, Succeeded
    <3> QED BY <3>2, <3>3
  <2> QED BY <2>3, <2>4
<1>14. CASE TransportFails \/ UNCHANGED vars
  BY <1>1, <1>14 DEF TransportFails, vars, Patient, Replied, Succeeded
<1> QED
  BY <1>2, <1>4, <1>5, <1>6, <1>7, <1>8, <1>9, <1>10, <1>11, <1>12, <1>13, <1>14
     DEF Next, ConnectSteps, ExposeSteps, Ends

-----------------------------------------------------------------------------
(* The invariant and what follows from it. *)

\* the inductive invariant
StreamInv == TypeOK /\ Places /\ Reached /\ NotYet /\ Wires /\ Order /\ ReplyInv

\* The first state satisfies the invariant.
LEMMA InitStreamInv == Init => StreamInv
<1> SUFFICES ASSUME Init PROVE StreamInv
  OBVIOUS
<1>1. TypeOK
  BY InitTypeOK
<1>2. /\ "connect" \in Ends /\ "expose" \in Ends
      /\ \A e \in Ends : Far(e) \in Ends
      /\ front = "accepted" /\ back = "none" /\ readyCh = 0
      /\ \A e \in Ends : /\ chan[e] = "none" /\ handler[e] = "none" /\ sent[e] = 0
                         /\ wire[e] = <<>> /\ got[e] = <<>> /\ lost[e] = <<>>
      /\ conn["connect"] = "open" /\ conn["expose"] = "none"
  BY DEF Init, Ends, Far
<1>3. Places
  BY <1>2 DEF Places
<1>4. ~Succeeded
  BY <1>2, Nothing DEF Succeeded
<1>5. NotYet
  BY <1>2, <1>4 DEF NotYet
<1>6. Wires
  <2>1. Pure(<<>>) /\ ReadyFirst(<<>>)
    BY DEF Pure, ReadyFirst
  <2> QED BY <1>2, <2>1, Nothing DEF Wires
<1>7. Order
  <2>1. (<<>> \o <<>>) \o <<>> = <<>>
    OBVIOUS
  <2>2. DOMAIN <<>> = {} /\ 1..0 = {} /\ 0 \in 0..0
    OBVIOUS
  <2>3. InOrder(<<>>, 0)
    BY <2>2 DEF InOrder
  <2>4. Lined(<<>>, <<>>, <<>>, 0)
    BY <2>1, <2>3 DEF Lined
  <2> QED BY <1>2, <2>2, <2>4 DEF Order, OrderAt
<1>8. ReplyInv
  <2>1. Patient
    BY <1>2, <1>4, Nothing DEF Patient
  <2>2. Replied
    BY <1>2, <1>4, Nothing DEF Replied
  <2> QED BY <2>1, <2>2 DEF ReplyInv
<1>9. Reached
  BY <1>2 DEF Reached
<1> QED BY <1>1, <1>3, <1>5, <1>6, <1>7, <1>8, <1>9 DEF StreamInv

\* The invariant holds in every state of a stream.
THEOREM StreamInvAlways == Spec => []StreamInv
<1>1. StreamInv /\ [Next]_vars => StreamInv'
  <2>1. Places => LabelOK
    BY DEF Places, LabelOK
  <2> QED
    BY <2>1, NextTypeOK, PlacesStep, ReachedStep, NotYetStep, WiresStep, OrderStep,
       ReplyStep DEF StreamInv
<1> QED BY <1>1, InitStreamInv, PTL DEF Spec

\* A SOCKS5 client hears success only after the expose peer's dial, however the
\* steps interleave: the dial of the client's own target if the expose peer runs
\* in SOCKS5 mode, of the target of its options if not.
THEOREM SuccessMeansDialledAlways == Spec => []SuccessMeansDialled
<1>1. StreamInv => SuccessMeansDialled
  <2> SUFFICES ASSUME StreamInv, Succeeded
               PROVE  reached = IF socks["expose"] THEN "asked" ELSE "own"
    BY DEF SuccessMeansDialled
  <2>1. back \in {"bridge", "done"}
    BY DEF StreamInv, NotYet, Early
  <2>2. conn["expose"] # "none"
    BY <2>1 DEF StreamInv, Places
  <2> QED BY <2>2 DEF StreamInv, Reached
<1> QED BY <1>1, StreamInvAlways, PTL

\* What a TCP side gets is a stretch of what the other side sent, in order and
\* without the ready byte: only chunks that came before the bridge are lost,
\* for any number of chunks and any moment at which the handlers change.
THEOREM OnlyTheStartIsLostAlways == Spec => []OnlyTheStartIsLost
<1>1. StreamInv => OnlyTheStartIsLost
  <2> SUFFICES ASSUME StreamInv, NEW e \in Ends
               PROVE  /\ ~Has(got[e], Ready)
                      /\ conn[e] # "closed" =>
                           \E n \in 0..sent[Far(e)] :
                             InOrder(lost[e] \o got[e] \o wire[e], n)
    BY DEF OnlyTheStartIsLost
  <2>1. ~Has(got[e], Ready)
    BY DEF StreamInv, Wires
  <2>2. ASSUME conn[e] # "closed"
        PROVE  \E n \in 0..sent[Far(e)] : Lined(lost[e], got[e], wire[e], n)
    BY <2>2 DEF StreamInv, Order, OrderAt
  <2> QED BY <2>1, <2>2 DEF Lined
<1> QED BY <1>1, StreamInvAlways, PTL

\* With both peers in SOCKS5 mode and a target that waits for its client, the
\* client gets one reply and then the whole answer from its first byte.
THEOREM ReplyThenAnswerAlways == Spec => []ReplyThenAnswer
<1>1. StreamInv => ReplyThenAnswer
  BY DEF StreamInv, ReplyInv, Waits, Patient, Replied, AnswerSoFar, ReplyThenAnswer
<1> QED BY <1>1, StreamInvAlways, PTL

=============================================================================

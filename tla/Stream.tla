------------------------------- MODULE Stream -------------------------------
(***************************************************************************)
(* The set-up of one stream, from a connection accepted by the connect     *)
(* peer to the target dialled by the expose peer: runListener,             *)
(* runSOCKS5Listener, handleSOCKS5Connect and handleExposeStream of        *)
(* cmd/rtc2tcp-peer/main.go with the server side of internal/socks5.       *)
(*                                                                         *)
(* The two ends register their callbacks at different moments, and pion    *)
(* gives a message or a close to whatever callback is registered when it   *)
(* arrives, and to nobody when none is.  Each peer has its own socks5      *)
(* flag; nothing compares the two.  A bridge, once installed, is the one   *)
(* of module Bridge, reduced to reading, writing and closing both sides.   *)
(* The OnOpen callback of an end has run before its first message arrives. *)
(***************************************************************************)
EXTENDS Naturals, Sequences

CONSTANT MaxChunks   \* bound: chunks either TCP side sends

Ends == {"connect", "expose"}

ASSUME ChunksAssumption == MaxChunks \in Nat

VARIABLES
  socks,    \* options.SOCKS5 of each peer
  greets,   \* the target speaks before it has heard anything
  reached,  \* the target the expose peer has dialled: the one the client
            \* asked for, its own option's, or none yet
  front,    \* where the connect peer's set-up is
  back,     \* where the expose peer's goroutine is
  chan,     \* the data channel as an end sees it
  conn,     \* the TCP connection of an end
  handler,  \* the OnMessage callback an end has registered
  readyCh,  \* tokens in readyCh, a channel of capacity one
  wire,     \* messages on their way to an end
  up,       \* the transport under the channel
  sent,     \* chunks the TCP side of an end has put on the channel
  got,      \* what has been written to the TCP side of an end
  lost      \* chunks that arrived at an end and were given to no bridge

setup == <<front, back, readyCh>>
ends  == <<chan, conn, handler>>
data  == <<wire, sent, got, lost>>
vars  == <<socks, greets, reached, setup, ends, up, data>>

Data(n) == <<"data", n>>
Ready   == <<"ready", 0>>
Reply(r) == <<r, 0>>

Far(e) == IF e = "connect" THEN "expose" ELSE "connect"

IsData(m)  == m[1] = "data"
Has(s, m)  == \E i \in DOMAIN s : s[i] = m
HasData(s) == \E i \in DOMAIN s : IsData(s[i])

Replies  == {Reply(r) : r \in {"success", "failure", "no method"}}
Messages == {Data(n) : n \in 1..MaxChunks} \cup {Ready} \cup Replies

TypeOK ==
  /\ socks \in [Ends -> BOOLEAN] /\ greets \in BOOLEAN /\ up \in BOOLEAN
  /\ reached \in {"none", "asked", "own"}
  /\ front \in {"accepted", "open", "opening", "wait", "bridge", "reply",
                "close", "done"}
  /\ back \in {"none", "label", "dial", "ready", "bridge", "failed", "done"}
  /\ chan \in [Ends -> {"none", "open", "closed"}]
  /\ conn \in [Ends -> {"none", "open", "closed"}]
  /\ handler \in [Ends -> {"none", "ready", "bridge"}]
  /\ readyCh \in 0..1
  /\ sent \in [Ends -> 0..MaxChunks]
  /\ wire \in [Ends -> Seq(Messages)] /\ got \in [Ends -> Seq(Messages)]
  /\ lost \in [Ends -> Seq(Messages)]

Init ==
  /\ socks \in [Ends -> BOOLEAN] /\ greets \in BOOLEAN /\ up = TRUE
  /\ reached = "none"
  /\ front = "accepted" /\ back = "none" /\ readyCh = 0
  /\ chan = [e \in Ends |-> "none"] /\ handler = [e \in Ends |-> "none"]
  /\ conn = [e \in Ends |-> IF e = "connect" THEN "open" ELSE "none"]
  /\ sent = [e \in Ends |-> 0]
  /\ wire = [e \in Ends |-> <<>>] /\ got = [e \in Ends |-> <<>>]
  /\ lost = [e \in Ends |-> <<>>]

Set(f, e, v) == [f EXCEPT ![e] = v]

\* conn.Write at an end: nothing is written to a closed connection
Write(e, m) ==
  got' = IF conn[e] = "open" THEN [got EXCEPT ![e] = Append(@, m)] ELSE got

CloseConn(e) == conn' = Set(conn, e, "closed")
CloseBoth(e) == CloseConn(e) /\ chan' = Set(chan, e, "closed")

\* dc.Send fails on a closed channel, and may fail on a broken transport
CanSend(e) == chan[e] = "open"
SendFails(e) == chan[e] # "open" \/ ~up

-----------------------------------------------------------------------------
(* The connect peer. *)

\* plain mode opens a channel at once; socks5.Handshake reads the request,
\* answers a client without an acceptable method, leaves the others alone
Handshake ==
  /\ front = "accepted"
  /\ \/ /\ front' = "open"
        /\ UNCHANGED <<conn, got>>
     \/ /\ socks["connect"]
        /\ front' = "done"
        /\ \/ Write("connect", Reply("no method"))
           \/ UNCHANGED got
        /\ CloseConn("connect")
  /\ UNCHANGED <<socks, greets, reached, back, readyCh, chan, handler, up>>
  /\ UNCHANGED <<wire, sent, lost>>

\* session.OpenStreamChannel
OpenStreamChannel ==
  /\ front = "open"
  /\ \/ /\ front' = "opening"
        /\ UNCHANGED <<conn, got>>
     \/ /\ front' = "done"
        /\ IF socks["connect"] THEN Write("connect", Reply("failure"))
                               ELSE UNCHANGED got
        /\ CloseConn("connect")
  /\ UNCHANGED <<socks, greets, reached, back, readyCh, chan, handler, up>>
  /\ UNCHANGED <<wire, sent, lost>>

\* faulty variant: SOCKS5 mode bridges at once as well, then waits
OnOpenBridges ==
  /\ front = "opening" /\ up /\ chan["expose"] # "none"
  /\ chan' = Set(chan, "connect", "open")
  /\ handler' = Set(handler, "connect", "bridge")
  /\ front' = IF socks["connect"] THEN "reply" ELSE "done"
  /\ UNCHANGED <<socks, greets, reached, back, readyCh, conn, up, data>>

\* the channel is open: plain mode bridges in the callback, SOCKS5 mode
\* registers the handler that waits for the ready byte
OnOpen ==
  /\ front = "opening" /\ up /\ chan["expose"] # "none"
  /\ chan' = Set(chan, "connect", "open")
  /\ IF socks["connect"]
     THEN /\ handler' = Set(handler, "connect", "ready") /\ front' = "wait"
     ELSE /\ handler' = Set(handler, "connect", "bridge") /\ front' = "done"
  /\ UNCHANGED <<socks, greets, reached, back, readyCh, conn, up, data>>

\* faulty variant: the wait has no timer
ReadyOnly ==
  /\ front = "wait" /\ readyCh > 0
  /\ readyCh' = readyCh - 1 /\ front' = "bridge"
  /\ UNCHANGED <<socks, greets, reached, back, ends, up, data>>

\* the select on readyCh and the 15 s timer
AwaitReady ==
  /\ front = "wait"
  /\ \/ /\ readyCh > 0
        /\ readyCh' = readyCh - 1 /\ front' = "bridge"
        /\ UNCHANGED conn
     \/ /\ front' = "close" /\ CloseConn("connect")
        /\ UNCHANGED readyCh
  /\ UNCHANGED <<socks, greets, reached, back, chan, handler, up, data>>

\* the timer's second close
TimeoutClose ==
  /\ front = "close"
  /\ front' = "done" /\ chan' = Set(chan, "connect", "closed")
  /\ UNCHANGED <<socks, greets, reached, back, readyCh, conn, handler, up, data>>

ConnectBridge ==
  /\ front = "bridge"
  /\ handler' = Set(handler, "connect", "bridge") /\ front' = "reply"
  /\ UNCHANGED <<socks, greets, reached, back, readyCh, chan, conn, up, data>>

\* ReplySuccess; it fails when the bridge has closed the connection already
ReplySuccess ==
  /\ front = "reply" /\ front' = "done"
  /\ IF conn["connect"] = "open"
     THEN Write("connect", Reply("success")) /\ UNCHANGED <<conn, chan>>
     ELSE CloseBoth("connect") /\ UNCHANGED got
  /\ UNCHANGED <<socks, greets, reached, back, readyCh, handler, up, wire, sent, lost>>

-----------------------------------------------------------------------------
(* The expose peer. *)

\* the channel arrives, its OnOpen starts a goroutine
ChannelArrives ==
  /\ front = "opening" /\ up /\ back = "none"
  /\ back' = "label" /\ chan' = Set(chan, "expose", "open")
  /\ UNCHANGED <<socks, greets, reached, front, readyCh, conn, handler, up, data>>

\* what the part of the label after its separator names: a SOCKS5 connect peer
\* puts the client's target there, a plain one writes no such part
Labelled == IF socks["connect"] THEN "asked" ELSE "nothing"

\* faulty variant: a label without a target is taken as it is
ParseLabelLoose ==
  /\ back = "label" /\ back' = "dial"
  /\ UNCHANGED <<socks, greets, reached, front, readyCh, chan, conn, handler, up, data>>

\* parseSocks5Label
ParseLabel ==
  /\ back = "label"
  /\ IF socks["expose"] /\ Labelled = "nothing"
     THEN back' = "failed" /\ chan' = Set(chan, "expose", "closed")
     ELSE back' = "dial" /\ UNCHANGED chan
  /\ UNCHANGED <<socks, greets, reached, front, readyCh, conn, handler, up, data>>

\* actualTarget of handleExposeStream
ActualTarget == IF socks["expose"] THEN Labelled ELSE "own"

\* faulty variant: the ready byte is sent before the dial
DialAfterReady ==
  /\ back = "dial" /\ back' = "bridge"
  /\ wire' = IF CanSend("expose") /\ socks["expose"]
             THEN [wire EXCEPT !["connect"] = Append(@, Ready)] ELSE wire
  /\ UNCHANGED <<socks, greets, reached, front, readyCh, ends, up, sent, got, lost>>

\* faulty variant: a failed dial leaves the channel open
DialKeepsChannel ==
  /\ back = "dial"
  /\ \/ /\ back' = IF socks["expose"] THEN "ready" ELSE "bridge"
        /\ conn' = Set(conn, "expose", "open") /\ reached' = ActualTarget
     \/ /\ back' = "failed" /\ UNCHANGED <<conn, reached>>
  /\ UNCHANGED <<socks, greets, front, readyCh, chan, handler, up, data>>

\* net.DialTimeout
Dial ==
  /\ back = "dial"
  /\ \/ /\ back' = IF socks["expose"] THEN "ready" ELSE "bridge"
        /\ conn' = Set(conn, "expose", "open") /\ reached' = ActualTarget
        /\ UNCHANGED chan
     \/ /\ back' = "failed" /\ chan' = Set(chan, "expose", "closed")
        /\ UNCHANGED <<conn, reached>>
  /\ UNCHANGED <<socks, greets, front, readyCh, handler, up, data>>

\* faulty variant: the ready byte is sent once more to be sure
SendReadyTwice ==
  /\ back = "ready" /\ back' = "bridge"
  /\ wire' = IF CanSend("expose")
             THEN [wire EXCEPT !["connect"] = @ \o <<Ready, Ready>>] ELSE wire
  /\ UNCHANGED <<socks, greets, reached, front, readyCh, ends, up, sent, got, lost>>

SendReady ==
  /\ back = "ready"
  /\ \/ /\ CanSend("expose")
        /\ back' = "bridge"
        /\ wire' = [wire EXCEPT !["connect"] = Append(@, Ready)]
        /\ UNCHANGED <<conn, chan>>
     \/ /\ SendFails("expose")
        /\ back' = "failed" /\ CloseBoth("expose")
        /\ UNCHANGED wire
  /\ UNCHANGED <<socks, greets, reached, front, readyCh, handler, up, sent, got, lost>>

ExposeBridge ==
  /\ back = "bridge"
  /\ back' = "done" /\ handler' = Set(handler, "expose", "bridge")
  /\ UNCHANGED <<socks, greets, reached, front, readyCh, chan, conn, up, data>>

-----------------------------------------------------------------------------
(* The callbacks and the bridge. *)

\* a SOCKS5 client waits for its reply, a target that does not greet for
\* the first bytes of the client
MaySpeak(e) ==
  IF e = "connect" THEN socks[e] => Has(got[e], Reply("success"))
                   ELSE greets \/ HasData(got[e])

\* the bridge's reader: one chunk from the TCP side to the channel
ReadChunk(e) ==
  /\ handler[e] = "bridge" /\ conn[e] = "open"
  /\ sent[e] < MaxChunks /\ MaySpeak(e)
  /\ sent' = [sent EXCEPT ![e] = @ + 1]
  /\ \/ /\ CanSend(e)
        /\ wire' = [wire EXCEPT ![Far(e)] = Append(@, Data(sent[e] + 1))]
        /\ UNCHANGED <<conn, chan>>
     \/ /\ SendFails(e) /\ CloseBoth(e) /\ UNCHANGED wire
  /\ UNCHANGED <<socks, greets, reached, setup, handler, up, got, lost>>

\* the TCP side ends, the bridge closes both
ReadEnds(e) ==
  /\ handler[e] = "bridge" /\ conn[e] = "open"
  /\ CloseBoth(e)
  /\ UNCHANGED <<socks, greets, reached, setup, handler, up, data>>

\* a message arrives: the bridge writes it, the ready handler takes it for
\* the ready byte, and without a handler nobody sees it
OnMessage(e) ==
  /\ chan[e] = "open" /\ wire[e] # <<>>
  /\ wire' = [wire EXCEPT ![e] = Tail(@)]
  /\ IF handler[e] = "bridge" THEN Write(e, Head(wire[e])) ELSE UNCHANGED got
  /\ readyCh' = IF handler[e] = "ready" THEN 1 ELSE readyCh
  /\ lost' = IF handler[e] # "bridge" /\ IsData(Head(wire[e]))
             THEN [lost EXCEPT ![e] = Append(@, Head(wire[e]))] ELSE lost
  /\ UNCHANGED <<socks, greets, reached, front, back, ends, up, sent>>

\* the far end has closed and its data is through, or the transport broke:
\* only a bridge has an OnClose callback
OnClose(e) ==
  /\ chan[e] = "open"
  /\ ~up \/ (chan[Far(e)] = "closed" /\ wire[e] = <<>>)
  /\ chan' = Set(chan, e, "closed")
  /\ IF handler[e] = "bridge" THEN CloseConn(e) ELSE UNCHANGED conn
  /\ UNCHANGED <<socks, greets, reached, setup, handler, up, data>>

TransportFails ==
  /\ up /\ up' = FALSE
  /\ UNCHANGED <<socks, greets, reached, setup, ends, data>>

ConnectSteps == OpenStreamChannel \/ OnOpen \/ AwaitReady \/ TimeoutClose
                  \/ ConnectBridge \/ ReplySuccess
ExposeSteps  == ChannelArrives \/ ParseLabel \/ Dial \/ SendReady \/ ExposeBridge

Next ==
  \/ Handshake \/ ConnectSteps \/ ExposeSteps
  \/ \E e \in Ends : ReadChunk(e) \/ ReadEnds(e) \/ OnMessage(e) \/ OnClose(e)
  \/ TransportFails

Spec == Init /\ [][Next]_vars

(***************************************************************************)
(* Goroutines, pion's callbacks, the timer and the dial make progress.     *)
(* Nothing makes a TCP side speak or end, or the transport break.          *)
(***************************************************************************)
Fairness ==
  /\ WF_vars(ConnectSteps) /\ WF_vars(ExposeSteps)
  /\ \A e \in Ends : WF_vars(OnMessage(e)) /\ WF_vars(OnClose(e))

FairSpec == Spec /\ Fairness

-----------------------------------------------------------------------------
(* Safety. *)

Succeeded == Has(got["connect"], Reply("success"))

(***************************************************************************)
(* A SOCKS5 client hears success only after the expose peer's dial: of the *)
(* client's own target if the expose peer runs in SOCKS5 mode too, and     *)
(* otherwise of the target of its own options.  Whatever the ready handler *)
(* takes for the ready byte was sent after that dial.                      *)
(***************************************************************************)
SuccessMeansDialled ==
  Succeeded => reached = IF socks["expose"] THEN "asked" ELSE "own"

(***************************************************************************)
(* The contract of ReplySuccess, `only after the target dial succeeds',    *)
(* for the target that the client asked for.  It is broken when only the   *)
(* connect peer runs in SOCKS5 mode: the greeting of the expose peer's own *)
(* target is taken for the ready byte.                                     *)
(***************************************************************************)
SuccessMeansAsked == Succeeded => reached = "asked"

(***************************************************************************)
(* The contract of ReplyFailure, `always ... before closing conn on a dial *)
(* error': once the expose peer has failed to dial, the connect peer does  *)
(* not close the client's connection without the failure reply.  It does:  *)
(* it learns of the failure by its timer, and just closes.                 *)
(***************************************************************************)
FailureIsReplied ==
  [][back = "failed" /\ reached = "none" /\ front = "wait" /\ front' = "close"
       => Has(got'["connect"], Reply("failure"))]_vars

(***************************************************************************)
(* The contract of Handshake and ReplySuccess: the reply is sent before    *)
(* the bridge starts, so it is the first thing a client reads after the    *)
(* handshake.  handleSOCKS5Connect bridges first, and a target that greets *)
(* can be heard before the reply.                                          *)
(***************************************************************************)
ReplyComesFirst ==
  socks["connect"] /\ HasData(got["connect"]) => got["connect"][1] \in Replies

\* the chunks of s are those from 1 to n, each once and in this order
InOrder(s, n) ==
  /\ \A i \in DOMAIN s : IsData(s[i]) => s[i][2] \in 1..n
  /\ \A i, j \in DOMAIN s :
       i < j /\ IsData(s[i]) /\ IsData(s[j]) => s[i][2] < s[j][2]
  /\ \A k \in 1..n : Has(s, Data(k))

(***************************************************************************)
(* Every chunk is written, on its way, or arrived before there was a       *)
(* bridge to take it: what a TCP side gets, the replies of the SOCKS5      *)
(* server aside, is a stretch of what the other side sent, in order and    *)
(* without the ready byte.  A change of handler makes no hole in it.       *)
(***************************************************************************)
OnlyTheStartIsLost ==
  \A e \in Ends :
    /\ ~Has(got[e], Ready)
    /\ conn[e] # "closed" =>
         \E n \in 0..sent[Far(e)] : InOrder(lost[e] \o got[e] \o wire[e], n)

(***************************************************************************)
(* With both peers in SOCKS5 mode and a target that waits for its client,  *)
(* the client sees one reply and then the answer from its first byte:      *)
(* ReplySuccess after Bridge is harmless there, because the client speaks  *)
(* only after the reply.                                                   *)
(***************************************************************************)
ReplyThenAnswer ==
  (socks = [e \in Ends |-> TRUE] /\ ~greets) =>
    /\ lost["connect"] = <<>>
    /\ \A i \in DOMAIN got["connect"] :
         IF i = 1 THEN got["connect"][1] \in Replies
                  ELSE got["connect"][i] = Data(i - 1)

(***************************************************************************)
(* handleSOCKS5Connect says what a missing handler would do: the client's  *)
(* first bytes would be `silently dropped'.  Nothing of a stream should be *)
(* dropped at the expose peer.  It is: in plain mode the connect peer      *)
(* bridges at once while the expose peer still dials.                      *)
(***************************************************************************)
NothingDropped == lost["expose"] = <<>>

(***************************************************************************)
(* What handleExposeStream says of the ready byte: it is sent `so          *)
(* dc.OnMessage ... is registered before the client's first bytes arrive'. *)
(* With both peers in SOCKS5 mode, nothing would be dropped.  It can be:   *)
(* the byte is sent before Bridge registers the handler, and reply and     *)
(* first bytes may be faster than that.                                    *)
(***************************************************************************)
ReadyProtectsStart == (\A e \in Ends : socks[e]) => lost["expose"] = <<>>

-----------------------------------------------------------------------------
(* Liveness. *)

(***************************************************************************)
(* A SOCKS5 client whose channel is open does not wait for ever: it hears  *)
(* success or is disconnected, even if the expose peer cannot dial, does   *)
(* not speak SOCKS5 mode, or is gone.  The disconnect comes without a      *)
(* reply, see FailureIsReplied.                                            *)
(***************************************************************************)
Answered == (front = "wait") ~> (Succeeded \/ conn["connect"] = "closed")

\* the close came when no bridge was there to see it; the connection is
\* held until its own TCP side speaks or ends
MissedClose(e) == handler[e] = "bridge" /\ chan[e] = "closed"

\* the channel broke before its OnOpen, which alone would have armed the timer
NeverOpened == front = "opening" /\ ~up

Over(e) == conn[e] # "open" \/ MissedClose(e)

(***************************************************************************)
(* The end of a stream on one side, a failed dial included, ends it on the *)
(* other side, unless the close arrived between two registrations there or *)
(* the channel never opened.                                               *)
(***************************************************************************)
EndsTogether ==
  /\ (back = "failed" \/ conn["expose"] = "closed")
       ~> (Over("connect") \/ NeverOpened)
  /\ (conn["connect"] = "closed")
       ~> (back \in {"none", "failed", "done"} /\ Over("expose"))

(***************************************************************************)
(* What Bridge says of itself: `both sides are closed together'.  Under    *)
(* fair callbacks a bridge on a closed channel would let go of its TCP     *)
(* connection.  It does not if the channel closed before Bridge registered *)
(* its OnClose, during the dial: an idle TCP side is then held for ever.   *)
(***************************************************************************)
BridgeClosesTogether == \A e \in Ends : MissedClose(e) ~> conn[e] # "open"

=============================================================================

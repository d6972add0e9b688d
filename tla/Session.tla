------------------------------ MODULE Session -------------------------------
(***************************************************************************)
(* The two ends of one session, from the moment the broker has paired them *)
(* to the first payload channel: internal/webrtc/session.go and state.go,  *)
(* the handshake of internal/auth/auth.go that runs inside them, and the   *)
(* parts of the main loop of cmd/rtc2tcp-peer/main.go that drive them.     *)
(*                                                                         *)
(* Four goroutines of each process touch the session: the main loop, the   *)
(* control channel's OnOpen and its OnMessage callback, and OnDataChannel; *)
(* any of them may be inside fail() at the same time.  A step is one hold  *)
(* of Session.mu or of the state machine's lock, or one send.              *)
(*                                                                         *)
(* CPACE is symbolic.  A peer's view is everything it puts in the          *)
(* generator, the transcript and the key schedule: pairing secret, session *)
(* id, the two fingerprints, the scheme.  Multiplying the other's share by *)
(* the own scalar gives both ends the same element iff both generators,    *)
(* hence both views, are the same.  Broker and channels deliver in order.  *)
(***************************************************************************)
EXTENDS Naturals, Sequences, FiniteSets

CONSTANTS
  Initiator,    \* the peer whose `paired' message says initiator
  Views,        \* the views an end may have of the session
  None,
  MaxStreams,   \* bound: payload channels the connect peer opens
  Scenarios     \* what may differ between two behaviours, see Init

Peers == {"connect", "expose"}

\* the auth deadline passes; the transport fails; Ctrl-C; a description is
\* refused or a signal cannot be sent; the local address cannot be used
FaultKinds == {"timeout", "network", "interrupt", "signaling", "listen"}

ASSUME InitiatorAssumption == Initiator \in Peers
ASSUME ViewsAssumption == None \notin Views
ASSUME BoundsAssumption == MaxStreams \in Nat
\* the views the two ends may have, the faults that may happen, and a bound on
\* the candidates a peer trickles
ASSUME ScenariosAssumption ==
  \A s \in Scenarios : /\ s.views \subseteq Views
                        /\ s.faults \subseteq FaultKinds /\ s.ice \in Nat

VARIABLES
  view,       \* what the peer would authenticate
  faults, maxICE,  \* the scenario: what may fail, how many candidates
  state,      \* StateMachine.state
  localFP, remoteFP,  \* are the fingerprints known
  main,       \* where the main loop is
  opening,    \* where the control channel's OnOpen callback is
  recv,       \* where the control channel's OnMessage callback is
  controlOpen, authStarted,
  authState, peerShare,  \* InteractiveAuthenticator.state, .peerShare
  result,     \* authResult: "none" until authReady is closed
  failing,    \* a goroutine inside fail(): "no", "result", "once"
  once,       \* closeOnce: "free", inside fail or Close, "done"
  pcUp,       \* the PeerConnection is not closed
  verdict,    \* what the main loop got from WaitAuthenticated
  linkUp,     \* the transport between the two is established
  sig,        \* signals on their way to a peer
  ctl,        \* frames on the control channel on their way to a peer
  gathered, pending, applied,  \* candidates sent, queued, given to pion
  outbound,   \* where connect's OpenStreamChannel is
  opened,     \* payload channels opened by connect
  payload,    \* payload channels on their way to expose
  inbound,    \* where expose's OnDataChannel callback is
  streams     \* payload channels handed to onStream, which dials the target

machine   == <<state, result, failing, once, pcUp, verdict>>
signals   == <<localFP, remoteFP, sig, gathered, pending, applied, linkUp>>
world     == <<view, faults, maxICE>>
handshake == <<world, opening, recv, controlOpen, authStarted, authState,
               peerShare, ctl>>
channels  == <<outbound, opened, payload, inbound, streams>>
vars      == <<main, machine, signals, handshake, channels>>

States == {"SIGNALING", "AUTH_PENDING", "AUTHENTICATED", "STREAMING",
           "CLOSING", "CLOSED", "FAILED"}

Sender == {"check", "opened", "claim", "send"}  \* inside maybeSendAuth

Other(p) == IF p = "connect" THEN "expose" ELSE "connect"

\* messages of the handshake
Tag(role, k)     == [role |-> role, key |-> k]
Hello(s)         == [kind |-> "hello", share |-> s]
Accept(s, t)     == [kind |-> "accept", share |-> s, tag |-> t]
Confirm(t)       == [kind |-> "confirm", tag |-> t]

Shares == Views \cup {None}
Tags   == [role : {"initiator", "responder"},
           key : [view : Views, initiator : Shares, responder : Shares]]
Frames == [kind : {"hello"}, share : Views]
            \cup [kind : {"accept"}, share : Views, tag : Tags]
            \cup [kind : {"confirm"}, tag : Tags]

TypeOK ==
  /\ view \in [Peers -> Views] /\ faults \subseteq FaultKinds /\ maxICE \in Nat
  /\ state \in [Peers -> States]
  /\ localFP \in [Peers -> BOOLEAN] /\ remoteFP \in [Peers -> BOOLEAN]
  /\ main \in [Peers -> {"offer", "sendOffer", "signals", "apply", "remote",
                         "enterR", "local", "enterL", "sendAnswer", "left",
                         "interrupted"}
                        \cup Sender]
  /\ opening \in [Peers -> {"no", "flag", "done"} \cup Sender]
  /\ recv \in [Peers -> {"idle", "step", "out", "authenticated", "complete"}]
  /\ controlOpen \in [Peers -> BOOLEAN] /\ authStarted \in [Peers -> BOOLEAN]
  /\ authState \in [Peers -> {"INIT", "SENT_HELLO", "SENT_ACCEPT",
                              "SENT_CONFIRM", "SUCCEEDED", "FAILED"}]
  /\ peerShare \in [Peers -> Shares]
  /\ result \in [Peers -> {"none", "ok", "error"}]
  /\ failing \in [Peers -> {"no", "result", "once"}]
  /\ once \in [Peers -> {"free", "failed", "closing", "closed", "done"}]
  /\ pcUp \in [Peers -> BOOLEAN] /\ linkUp \in BOOLEAN
  /\ verdict \in [Peers -> {"waiting", "ready", "error"}]
  /\ sig \in [Peers -> Seq({"offer", "answer", "ice"})]
  /\ ctl \in [Peers -> Seq(Frames)]
  /\ gathered \in [Peers -> 0..maxICE]
  /\ pending \in [Peers -> 0..maxICE] /\ applied \in [Peers -> 0..maxICE]
  /\ {opened, payload, streams} \subseteq 0..MaxStreams
  /\ outbound \in {"idle", "create", "transition", "error"}
  /\ inbound \in {"idle", "check", "transition"}

Init ==
  /\ \E s \in Scenarios : /\ view \in [Peers -> s.views]
                          /\ faults = s.faults /\ maxICE = s.ice
  /\ state = [p \in Peers |-> "SIGNALING"]
  /\ localFP = [p \in Peers |-> FALSE] /\ remoteFP = [p \in Peers |-> FALSE]
  /\ main = [p \in Peers |-> IF p = Initiator THEN "offer" ELSE "signals"]
  /\ opening = [p \in Peers |-> "no"]
  /\ recv = [p \in Peers |-> "idle"]
  /\ controlOpen = [p \in Peers |-> FALSE]
  /\ authStarted = [p \in Peers |-> FALSE]
  /\ authState = [p \in Peers |-> "INIT"]
  /\ peerShare = [p \in Peers |-> None]
  /\ result = [p \in Peers |-> "none"]
  /\ failing = [p \in Peers |-> "no"]
  /\ once = [p \in Peers |-> "free"]
  /\ pcUp = [p \in Peers |-> TRUE] /\ linkUp = FALSE
  /\ verdict = [p \in Peers |-> "waiting"]
  /\ sig = [p \in Peers |-> <<>>] /\ ctl = [p \in Peers |-> <<>>]
  /\ gathered = [p \in Peers |-> 0]
  /\ pending = [p \in Peers |-> 0] /\ applied = [p \in Peers |-> 0]
  /\ outbound = "idle" /\ opened = 0 /\ payload = 0
  /\ inbound = "idle" /\ streams = 0

-----------------------------------------------------------------------------
(* The state machine of state.go. *)

allowedTransitions ==
  {<<"SIGNALING", "AUTH_PENDING">>, <<"AUTH_PENDING", "AUTHENTICATED">>,
   <<"AUTHENTICATED", "STREAMING">>, <<"STREAMING", "STREAMING">>,
   <<"CLOSING", "CLOSED">>, <<"CLOSING", "FAILED">>}
  \cup {"SIGNALING", "AUTH_PENDING", "AUTHENTICATED", "STREAMING"}
       \X {"CLOSING", "FAILED"}

Allowed(p, s) == <<state[p], s>> \in allowedTransitions

\* Transition; the state stays when it is not allowed
Transition(p, s) ==
  state' = IF Allowed(p, s) THEN [state EXCEPT ![p] = s] ELSE state

Over(p) == state[p] \in {"CLOSING", "CLOSED", "FAILED"}

\* completeAuthResult: the first result stays
Complete(p, r) ==
  result' = IF result[p] = "none" THEN [result EXCEPT ![p] = r] ELSE result

IsAuthenticated(p) == result[p] = "ok"

\* a goroutine of p calls fail(err); it has not yet reached Session.mu
CallFail(p) == failing' = [failing EXCEPT ![p] = "result"]

SendTo(chan, p, m) == [chan EXCEPT ![p] = Append(@, m)]

Goto(p, l) == main' = [main EXCEPT ![p] = l]

-----------------------------------------------------------------------------
(* Signalling: the main loop, and OnICECandidate beside it. *)

\* CreateOffer: SetLocalDescription; the other fingerprint is not known yet
CreateOffer(p) ==
  /\ main[p] = "offer" /\ pcUp[p]
  /\ localFP' = [localFP EXCEPT ![p] = TRUE]
  /\ Goto(p, "sendOffer")
  /\ UNCHANGED <<machine, remoteFP, sig, gathered, pending, applied, linkUp,
                 handshake, channels>>

SendOffer(p) ==
  /\ main[p] = "sendOffer"
  /\ sig' = SendTo(sig, Other(p), "offer")
  /\ Goto(p, "signals")
  /\ UNCHANGED <<machine, localFP, remoteFP, gathered, pending, applied,
                 linkUp, handshake, channels>>

\* OnICECandidate runs as soon as pion gathers, before the offer is sent or
\* after it
Trickle(p) ==
  /\ localFP[p] /\ pcUp[p] /\ main[p] \notin {"left", "interrupted"}
  /\ gathered[p] < maxICE
  /\ gathered' = [gathered EXCEPT ![p] = @ + 1]
  /\ sig' = SendTo(sig, Other(p), "ice")
  /\ UNCHANGED <<main, machine, localFP, remoteFP, pending, applied, linkUp,
                 handshake, channels>>

Reads(p, s) ==
  /\ main[p] = "signals" /\ sig[p] # <<>> /\ Head(sig[p]) = s
  /\ sig' = [sig EXCEPT ![p] = Tail(@)]

\* AddRemoteCandidate: kept until there is a remote description
ReadICE(p) ==
  /\ Reads(p, "ice")
  /\ IF remoteFP[p]
     THEN /\ applied' = [applied EXCEPT ![p] = @ + 1] /\ UNCHANGED pending
     ELSE /\ pending' = [pending EXCEPT ![p] = @ + 1] /\ UNCHANGED applied
  /\ UNCHANGED <<main, machine, localFP, remoteFP, gathered, linkUp, handshake,
                 channels>>

ReadSDP(p) ==
  /\ Reads(p, "offer") \/ Reads(p, "answer")
  /\ Goto(p, "apply")
  /\ UNCHANGED <<machine, localFP, remoteFP, gathered, pending, applied, linkUp,
                 handshake, channels>>

\* pc.SetRemoteDescription; with the answer the transports start
ApplyRemote(p) ==
  /\ main[p] = "apply" /\ pcUp[p]
  /\ linkUp' = (linkUp \/ p = Initiator)
  /\ Goto(p, "remote")
  /\ UNCHANGED <<machine, localFP, remoteFP, sig, gathered, pending, applied,
                 handshake, channels>>

\* faulty variant: the queued candidates are forgotten
SetRemoteDropsQueue(p) ==
  /\ main[p] = "remote"
  /\ remoteFP' = [remoteFP EXCEPT ![p] = TRUE]
  /\ pending' = [pending EXCEPT ![p] = 0]
  /\ Goto(p, "enterR")
  /\ UNCHANGED <<machine, localFP, sig, gathered, applied, linkUp, handshake,
                 channels>>

\* the rest of setRemoteDescription: the fingerprint, the queued candidates
SetRemote(p) ==
  /\ main[p] = "remote"
  /\ remoteFP' = [remoteFP EXCEPT ![p] = TRUE]
  /\ applied' = [applied EXCEPT ![p] = @ + pending[p]]
  /\ pending' = [pending EXCEPT ![p] = 0]
  /\ Goto(p, "enterR")
  /\ UNCHANGED <<machine, localFP, sig, gathered, linkUp, handshake, channels>>

\* SetLocalDescription of the answer
CreateAnswer(p) ==
  /\ main[p] = "local" /\ pcUp[p]
  /\ localFP' = [localFP EXCEPT ![p] = TRUE]
  /\ Goto(p, "enterL")
  /\ UNCHANGED <<machine, remoteFP, sig, gathered, pending, applied, linkUp,
                 handshake, channels>>

\* where the main loop goes after maybeEnterAuthPending
AfterEnter(p) ==
  IF main[p] = "enterR" /\ p # Initiator THEN "local"
  ELSE IF p = Initiator THEN "signals" ELSE "sendAnswer"

\* faulty variant: only OnOpen is left to send the hello
EnterWithoutAuth(p) ==
  /\ main[p] \in {"enterR", "enterL"}
  /\ Goto(p, AfterEnter(p))
  /\ IF localFP[p] /\ remoteFP[p] THEN Transition(p, "AUTH_PENDING")
                                  ELSE UNCHANGED state
  /\ UNCHANGED <<result, failing, once, pcUp, verdict, signals, handshake,
                 channels>>

\* maybeEnterAuthPending; on to maybeSendAuth
EnterAuthPending(p) ==
  /\ main[p] \in {"enterR", "enterL"}
  /\ IF localFP[p] /\ remoteFP[p]
     THEN /\ Goto(p, "check")
          /\ IF state[p] = "SIGNALING" THEN Transition(p, "AUTH_PENDING")
                                       ELSE UNCHANGED state
     ELSE /\ Goto(p, AfterEnter(p))
          /\ UNCHANGED state
  /\ UNCHANGED <<result, failing, once, pcUp, verdict, signals, handshake,
                 channels>>

\* a description is refused, as every one is once the connection is closed, or
\* has no fingerprint, or sendSignal fails: runPeer fails the session and returns
SignalingFails(p) ==
  /\ main[p] \in {"offer", "sendOffer", "apply", "remote", "local", "sendAnswer"}
  /\ \/ "signaling" \in faults
     \/ ~pcUp[p] /\ main[p] \in {"offer", "apply", "local"}
  /\ CallFail(p)
  /\ Goto(p, "left")
  /\ UNCHANGED <<state, result, once, pcUp, verdict, signals, handshake,
                 channels>>

\* pion may refuse the queued candidates once the connection is closed, which
\* setRemoteDescription has taken from the queue by then: the same end
FlushFails(p) ==
  /\ main[p] = "remote" /\ pending[p] > 0 /\ ~pcUp[p]
  /\ remoteFP' = [remoteFP EXCEPT ![p] = TRUE]
  /\ pending' = [pending EXCEPT ![p] = 0]
  /\ CallFail(p)
  /\ Goto(p, "left")
  /\ UNCHANGED <<state, result, once, pcUp, verdict, localFP, sig, gathered,
                 applied, linkUp, handshake, channels>>

\* or a candidate that comes later
CandidateFails(p) ==
  /\ ~pcUp[p]
  /\ remoteFP[p] /\ Reads(p, "ice")
  /\ CallFail(p)
  /\ Goto(p, "left")
  /\ UNCHANGED <<state, result, once, pcUp, verdict, localFP, remoteFP, gathered,
                 pending, applied, linkUp, handshake, channels>>

SendAnswer(p) ==
  /\ main[p] = "sendAnswer"
  /\ sig' = SendTo(sig, Other(p), "answer")
  /\ Goto(p, "signals")
  /\ UNCHANGED <<machine, localFP, remoteFP, gathered, pending, applied, linkUp,
                 handshake, channels>>

-----------------------------------------------------------------------------
(* maybeSendAuth, run by the main loop and by OnOpen. *)

\* the control channel opens at p: OnOpen is started, frames are read
ControlOpens(p) ==
  /\ linkUp /\ pcUp[p] /\ opening[p] = "no"
  /\ opening' = [opening EXCEPT ![p] = "flag"]
  /\ UNCHANGED <<main, machine, signals, world, recv, controlOpen, authStarted,
                 authState, peerShare, ctl, channels>>

OnOpen(p) ==
  /\ opening[p] = "flag"
  /\ controlOpen' = [controlOpen EXCEPT ![p] = TRUE]
  /\ opening' = [opening EXCEPT ![p] = "check"]
  /\ UNCHANGED <<main, machine, signals, world, recv, authStarted, authState,
                 peerShare, ctl, channels>>

\* the caller t of p, "main" or "open", is at l / goes on to l
At(p, t, l) == IF t = "main" THEN main[p] = l ELSE opening[p] = l
Step(p, t, l) ==
  IF t = "main" THEN Goto(p, l) /\ UNCHANGED opening
                ELSE opening' = [opening EXCEPT ![p] = l] /\ UNCHANGED main
Return(p, t) ==
  Step(p, t, IF t = "open" THEN "done"
             ELSE IF p = Initiator THEN "signals" ELSE "sendAnswer")

CheckPending(p, t) ==
  /\ At(p, t, "check")
  /\ IF state[p] = "AUTH_PENDING" THEN Step(p, t, "opened") ELSE Return(p, t)
  /\ UNCHANGED <<machine, signals, world, recv, controlOpen, authStarted,
                 authState, peerShare, ctl, channels>>

CheckOpen(p, t) ==
  /\ At(p, t, "opened")
  /\ IF controlOpen[p] THEN Step(p, t, "claim") ELSE Return(p, t)
  /\ UNCHANGED <<machine, signals, world, recv, controlOpen, authStarted,
                 authState, peerShare, ctl, channels>>

\* faulty variant: authStarted is set and never looked at
ClaimAlways(p, t) ==
  /\ At(p, t, "claim")
  /\ IF p = "connect"
     THEN authStarted' = [authStarted EXCEPT ![p] = TRUE] /\ Step(p, t, "send")
     ELSE UNCHANGED authStarted /\ Return(p, t)
  /\ UNCHANGED <<machine, signals, world, recv, controlOpen, authState,
                 peerShare, ctl, channels>>

\* bindAuthenticator, idempotent, then the claim of authStarted
ClaimStart(p, t) ==
  /\ At(p, t, "claim")
  /\ IF p = "connect" /\ ~authStarted[p]
     THEN authStarted' = [authStarted EXCEPT ![p] = TRUE] /\ Step(p, t, "send")
     ELSE UNCHANGED authStarted /\ Return(p, t)
  /\ UNCHANGED <<machine, signals, world, recv, controlOpen, authState,
                 peerShare, ctl, channels>>

\* Start and the send of hello; either may fail
SendHello(p, t) ==
  /\ At(p, t, "send")
  /\ authState' = [authState EXCEPT ![p] = IF @ = "INIT" THEN "SENT_HELLO" ELSE @]
  /\ IF authState[p] = "INIT" /\ pcUp[p]
     THEN ctl' = SendTo(ctl, Other(p), Hello(view[p])) /\ UNCHANGED failing
     ELSE CallFail(p) /\ UNCHANGED ctl
  /\ Return(p, t)
  /\ UNCHANGED <<state, result, once, pcUp, verdict, signals, world, recv,
                 controlOpen, authStarted, peerShare, channels>>

-----------------------------------------------------------------------------
(* handleControlMessage, on the control channel's own goroutine. *)

\* what the two ends feed into the key schedule, from the view of p
Keys(p, share) ==
  [view      |-> view[p],
   initiator |-> IF p = "connect" THEN view[p] ELSE share,
   responder |-> IF p = "connect" THEN share ELSE view[p]]

ReadControl(p) ==
  /\ recv[p] = "idle" /\ opening[p] # "no" /\ pcUp[p]
  /\ ctl[p] # <<>>
  /\ IF state[p] = "AUTH_PENDING"
     THEN /\ recv' = [recv EXCEPT ![p] = "step"]
          /\ UNCHANGED <<failing, ctl>>
     ELSE /\ CallFail(p)
          /\ ctl' = [ctl EXCEPT ![p] = Tail(@)]
          /\ UNCHANGED recv
  /\ UNCHANGED <<main, state, result, once, pcUp, verdict, signals, world,
                 opening, controlOpen, authStarted, authState, peerShare,
                 channels>>

\* faulty variant: connect does not verify the responder's confirmation
ExpectedUnverified(p, m) ==
  \/ /\ p = "expose" /\ authState[p] = "INIT" /\ m.kind = "hello"
     /\ m.share.scheme = view[p].scheme
  \/ /\ p = "expose" /\ authState[p] = "SENT_ACCEPT" /\ m.kind = "confirm"
     /\ m.tag = Tag("initiator", Keys(p, peerShare[p]))
  \/ /\ p = "connect" /\ authState[p] = "SENT_HELLO" /\ m.kind = "accept"
     /\ m.share.scheme = view[p].scheme

\* what Step accepts in the authenticator's state
Expected(p, m) ==
  \/ /\ p = "expose" /\ authState[p] = "INIT" /\ m.kind = "hello"
     /\ m.share.scheme = view[p].scheme
  \/ /\ p = "expose" /\ authState[p] = "SENT_ACCEPT" /\ m.kind = "confirm"
     /\ m.tag = Tag("initiator", Keys(p, peerShare[p]))
  \/ /\ p = "connect" /\ authState[p] = "SENT_HELLO" /\ m.kind = "accept"
     /\ m.share.scheme = view[p].scheme
     /\ m.tag = Tag("responder", Keys(p, m.share))

\* faulty variant: a refused frame is dropped and the session goes on
StepIgnoresBad(p) ==
  LET m == Head(ctl[p]) IN
  /\ recv[p] = "step"
  /\ ctl' = [ctl EXCEPT ![p] = Tail(@)]
  /\ IF Expected(p, m)
     THEN /\ authState' = [authState EXCEPT
               ![p] = IF m.kind = "hello" THEN "SENT_ACCEPT" ELSE "SUCCEEDED"]
          /\ peerShare' = IF m.kind = "confirm" THEN peerShare
                          ELSE [peerShare EXCEPT ![p] = m.share]
          /\ recv' = [recv EXCEPT
               ![p] = IF m.kind = "confirm" THEN "authenticated" ELSE "out"]
     ELSE /\ recv' = [recv EXCEPT ![p] = "idle"]
          /\ UNCHANGED <<authState, peerShare>>
  /\ UNCHANGED <<main, machine, signals, world, opening, controlOpen,
                 authStarted, channels>>

\* Authenticator.Step; the share of a refused message is never used
StepAuth(p) ==
  LET m == Head(ctl[p]) IN
  /\ recv[p] = "step"
  /\ ctl' = [ctl EXCEPT ![p] = Tail(@)]
  /\ IF Expected(p, m)
     THEN /\ authState' = [authState EXCEPT
               ![p] = IF m.kind = "hello" THEN "SENT_ACCEPT" ELSE "SUCCEEDED"]
          /\ peerShare' = IF m.kind = "confirm" THEN peerShare
                          ELSE [peerShare EXCEPT ![p] = m.share]
          /\ recv' = [recv EXCEPT
               ![p] = IF m.kind = "confirm" THEN "authenticated" ELSE "out"]
          /\ UNCHANGED failing
     ELSE /\ authState' = [authState EXCEPT
               ![p] = IF @ = "SUCCEEDED" THEN @ ELSE "FAILED"]
          /\ recv' = [recv EXCEPT ![p] = "idle"]
          /\ CallFail(p)
          /\ UNCHANGED peerShare
  /\ UNCHANGED <<main, state, result, once, pcUp, verdict, signals, world,
                 opening, controlOpen, authStarted, channels>>

\* sendAuthMessage of the outbound message
SendReply(p) ==
  /\ recv[p] = "out"
  /\ IF pcUp[p]
     THEN /\ ctl' = SendTo(ctl, Other(p),
               IF p = "connect"
               THEN Confirm(Tag("initiator", Keys(p, peerShare[p])))
               ELSE Accept(view[p], Tag("responder", Keys(p, peerShare[p]))))
          /\ recv' = [recv EXCEPT
               ![p] = IF p = "connect" THEN "authenticated" ELSE "idle"]
          /\ UNCHANGED failing
     ELSE /\ recv' = [recv EXCEPT ![p] = "idle"]
          /\ CallFail(p)
          /\ UNCHANGED ctl
  /\ UNCHANGED <<main, state, result, once, pcUp, verdict, signals, world,
                 opening, controlOpen, authStarted, authState, peerShare,
                 channels>>

\* done: Transition(AUTHENTICATED)
BecomeAuthenticated(p) ==
  /\ recv[p] = "authenticated"
  /\ Transition(p, "AUTHENTICATED")
  /\ IF Allowed(p, "AUTHENTICATED")
     THEN recv' = [recv EXCEPT ![p] = "complete"] /\ UNCHANGED failing
     ELSE recv' = [recv EXCEPT ![p] = "idle"] /\ CallFail(p)
  /\ UNCHANGED <<main, result, once, pcUp, verdict, signals, world, opening,
                 controlOpen, authStarted, authState, peerShare, ctl, channels>>

CompleteAuth(p) ==
  /\ recv[p] = "complete"
  /\ Complete(p, "ok")
  /\ recv' = [recv EXCEPT ![p] = "idle"]
  /\ UNCHANGED <<main, state, failing, once, pcUp, verdict, signals, world,
                 opening, controlOpen, authStarted, authState, peerShare, ctl,
                 channels>>

-----------------------------------------------------------------------------
(* Payload channels. *)

\* faulty variant: the state alone decides
MayStreamByState(p) == state[p] \in {"AUTHENTICATED", "STREAMING"}

\* may a payload channel pass: the check of both ends
MayStream(p) ==
  state[p] \in {"AUTHENTICATED", "STREAMING"} /\ IsAuthenticated(p)

\* the listener that the main loop starts when ready may still accept
Listening ==
  /\ verdict["connect"] = "ready"
  /\ main["connect"] \notin {"left", "interrupted"}
  /\ outbound = "idle"

\* OpenStreamChannel: the check, CreateDataChannel, the transition
OpenStreamChannel ==
  /\ Listening /\ opened < MaxStreams
  /\ MayStream("connect")
  /\ outbound' = "create"
  /\ UNCHANGED <<main, machine, signals, handshake, opened, payload, inbound,
                 streams>>

\* an error of OpenStreamChannel ends runListener; the SOCKS5 listener goes on
StreamFailed == outbound' \in {"idle", "error"}

\* the check fails, or the local address cannot be listened on
CannotOpen ==
  /\ Listening /\ MaxStreams > 0
  /\ ~MayStream("connect") \/ "listen" \in faults
  /\ outbound' = "error"
  /\ UNCHANGED <<main, machine, signals, handshake, opened, payload, inbound,
                 streams>>

CreateChannel ==
  /\ outbound = "create"
  /\ IF pcUp["connect"]
     THEN /\ opened' = opened + 1 /\ payload' = payload + 1
          /\ outbound' = "transition"
     ELSE StreamFailed /\ UNCHANGED <<opened, payload>>
  /\ UNCHANGED <<main, machine, signals, handshake, inbound, streams>>

ChannelOpened ==
  /\ outbound = "transition"
  /\ Transition("connect", "STREAMING")
  /\ IF Allowed("connect", "STREAMING") THEN outbound' = "idle" ELSE StreamFailed
  /\ UNCHANGED <<main, result, failing, once, pcUp, verdict, signals, handshake,
                 opened, payload, inbound, streams>>

\* the main loop is told that the listener has ended
ListenerResult ==
  /\ outbound = "error" /\ main["connect"] = "signals"
  /\ CallFail("connect")
  /\ Goto("connect", "left")
  /\ UNCHANGED <<state, result, once, pcUp, verdict, signals, handshake,
                 channels>>

\* OnDataChannel at expose: a goroutine of its own, not ordered with OnMessage
OnDataChannel ==
  /\ payload > 0 /\ inbound = "idle" /\ pcUp["expose"]
  /\ payload' = payload - 1
  /\ inbound' = "check"
  /\ UNCHANGED <<main, machine, signals, handshake, outbound, opened, streams>>

\* prepareInboundPayloadChannel: may the channel be accepted
CheckInbound ==
  /\ inbound = "check"
  /\ IF MayStream("expose")
     THEN inbound' = "transition" /\ UNCHANGED failing
     ELSE inbound' = "idle" /\ CallFail("expose")
  /\ UNCHANGED <<main, state, result, once, pcUp, verdict, signals, handshake,
                 outbound, opened, payload, streams>>

\* faulty variant: onStream is called for the check's success and again for the
\* transition's
AcceptInboundTwice ==
  /\ inbound = "transition"
  /\ inbound' = "idle"
  /\ Transition("expose", "STREAMING")
  /\ IF Allowed("expose", "STREAMING")
     THEN streams' = streams + 2 /\ UNCHANGED failing
     ELSE CallFail("expose") /\ UNCHANGED streams
  /\ UNCHANGED <<main, result, once, pcUp, verdict, signals, handshake, outbound,
                 opened, payload>>

AcceptInbound ==
  /\ inbound = "transition"
  /\ inbound' = "idle"
  /\ Transition("expose", "STREAMING")
  /\ IF Allowed("expose", "STREAMING")
     THEN streams' = streams + 1 /\ UNCHANGED failing
     ELSE CallFail("expose") /\ UNCHANGED streams
  /\ UNCHANGED <<main, result, once, pcUp, verdict, signals, handshake, outbound,
                 opened, payload>>

-----------------------------------------------------------------------------
(* The end of a session. *)

\* fail(): completeAuthResult first
FailResult(p) ==
  /\ failing[p] = "result"
  /\ Complete(p, "error")
  /\ failing' = [failing EXCEPT ![p] = "once"]
  /\ UNCHANGED <<main, state, once, pcUp, verdict, signals, handshake, channels>>

\* then closeOnce, which waits for whoever is inside it: Transition(FAILED)
FailOnce(p) ==
  /\ failing[p] = "once" /\ once[p] \in {"free", "done"}
  /\ IF once[p] = "free"
     THEN /\ once' = [once EXCEPT ![p] = "failed"]
          /\ Transition(p, "FAILED")
          /\ UNCHANGED failing
     ELSE failing' = [failing EXCEPT ![p] = "no"] /\ UNCHANGED <<once, state>>
  /\ UNCHANGED <<main, result, pcUp, verdict, signals, handshake, channels>>

\* faulty variant: the connection stays open
FailKeepsOpen(p) ==
  /\ once[p] = "failed"
  /\ once' = [once EXCEPT ![p] = "done"]
  /\ UNCHANGED <<main, state, result, failing, pcUp, verdict, signals, handshake,
                 channels>>

\* and pc.Close
FailClose(p) ==
  /\ once[p] = "failed"
  /\ once' = [once EXCEPT ![p] = "done"]
  /\ pcUp' = [pcUp EXCEPT ![p] = FALSE]
  /\ UNCHANGED <<main, state, result, failing, verdict, signals, handshake,
                 channels>>

\* Session.Close, deferred by runPeer: CLOSING, then the result, then
\* pc.Close and CLOSED.  After a failSession there is nothing left to do.
CloseSession(p) ==
  /\ main[p] = "interrupted" /\ once[p] = "free"
  /\ once' = [once EXCEPT ![p] = "closing"]
  /\ Transition(p, "CLOSING")
  /\ UNCHANGED <<main, result, failing, pcUp, verdict, signals, handshake,
                 channels>>

CloseResult(p) ==
  /\ once[p] = "closing"
  /\ once' = [once EXCEPT ![p] = "closed"]
  /\ Complete(p, "error")
  /\ UNCHANGED <<main, state, failing, pcUp, verdict, signals, handshake,
                 channels>>

\* the session stays in CLOSING when pc.Close returns an error
FinishClose(p) ==
  /\ once[p] = "closed"
  /\ once' = [once EXCEPT ![p] = "done"]
  /\ pcUp' = [pcUp EXCEPT ![p] = FALSE]
  /\ Transition(p, "CLOSED") \/ UNCHANGED state
  /\ UNCHANGED <<main, result, failing, verdict, signals, handshake, channels>>

\* OnClose of the control channel or OnConnectionStateChange, once ICE has
\* started: the other side closed, or the network failed
ConnectionLost(p) ==
  /\ linkUp \/ (localFP[p] /\ remoteFP[p])
  /\ pcUp[p] /\ failing[p] = "no"
  /\ "network" \in faults \/ ~pcUp[Other(p)]
  /\ ~Over(p)
  /\ CallFail(p)
  /\ UNCHANGED <<main, state, result, once, pcUp, verdict, signals, handshake,
                 channels>>

\* WaitAuthenticated returns to the main loop
AuthResult(p) ==
  /\ verdict[p] = "waiting" /\ main[p] = "signals"
  /\ \/ /\ result[p] = "ok"
        /\ verdict' = [verdict EXCEPT ![p] = "ready"]
        /\ UNCHANGED <<main, failing>>
     \/ /\ result[p] = "error" \/ "timeout" \in faults
        /\ verdict' = [verdict EXCEPT ![p] = "error"]
        /\ CallFail(p)
        /\ Goto(p, "left")
  /\ UNCHANGED <<state, result, once, pcUp, signals, handshake, channels>>

\* Ctrl-C: runPeer returns and its deferred calls close the session
Interrupt(p) ==
  /\ "interrupt" \in faults
  /\ main[p] = "signals"
  /\ Goto(p, "interrupted")
  /\ UNCHANGED <<machine, signals, handshake, channels>>

-----------------------------------------------------------------------------

MainStep(p) ==
  \/ CreateOffer(p) \/ SendOffer(p) \/ ReadICE(p) \/ ReadSDP(p)
  \/ ApplyRemote(p) \/ SetRemote(p) \/ CreateAnswer(p) \/ EnterAuthPending(p)
  \/ SignalingFails(p) \/ FlushFails(p) \/ CandidateFails(p) \/ SendAnswer(p)

AuthStart(p, t) ==
  CheckPending(p, t) \/ CheckOpen(p, t) \/ ClaimStart(p, t) \/ SendHello(p, t)

ControlStep(p) ==
  \/ ReadControl(p) \/ StepAuth(p) \/ SendReply(p)
  \/ BecomeAuthenticated(p) \/ CompleteAuth(p)

PayloadStep ==
  \/ CreateChannel \/ ChannelOpened \/ ListenerResult
  \/ OnDataChannel \/ CheckInbound \/ AcceptInbound

EndStep(p) ==
  \/ FailResult(p) \/ FailOnce(p) \/ FailClose(p)
  \/ CloseSession(p) \/ CloseResult(p) \/ FinishClose(p)

Settled ==
  /\ \A p \in Peers : \/ once[p] = "done" /\ failing[p] = "no"
                      \/ verdict[p] = "ready" /\ recv[p] = "idle"
  /\ UNCHANGED vars

Next ==
  \/ \E p \in Peers :
       \/ MainStep(p) \/ Trickle(p)
       \/ ControlOpens(p) \/ OnOpen(p)
       \/ AuthStart(p, "main") \/ AuthStart(p, "open")
       \/ ControlStep(p) \/ EndStep(p)
       \/ ConnectionLost(p) \/ AuthResult(p) \/ Interrupt(p)
  \/ OpenStreamChannel \/ CannotOpen \/ PayloadStep
  \/ Settled

Spec == Init /\ [][Next]_vars

-----------------------------------------------------------------------------
(* Safety. *)

Agree == view["connect"] = view["expose"]

\* Key confirmation is mutual and precedes everything else: whichever end says
\* SUCCEEDED, both have the same secret, session id, fingerprints and scheme,
\* expose never says so first, and no payload channel exists otherwise.
MutualAuth ==
  /\ authState["connect"] = "SUCCEEDED" => Agree
  /\ authState["expose"] = "SUCCEEDED" =>
       Agree /\ authState["connect"] = "SUCCEEDED"
  /\ opened > 0 => Agree /\ result["connect"] = "ok"
  /\ streams > 0 => Agree /\ result["expose"] = "ok"

\* The session state and the result WaitAuthenticated gives agree, whichever
\* goroutine was first to fail, to finish the handshake or to close.
StateMatchesResult ==
  \A p \in Peers :
    /\ state[p] = "STREAMING" => result[p] = "ok"
    /\ result[p] = "ok" => state[p] \notin {"SIGNALING", "AUTH_PENDING"}
    /\ state[p] \in {"FAILED", "CLOSED"} => result[p] # "none"
    /\ verdict[p] = "ready" => result[p] = "ok"

CountICE(q) == Cardinality({i \in DOMAIN q : q[i] = "ice"})

\* Every candidate is on its way, queued or with pion; none stays queued once
\* there is a remote description, though candidates may overtake the offer.
CandidatesKept ==
  \A p \in Peers : pcUp[p] =>
    /\ applied[p] + pending[p] + CountICE(sig[p]) = gathered[Other(p)]
    /\ remoteFP[p] => pending[p] = 0

\* Two ends that agree, left alone, do not fail before there is a payload
\* channel: the concurrent callers of maybeSendAuth start one handshake, and
\* each frame finds its receiver in AUTH_PENDING.
HonestNeverFails ==
  Agree /\ faults = {} /\ opened = 0 =>
    \A p \in Peers : failing[p] = "no" /\ result[p] # "error"

\* ErrPreAuthPayloadChannel says ``payload datachannel opened before
\* authentication'': a session of two ends that agree, whose connect end opens
\* its channels after it has authenticated, is never refused with it.
NoHonestRefusal ==
  Agree /\ faults = {} => failing["expose"] = "no"

\* PROTOCOL.md draws the initiator as SUCCEEDED `after send', from the state
\* SENT_CONFIRM that the confirm puts it in.  stepInitiator sets SUCCEEDED before
\* the session has the confirm to send, and never SENT_CONFIRM: an end whose
\* confirm is not sent at all has succeeded too.
SucceededAfterSend ==
  authState["connect"] = "SUCCEEDED" => recv["connect"] # "out"

-----------------------------------------------------------------------------
(* Liveness.  Every goroutine that can run does, pion opens the channel and    *)
(* delivers frames on a transport that is up, the broker delivers signals, and *)
(* a closed connection is noticed.  Timeouts, network failures, interrupts and *)
(* new channels are never required to happen.                                  *)

LostPeer(p) == ~pcUp[Other(p)] /\ ConnectionLost(p)

Fairness ==
  /\ \A p \in Peers :
       /\ WF_vars(MainStep(p) \/ AuthStart(p, "main"))
       /\ WF_vars(ControlOpens(p) \/ OnOpen(p) \/ AuthStart(p, "open"))
       /\ WF_vars(ControlStep(p))
       /\ WF_vars(EndStep(p))
       /\ WF_vars(LostPeer(p))
       /\ WF_vars(result[p] # "none" /\ AuthResult(p))
  /\ WF_vars(PayloadStep)

FairSpec == Spec /\ Fairness

\* Two ends that agree, left alone, both become ready; the hello is sent
\* whichever of OnOpen and the answer comes first.
HandshakeCompletes ==
  (Agree /\ faults = {}) ~> \A p \in Peers : verdict[p] = "ready"

\* Two ends that disagree, left alone, both give up.
DisagreementEnds ==
  (~Agree /\ faults = {}) ~> \A p \in Peers : state[p] = "FAILED" /\ ~pcUp[p]

\* An end that has failed closes its connection, and the other follows.
FailureSpreads ==
  (linkUp /\ \E p \in Peers : result[p] = "error") ~> \A p \in Peers : ~pcUp[p]

=============================================================================

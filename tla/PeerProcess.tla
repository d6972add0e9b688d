---------------------------- MODULE PeerProcess -----------------------------
(***************************************************************************)
(* One peer process between its broker and its tunnel: runPeer of          *)
(* cmd/rtc2tcp-peer/main.go and the signaling client it owns               *)
(* (internal/signaling/client.go), from a dialled socket to the exit.      *)
(*                                                                         *)
(* The client has three workers (readLoop, pingLoop, appPingLoop), a       *)
(* bounded queue of events the main loop reads, and one write mutex that   *)
(* the workers and the main loop share.  (The session's OnSignal callback  *)
(* takes it too, and only logs an error: it is left out.)                  *)
(* The broker is what module Broker allows it to be: `paired' comes from   *)
(* another goroutine than the signals, there is one farewell, and a closed *)
(* socket may follow.  The session is what module Session shows of it; the *)
(* remote process may end, or only lose its own broker socket.             *)
(***************************************************************************)
EXTENDS Naturals, Sequences, FiniteSets

CONSTANTS
  Tickers,      \* the ticker loops that write: pingLoop, appPingLoop
  QueueSize,    \* capacity of Client.events
  MaxSignals,   \* bound: signals the remote peer sends
  MaxPings      \* bound: application pings the broker sends

ASSUME QueueAssumption == QueueSize \in Nat \ {0}
ASSUME PeerBoundsAssumption == MaxSignals \in Nat /\ MaxPings \in Nat

ASSUME TickersAssumption == Tickers \subseteq {"pingLoop", "appPingLoop"}

VARIABLES
  mode,         \* options.Mode
  main,         \* where runPeer is
  attached,     \* brokerEvents is not nil
  listener,     \* the listener goroutine has been started
  sess,         \* the session, "none" until paired
  exchanged,    \* both descriptions have been applied here
  authCh,       \* WaitAuthenticated and authResultCh
  events, evClosed,  \* Client.events
  reader, held, \* where readLoop is, the message it holds
  writer,       \* where the ticker loops are
  sock,         \* the socket: "up", "cut" by broker or network, "closed" here
  done,         \* Client.done is closed
  mu,           \* who has writeMu
  broker,       \* what the broker has of this peer
  owed,         \* the goroutine that sends `paired' has not run yet
  inbox,        \* messages in the socket
  told, seen,   \* events sent and not lost with the socket, events taken
  nsig, nping,
  remote        \* the other process: "up", "gone", "detached" from the broker

peer   == <<mode, main, attached, listener>>
tunnel == <<sess, exchanged, authCh>>
queue  == <<events, evClosed, seen>>
worker == <<reader, held, writer>>
client == <<sock, done, mu>>
env    == <<broker, owed, inbox, told, nsig, nping, remote>>
vars   == <<peer, tunnel, queue, worker, client, env>>

\* a message; n numbers what is meant for the main loop, 0 is the rest
Message(t, n) == [type |-> t, n |-> n]
BrokerRead == Message("broker-read", 0)
IsEvent(m) == m.n > 0
Count(s) == Cardinality({i \in DOMAIN s : IsEvent(s[i])})

Expired == {"waiter-expired", "session-expired"}
Types   == {"registered", "paired", "signal", "peer-left", "broker-read", "ping"}
             \cup Expired

Messages(s) == /\ s \in Seq([type : Types, n : Nat])
               /\ \A i \in DOMAIN s : s[i].n <= told

\* what readLoop hands on: the pings stay with it
Queued(s) == Messages(s) /\ \A i \in DOMAIN s : s[i].type # "ping"

TypeOK ==
  /\ mode \in {"connect", "expose"}
  /\ main \in {"register", "select", "offer", "answer", "closeSession",
               "closeClient", "wait", "exited"}
  /\ attached \in BOOLEAN /\ exchanged \in BOOLEAN
  /\ listener \in BOOLEAN
  /\ sess \in {"none", "signaling", "ready", "failed", "closed"}
  /\ authCh \in {"none", "waiting", "ok", "error", "taken"}
  /\ Queued(events) /\ Len(events) <= QueueSize /\ evClosed \in BOOLEAN
  /\ reader \in {"read", "pong", "put", "exit"} /\ Queued(held)
  /\ writer \in [Tickers -> {"idle", "write", "exit"}]
  /\ sock \in {"up", "cut", "closed"} /\ done \in BOOLEAN
  /\ mu \in Tickers \cup {"free", "main", "reader"}
  /\ broker \in {"dialled", "waiting", "paired", "over"} /\ owed \in BOOLEAN
  /\ Messages(inbox) /\ told \in Nat /\ seen \in 0..told
  /\ nsig \in 0..MaxSignals /\ nping \in 0..MaxPings
  /\ remote \in {"up", "gone", "detached"}

\* Dial has returned
Init ==
  /\ mode \in {"connect", "expose"}
  /\ main = "register" /\ attached = TRUE
  /\ listener = FALSE /\ sess = "none" /\ exchanged = FALSE
  /\ authCh = "none" /\ events = <<>> /\ evClosed = FALSE
  /\ reader = "read" /\ held = <<>> /\ writer = [w \in Tickers |-> "idle"]
  /\ sock = "up" /\ done = FALSE /\ mu = "free"
  /\ broker = "dialled" /\ owed = FALSE /\ inbox = <<>>
  /\ told = 0 /\ seen = 0 /\ nsig = 0 /\ nping = 0 /\ remote = "up"

-----------------------------------------------------------------------------
(* The write mutex: send, replyPong, pingLoop, appPingLoop. *)

WantsLock(w) ==
  CASE w = "main"   -> main \in {"register", "offer", "answer"}
    [] w = "reader" -> reader = "pong"
    [] OTHER        -> writer[w] = "write"

Lock(w) ==
  /\ mu = "free" /\ WantsLock(w) /\ mu' = w
  /\ UNCHANGED <<peer, tunnel, queue, worker, sock, done, env>>

Unlock(w) == mu = w /\ mu' = "free"

\* a write ends, at the latest at its deadline; on a dead socket it fails
WriteOK == sock = "up"

\* a ticker fires
Tick(w) ==
  /\ writer[w] = "idle" /\ writer' = [writer EXCEPT ![w] = "write"]
  /\ UNCHANGED <<peer, tunnel, queue, reader, held, client, env>>

\* the ticker loops end at the first failed write
Written(w) ==
  /\ Unlock(w)
  /\ writer' = [writer EXCEPT ![w] = IF WriteOK THEN "idle" ELSE "exit"]
  /\ UNCHANGED <<peer, tunnel, queue, reader, held, sock, done, env>>

TickerDone(w) ==
  /\ done /\ writer[w] = "idle"
  /\ writer' = [writer EXCEPT ![w] = "exit"]
  /\ UNCHANGED <<peer, tunnel, queue, reader, held, client, env>>

-----------------------------------------------------------------------------
(* readLoop. *)

\* faulty variant: the loop ends without closing the events
ReadEndsSilently ==
  /\ reader = "read"
  /\ sock = "closed" \/ (sock = "cut" /\ inbox = <<>>)
  /\ reader' = "exit"
  /\ events' = IF Len(events) < QueueSize THEN Append(events, BrokerRead)
                                          ELSE events
  /\ UNCHANGED <<peer, tunnel, evClosed, seen, held, writer, client, env>>

\* done is closed or the read fails: a clean close says nothing, another
\* error is queued if there is room; the events are closed
ReadEnds ==
  /\ reader = "read"
  /\ done \/ sock = "closed" \/ (sock = "cut" /\ inbox = <<>>)
  /\ reader' = "exit" /\ evClosed' = TRUE
  /\ \/ UNCHANGED events
     \/ ~done /\ Len(events) < QueueSize /\ events' = Append(events, BrokerRead)
  /\ UNCHANGED <<peer, tunnel, seen, held, writer, client, env>>

\* faulty variant: a ping is taken for the main loop's
ReadMessagePings ==
  /\ reader = "read" /\ sock # "closed" /\ inbox # <<>>
  /\ inbox' = Tail(inbox) /\ held' = <<Head(inbox)>> /\ reader' = "put"
  /\ UNCHANGED <<peer, tunnel, queue, writer, client, broker, owed, told, nsig,
                 nping, remote>>

\* pings are answered here; pongs, which readLoop forgets, are left out
ReadMessage ==
  /\ reader = "read" /\ sock # "closed" /\ inbox # <<>>
  /\ inbox' = Tail(inbox)
  /\ LET m == Head(inbox) IN
       IF m.type = "ping" THEN reader' = "pong" /\ UNCHANGED held
                          ELSE reader' = "put" /\ held' = <<m>>
  /\ UNCHANGED <<peer, tunnel, queue, writer, client, broker, owed, told, nsig,
                 nping, remote>>

\* replyPong ignores its error
PongWritten ==
  /\ reader = "pong" /\ Unlock("reader") /\ reader' = "read"
  /\ UNCHANGED <<peer, tunnel, queue, held, writer, sock, done, env>>

\* faulty variant: the put does not listen to done
PutBlocks ==
  /\ reader = "put" /\ Len(events) < QueueSize
  /\ events' = Append(events, held[1]) /\ held' = <<>> /\ reader' = "read"
  /\ UNCHANGED <<peer, tunnel, evClosed, seen, writer, client, env>>

\* faulty variant: a full queue drops the message
PutOrDrop ==
  /\ reader = "put" /\ reader' = "read" /\ held' = <<>>
  /\ events' = IF Len(events) < QueueSize THEN Append(events, held[1])
                                          ELSE events
  /\ UNCHANGED <<peer, tunnel, evClosed, seen, writer, client, env>>

\* the select on the queue and done
Put ==
  /\ reader = "put" /\ held' = <<>>
  /\ \/ /\ Len(events) < QueueSize
        /\ events' = Append(events, held[1])
        /\ reader' = "read" /\ UNCHANGED evClosed
     \/ /\ done /\ reader' = "exit" /\ evClosed' = TRUE /\ UNCHANGED events
  /\ UNCHANGED <<peer, tunnel, seen, writer, client, env>>

-----------------------------------------------------------------------------
(* runPeer. *)

\* the deferred calls follow
Return == main' = "closeSession"

\* session.Fail: the first result of the authentication stays
FailSession ==
  /\ sess' = IF sess \in {"signaling", "ready"} THEN "failed" ELSE sess
  /\ authCh' = IF sess \in {"signaling", "ready"} /\ authCh = "waiting"
               THEN "error" ELSE authCh
  /\ UNCHANGED exchanged

ReturnFailed == Return /\ FailSession

\* startListener: at the connect peer, once
StartListener == listener' = (listener \/ mode = "connect")

postAuth == sess = "ready"

\* onBrokerLoss: brokerEvents is nil from now on, the loop continues
OnBrokerLoss == attached' = FALSE /\ UNCHANGED <<main, tunnel>>

\* a broken broker connection
BrokerLost ==
  IF postAuth THEN OnBrokerLoss ELSE ReturnFailed /\ UNCHANGED attached

\* Register, the offer or the answer is written
Sent ==
  /\ main \in {"register", "offer", "answer"} /\ Unlock("main")
  /\ \/ /\ WriteOK /\ main' = "select"
        /\ broker' = IF main = "register" THEN "waiting" ELSE broker
        /\ exchanged' = (exchanged \/ main = "answer")
        /\ told' = IF main = "register" THEN told + 1 ELSE told
        /\ inbox' = IF main = "register"
                    THEN Append(inbox, Message("registered", told + 1)) ELSE inbox
        /\ UNCHANGED <<sess, authCh>>
     \/ /\ ReturnFailed /\ UNCHANGED <<broker, told, inbox>>
  /\ UNCHANGED <<mode, attached, listener, queue, worker, sock,
                 done, owed, nsig, nping, remote>>

\* ctx.Done: the user or the system may end the process at any time
Interrupted ==
  /\ main = "select" /\ Return
  /\ UNCHANGED <<mode, attached, listener, tunnel, queue, worker, client, env>>

\* authResultCh: startListener, or session.Fail and return
AuthResult ==
  /\ main = "select" /\ authCh \in {"ok", "error"} /\ authCh' = "taken"
  /\ IF authCh = "ok"
     THEN StartListener /\ UNCHANGED <<main, sess>>
     ELSE /\ Return
          /\ sess' = IF sess \in {"signaling", "ready"} THEN "failed" ELSE sess
          /\ UNCHANGED listener
  /\ UNCHANGED <<mode, attached, exchanged, queue, worker, client,
                 env>>

\* listenerResultCh: the address cannot be used, the accept fails or, in
\* plain mode, a channel cannot be opened
ListenerResult ==
  /\ main = "select" /\ listener /\ ReturnFailed
  /\ UNCHANGED <<mode, attached, listener, queue, worker, client,
                 env>>

\* the events are closed and drained
EventsClosed ==
  /\ main = "select" /\ attached /\ evClosed /\ events = <<>>
  /\ BrokerLost
  /\ UNCHANGED <<mode, listener, queue, worker, client, env>>

NewSession == sess = "none" /\ sess' = "signaling"

\* `paired': a session is made, WaitAuthenticated starts, the initiator,
\* which is the connect peer, sends its offer; a second `paired' or a session
\* that cannot be made is fatal
OnPaired ==
  \/ Return /\ UNCHANGED tunnel
  \/ /\ NewSession /\ authCh' = "waiting"
     /\ main' = IF mode = "connect" THEN "offer" ELSE "select"
     /\ UNCHANGED exchanged

\* handleSignal: the first one is the other description, which the expose
\* peer answers; one that cannot be applied is fatal
OnSignal ==
  \/ /\ sess \in {"signaling", "ready"}
     /\ exchanged' = (exchanged \/ mode = "connect")
     /\ main' = IF mode = "expose" /\ ~exchanged THEN "answer" ELSE "select"
     /\ UNCHANGED <<sess, authCh>>
  \/ ReturnFailed

\* faulty variant: an authenticated peer takes it for the loss of its broker
PeerLeftIgnored ==
  IF postAuth THEN UNCHANGED <<main, tunnel>> ELSE ReturnFailed

\* `peer-left' is fatal in every state
OnPeerLeft == ReturnFailed

HandleEvent ==
  /\ main = "select" /\ attached /\ events # <<>>
  /\ events' = Tail(events)
  /\ LET m == Head(events) IN
       /\ seen' = IF IsEvent(m) THEN seen + 1 ELSE seen
       /\ \/ m.type = "registered" /\ UNCHANGED <<main, attached, tunnel>>
          \/ m.type = "paired" /\ OnPaired /\ UNCHANGED attached
          \/ m.type = "signal" /\ OnSignal /\ UNCHANGED attached
          \/ m.type = "peer-left" /\ OnPeerLeft /\ UNCHANGED attached
          \/ m.type \in Expired /\ ReturnFailed /\ UNCHANGED attached
          \/ m.type = "broker-read" /\ BrokerLost
  /\ UNCHANGED <<mode, listener, evClosed, worker, client, env>>

\* the deferred calls, in their order
CloseSession ==
  /\ main = "closeSession" /\ main' = "closeClient"
  /\ sess' = IF sess \in {"signaling", "ready"} THEN "closed" ELSE sess
  /\ authCh' = IF authCh = "waiting" THEN "error" ELSE authCh
  /\ UNCHANGED <<mode, attached, listener, exchanged, queue,
                 worker, client, env>>

CloseClient ==
  /\ main = "closeClient" /\ main' = "wait"
  /\ done' = TRUE /\ sock' = "closed"
  /\ UNCHANGED <<mode, attached, listener, tunnel, queue,
                 worker, mu, env>>

WorkersExited == reader = "exit" /\ \A w \in Tickers : writer[w] = "exit"

\* faulty variant: Close does not wait for its workers
CloseWithoutWait ==
  /\ main = "wait" /\ main' = "exited"
  /\ UNCHANGED <<mode, attached, listener, tunnel, queue,
                 worker, client, env>>

CloseWait ==
  /\ main = "wait" /\ WorkersExited /\ main' = "exited"
  /\ UNCHANGED <<mode, attached, listener, tunnel, queue,
                 worker, client, env>>

-----------------------------------------------------------------------------
(* The session. *)

\* the handshake of module Session has set the state, then its result
SessionReady ==
  /\ sess = "signaling" /\ exchanged /\ remote # "gone" /\ sess' = "ready"
  /\ UNCHANGED <<exchanged, authCh, peer, queue, worker, client, env>>

AuthCompletes ==
  /\ sess = "ready" /\ authCh = "waiting" /\ authCh' = "ok"
  /\ UNCHANGED <<sess, exchanged, peer, queue, worker, client, env>>

\* authTimeout, or the context is cancelled
AuthTimeout ==
  /\ authCh = "waiting" /\ authCh' = "error"
  /\ UNCHANGED <<sess, exchanged, peer, queue, worker, client, env>>

\* the transport fails, the handshake is refused, the remote end closes
SessionFails ==
  /\ sess \in {"signaling", "ready"} /\ FailSession
  /\ UNCHANGED <<peer, queue, worker, client, env>>

-----------------------------------------------------------------------------
(* The broker and the remote peer. *)

BrokerSends(t) ==
  /\ sock = "up" /\ told' = told + 1
  /\ inbox' = Append(inbox, Message(t, told + 1))

BrokerPairs ==
  /\ broker = "waiting" /\ sock = "up" /\ broker' = "paired" /\ owed' = TRUE
  /\ UNCHANGED <<peer, tunnel, queue, worker, client, inbox, told, nsig, nping,
                 remote>>

DeliverPaired ==
  /\ owed /\ owed' = FALSE /\ BrokerSends("paired")
  /\ UNCHANGED <<peer, tunnel, queue, worker, client, broker, nsig, nping, remote>>

RemoteSignal ==
  /\ broker = "paired" /\ remote = "up" /\ nsig < MaxSignals
  /\ nsig' = nsig + 1 /\ BrokerSends("signal")
  /\ UNCHANGED <<peer, tunnel, queue, worker, client, broker, owed, nping, remote>>

BrokerPing ==
  /\ sock = "up" /\ nping < MaxPings /\ nping' = nping + 1
  /\ inbox' = Append(inbox, Message("ping", 0))
  /\ UNCHANGED <<peer, tunnel, queue, worker, client, broker, owed, told, nsig,
                 remote>>

\* the remote process ends, or loses its broker socket and keeps its tunnel
RemoteGone ==
  /\ ~done /\ broker \in {"paired", "over"} /\ remote # "gone" /\ remote' = "gone"
  /\ UNCHANGED <<peer, tunnel, queue, worker, client, broker, owed, inbox, told,
                 nsig, nping>>

RemoteDetached ==
  /\ broker = "paired" /\ remote = "up" /\ remote' = "detached"
  /\ UNCHANGED <<peer, tunnel, queue, worker, client, broker, owed, inbox, told,
                 nsig, nping>>

\* the broker has lost the remote peer's socket
PeerLeft ==
  /\ broker = "paired" /\ remote # "up" /\ broker' = "over"
  /\ BrokerSends("peer-left")
  /\ UNCHANGED <<peer, tunnel, queue, worker, client, owed, nsig, nping, remote>>

\* the janitor: an error, then the socket is closed; a pairing that is
\* refused looks the same to the peer as an expired waiter
Expire ==
  /\ broker \in {"waiting", "paired"} /\ broker' = "over" /\ sock' = "cut"
  /\ BrokerSends(IF broker = "waiting" THEN "waiter-expired" ELSE "session-expired")
  /\ UNCHANGED <<peer, tunnel, queue, worker, done, mu, owed, nsig, nping, remote>>

\* a broker that shuts down, a proxy that times out, a network that is gone;
\* the last messages may be lost with it
SocketCut ==
  /\ sock = "up" /\ sock' = "cut" /\ broker' = "over"
  /\ \E n \in 0..Len(inbox) :
       /\ inbox' = SubSeq(inbox, 1, n)
       /\ told' = told - Count(SubSeq(inbox, n + 1, Len(inbox)))
  /\ UNCHANGED <<peer, tunnel, queue, worker, done, mu, owed, nsig, nping, remote>>

MainStep ==
  \/ Sent \/ AuthResult \/ EventsClosed \/ HandleEvent
  \/ CloseSession \/ CloseClient \/ CloseWait

ReaderStep == ReadEnds \/ ReadMessage \/ PongWritten \/ Put

Next ==
  \/ MainStep \/ Interrupted \/ ListenerResult \/ ReaderStep
  \/ \E w \in Tickers \cup {"main", "reader"} : Lock(w)
  \/ \E w \in Tickers : Tick(w) \/ Written(w) \/ TickerDone(w)
  \/ SessionReady \/ AuthCompletes \/ AuthTimeout \/ SessionFails
  \/ BrokerPairs \/ DeliverPaired \/ RemoteSignal
  \/ BrokerPing
  \/ RemoteGone \/ RemoteDetached \/ PeerLeft \/ Expire \/ SocketCut

Spec == Init /\ [][Next]_vars

(***************************************************************************)
(* Goroutines run, a mutex does not starve its waiters, a write ends at    *)
(* its deadline, the authentication result is passed on, and the broker    *)
(* tells a peer that its partner's socket is gone (Broker: PartnerIsTold). *)
(* Timers, failures and interrupts may never come.                         *)
(***************************************************************************)
Fairness ==
  /\ WF_vars(MainStep) /\ WF_vars(ReaderStep)
  /\ \A w \in Tickers \cup {"main", "reader"} : SF_vars(Lock(w))
  /\ \A w \in Tickers : WF_vars(Written(w)) /\ WF_vars(TickerDone(w))
  /\ WF_vars(AuthCompletes) /\ WF_vars(PeerLeft)

FairSpec == Spec /\ Fairness

-----------------------------------------------------------------------------
(* Safety. *)

\* the events of s are those from lo + 1 to hi, each once and in this order
InOrder(s, lo, hi) ==
  /\ \A i \in DOMAIN s : IsEvent(s[i]) => s[i].n \in (lo + 1)..hi
  /\ \A i, j \in DOMAIN s :
       i < j /\ IsEvent(s[i]) /\ IsEvent(s[j]) => s[i].n < s[j].n
  /\ \A k \in (lo + 1)..hi : \E i \in DOMAIN s : s[i].n = k

(***************************************************************************)
(* The main loop takes every event of the broker once and in the broker's  *)
(* order: what it has not taken yet is in the queue, in readLoop's hand or *)
(* in the socket, however full the queue is and whatever pings come        *)
(* between.  Only the synthetic broker-read may be dropped.                *)
(***************************************************************************)
EventsInOrder == ~done => InOrder(events \o held \o inbox, seen, told)

(***************************************************************************)
(* A process that has returned from runPeer leaves nothing behind: the     *)
(* session is closed, no worker runs, and none of them holds the mutex.    *)
(***************************************************************************)
NothingLeftBehind ==
  main = "exited" =>
    /\ WorkersExited /\ mu = "free"
    /\ sess \notin {"signaling", "ready"} /\ authCh # "waiting"

(***************************************************************************)
(* A comment of runPeer: `a lost broker socket should not tear down a      *)
(* working tunnel'.  While the session is ready and the remote process     *)
(* lives, no message of the broker makes the process leave.                *)
(* It does: `peer-left' after the remote peer has lost its socket, and     *)
(* `session-expired', are fatal.                                           *)
(***************************************************************************)
TunnelOutlivesBroker ==
  [][(main = "select" /\ main' = "closeSession" /\ sess = "ready"
        /\ remote # "gone")
       => (Interrupted \/ AuthResult \/ ListenerResult)]_vars

-----------------------------------------------------------------------------
(* Liveness. *)

(***************************************************************************)
(* A dead broker socket is noticed even when the queue was too full for    *)
(* broker-read: the process leaves, or goes on without its broker.         *)
(***************************************************************************)
LossNoticed == (sock = "cut") ~> (main = "exited" \/ ~attached)

(***************************************************************************)
(* A failed authentication ends the process, and a runPeer that returns    *)
(* gets through its deferred calls: readLoop blocked on a full queue that  *)
(* nobody reads any more, and a ticker that waits for the mutex or for its *)
(* write, are all released by Close.                                       *)
(***************************************************************************)
ReturnEnds == (authCh = "error" \/ main = "closeSession") ~> (main = "exited")

(***************************************************************************)
(* A process whose partner is gone leaves too, unless it had already lost  *)
(* its broker: after authentication nothing else tells the main loop.      *)
(***************************************************************************)
PartnerGoneEnds == (remote = "gone") ~> (main = "exited" \/ ~attached)

=============================================================================

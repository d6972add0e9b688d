# A TLA+ verification of rtc2tcp

rtc2tcp exposes one TCP service through WebRTC data channels. Two peer
processes, `expose` (next to the service) and `connect` (next to the clients),
register at a broker under a common rendezvous token. The broker pairs them and
relays SDP and ICE; the peers then authenticate each other over a control
channel with a shared pairing secret (CPACE) and open one data channel per TCP
connection.

## Inventory

| part | state | operations | hard behaviour |
| --- | --- | --- | --- |
| Rendezvous broker, `internal/rendezvous/broker.go` | the maps `waiting`, `activeKey`, `sessions` under one mutex; a write mutex per peer | register, tryPair, relaySignal, unregisterPeer, janitor sweep, Shutdown | one handler per socket, two delivery goroutines per pairing, the janitor; every write happens after the lock is released |
| Peer session, `internal/webrtc/session.go`, `state.go` | session state, fingerprints, queued candidates, `authStarted`, the auth result, `closeOnce` | offer, answer, candidates, control channel, payload channels, fail, Close | four goroutines of pion and the main loop; state and result are under different locks |
| Authenticator, `internal/auth/auth.go` | `INIT`, `SENT_HELLO`, `SENT_ACCEPT`, `SENT_CONFIRM` (never entered), `SUCCEEDED`, `FAILED`; the peer's share | Bind, Start, Step | frames in any order, ends that disagree |
| Peer main loop, `cmd/rtc2tcp-peer/main.go` | session, listener, broker channel | one `select` over the auth result, the listener, the broker, the context | late results, loss of the broker after authentication |
| Stream set-up, `cmd/rtc2tcp-peer/main.go` | one data channel and one TCP connection | dial, ready byte, SOCKS5 reply, Bridge | handlers registered too late |
| TCP bridge, `internal/tunnel/bridge.go` | send queue, drain signal, close-once | copy both ways | lost wake-ups, close from three sides |
| Signaling client, `internal/signaling/client.go` | socket, bounded event queue | read loop, two ping loops, Close | a full queue when the socket dies |
| Rate limiter, `internal/rendezvous/ratelimit.go` | a token bucket per address | Allow, Cleanup | clean-up that refunds tokens |
| Client address, `internal/rendezvous/proxy.go` | none | clientIP | trust of the forwarded-for chain |
| SOCKS5, configuration, logging, banner, terminal | none or sequential | parsing, formatting | none that needs a model |

How they interact: each peer's main loop talks to its broker handler over a
WebSocket. A handler writes to its own peer and, for `signal` and `peer-left`,
to the partner's socket. The main loop calls into the session; pion calls back
into it from its own goroutines; the listener opens payload channels once the
main loop has seen the authentication succeed.

What makes each part correct:

* broker: a token is free, waited on, or held by one expose and one connect
  peer; every entry has an owner that removes it; what a peer is told is in
  order, once, and only about its own session; a dead connection frees its token;
* session: authentication is mutual and precedes every payload channel; state
  and result do not contradict each other; agreeing ends succeed, disagreeing
  ends fail, and a failure reaches the other side;
* bridge: a bounded send queue, a paused reader that always resumes or ends,
  every byte passed on once, both sides closed together;
* stream set-up: success is reported only after the dial it stands for, a stream may
  lose its start but has no holes, a client is answered or disconnected, and
  the end of one side reaches the other;
* peer process and signaling client: every event of the broker reaches the main
  loop once and in order, a lost socket is noticed, a process whose partner is
  gone ends, and one that returns leaves no goroutine behind;
* admission: a request is charged to the client that sent it when the proxies in
  front of the broker are set up as documented, and a client gets its
  burst and rate, no more and no less.

`PROJECT.json` lists the hazards, each at its line, with the properties that
would catch it going wrong.

## Modules

| module | models |
| --- | --- |
| `Rendezvous` | the promise of the broker about a token: a slot per token, nothing of maps, sockets or messages |
| `Broker` | the broker; refines `Rendezvous` |
| `BrokerProofs` | theorems about `Broker` |
| `BrokerRefinement` | the proof that `Broker` implements `Rendezvous` |
| `BrokerLogProofs` | theorems about what `Broker` writes to its peers |
| `MCBroker` | instances of `Broker` |
| `Session` | both ends of one session: session, state machine, authenticator, the main loop up to the first payload channel |
| `SessionProofs` | theorems about `Session` |
| `MCSession` | instances of `Session`: the scenarios, with the views the two ends may have |
| `Stream` | the set-up of one stream at both ends, plain and SOCKS5, up to the bridges |
| `StreamProofs` | theorems about `Stream` |
| `MCStream` | instances of `Stream` |
| `PeerProcess` | one process: `runPeer`, the signaling client with its workers, the deferred calls; broker, session and remote process as the other modules leave them |
| `PeerProcessProofs` | theorems about `PeerProcess` |
| `MCPeerProcess` | instances of `PeerProcess` |
| `ClientIP` | `clientIP` as a function, and how a request gets its headers |
| `Admission` | the rate limiter in front of the broker and its sweep; uses `ClientIP` |
| `AdmissionProofs` | theorems about `ClientIP` and `Admission` |
| `MCAdmission` | instances of `Admission`: the broker's proxy options |
| `Bridge` | both ends of one stream: reader, callbacks, closeAll |
| `BridgeProofs` | theorems about `Bridge` |
| `MCBridge` | instances of `Bridge` |

### Broker

A step is what happens under one hold of `b.mu`, one write, or one read.
`phase[c]` is the program counter of `handleWebSocket` for connection `c`, which
stands for the peer as well, since a connection registers once. `target[c]` is
the local variable that survives the unlock in `relaySignal` and
`unregisterPeer`: that the write goes to a peer looked up earlier is therefore
visible. `task[c]` is the goroutine of `tryPair` that delivers `paired` to `c`,
and may call `unregisterPeer` itself. `evict[c]` is what `evictStale` has still
to do to `c` after `collectStale` released the lock. `sock[c]` tells a working
socket from one whose writes fail (`mute`: a missed write deadline is permanent
in the WebSocket library) and from a dead one. `out[c]` is everything written to
`c`, in order.

| code | actions |
| --- | --- |
| upgrade, `registerPeer` | `Connect`, `Register`, `RegisterFail` |
| acknowledgement, `tryPair` | `Ack`, `PairRefused`, `Reject`, `BecomeWaiter`, `Pair` |
| read loop, `relaySignal` | `ReadOther`, `ReadSignal`, `RelaySignal`, `RelayFailed`, `ReadError` |
| deferred `unregisterPeer` and `Close` | `Unregister`, `NotifyLeft`, `Close` |
| delivery goroutines | `DeliverPaired`, `TaskUnregister`, `TaskNotify` |
| janitor | `CollectStale`, `EvictSend`, `EvictClose`, `JanitorExit` |
| `Shutdown` | `Shutdown`, `ShutdownClose` |
| environment | `ConnLost`, `WriteStall` |

Abstractions: the clock (the janitor may find any entry too old); message
bodies; the two error codes for a message the read loop refuses are one;
sessions evicted together are told in any order, a superset of the code's; ids
are fresh among the live ones. A read also fails on a socket that works, when
the client sends no JSON or nothing before the read deadline (event `badread` of
`ReadError`); fairness only asks for the failure on a socket that is down. A failing random generator is not modelled.

`Rendezvous` is obtained with `slot[k]` read off `activeKey`, `sessions` and
`waiting`, and `gone` the peers past `tryPair` that no map holds. Every step of
the broker must be a slot step or a stutter.

### Session

Four goroutines per process are modelled: the main loop (`main`), OnOpen
(`opening`), OnMessage of the control channel (`recv`) and, at expose,
OnDataChannel (`inbound`); at connect the listener (`outbound`). `maybeSendAuth`
runs on two of them and is written once, with the caller as a parameter; each
lock it takes is a step. `failing` stands for whichever goroutines are inside
`fail()`: because the first result stays and `closeOnce` runs once, a second one
has no effect of its own. `once` is `closeOnce` with what its holder has done.

CPACE is symbolic. A *view* is all an end feeds into the key schedule: pairing
secret, session id, fingerprints, scheme. A confirmation tag is the role with
the view and the two shares, so a tag verifies iff the two ends derived the same
keys from the same transcript. That is the assumption about the cryptography;
what is checked is the control around it. Both the broker and a channel deliver
in order; different channels, and a channel's callbacks among themselves, are
not ordered.

A *scenario* says which views the ends may have, which faults may strike (the
auth deadline, a lost transport, Ctrl-C, a refused description or unsendable
signal, a local address that cannot be used) and how many candidates each side
gathers. It is chosen in `Init`, so that one run covers several of them.

The error returns are actions too. `SignalingFails` is a description that pion
refuses, as it does once the connection is closed, or that has no fingerprint.
`FlushFails` is a queued candidate that is refused after `setRemoteDescription`
has recorded the fingerprint and emptied the queue. In `FinishClose` an error of
`pc.Close` leaves the state at `CLOSING`. `SENT_CONFIRM` is a state of the
authenticator's type that no step enters, see `session_confirm` below.

### Bridge

`reader[e]` is the program counter of the reader goroutine of end `e`. The loop
condition (`CheckBuffered`), the entry into the select (`Park`) and the wake-up
(`Wake`) are separate steps, because `OnBufferedAmountLow` (`LowCallback`) may
run between any two of them; `drain[e]` is the one slot of the channel. `writer`
is `OnMessage` inside `conn.Write`. `want` says that somebody has called
`closeAll`, `closer` how far the one execution that `closeOnce` lets through has
come. pion is external: `Release` acknowledges up to `Window` chunks at once,
calls back when the queue falls to the low threshold, and does not go past what
the far side has read. The transport may fail at any time (`TransportFails`); pion
then calls OnError at each end (`OnError`). All chunks have one size.

### Stream

`front` is where the connect peer's callback or goroutine is (`runListener`,
`runSOCKS5Listener`, `handleSOCKS5Connect`), `back` where the expose peer's
goroutine is (`handleExposeStream`). Both peers have a `socks5` flag of their
own; nothing compares them, so all four combinations are checked.

The point of the module is `handler[e]`: which OnMessage callback an end has
registered. pion gives a message to the callback that is there when it arrives:
none (the message is gone, `lost` records it), the one that waits for the ready
byte and takes *any* message for it, or the bridge. Likewise only a bridge has
an OnClose callback. `reached` is the target the expose peer has dialled: the one
the label carries, which a SOCKS5 connect peer puts there, if the expose peer is
in SOCKS5 mode, and otherwise the one of its own options. `wire[e]` is what is on its way to `e`, `got[e]` what has
been written to its TCP side, replies of the SOCKS5 server included.

| code | actions |
| --- | --- |
| accept, `socks5.Handshake`, `OpenStreamChannel` | `Handshake`, `OpenStreamChannel` |
| OnOpen at connect, the ready wait, `ReplySuccess` | `OnOpen`, `AwaitReady`, `TimeoutClose`, `ConnectBridge`, `ReplySuccess` |
| OnDataChannel, OnOpen, `handleExposeStream` | `ChannelArrives`, `ParseLabel`, `Dial`, `SendReady`, `ExposeBridge` |
| callbacks, bridge | `OnMessage`, `OnClose`, `ReadChunk`, `ReadEnds` |
| environment | `TransportFails` |

Connect's OnOpen runs after the channel has arrived at expose: a channel is open
once its opening has been acknowledged. A bridge here only reads, writes and
closes; how it pauses is in `Bridge`.

### PeerProcess

`main` is where `runPeer` is: in a write that needs the client's write mutex
(`register`, `offer`, `answer`), in the `select`, or in its deferred calls. Each
case of the select is an action; `HandleEvent` is the broker's case with the
switch over the message type. The signaling client has `readLoop` (`reader`,
`held`), ticker loops (`writer`), the bounded channel `events` with its close
(`evClosed`), `done`, and `writeMu` (`mu`).

| code | actions |
| --- | --- |
| `Register`, offer, answer | `Lock`, `Sent` |
| the select | `Interrupted`, `AuthResult`, `ListenerResult`, `EventsClosed`, `HandleEvent` |
| deferred `session.Close`, `client.Close` | `CloseSession`, `CloseClient`, `CloseWait` |
| `readLoop`, `replyPong` | `ReadMessage`, `PongWritten`, `Put`, `ReadEnds` |
| ticker loops | `Tick`, `Lock`, `Written`, `TickerDone` |
| session | `SessionReady`, `AuthCompletes`, `AuthTimeout`, `SessionFails` |
| broker | `BrokerPairs`, `DeliverPaired`, `RemoteSignal`, `BrokerPing`, `PeerLeft`, `Expire` |
| remote process, network | `RemoteGone`, `RemoteDetached`, `SocketCut` |

The broker does what `Broker` lets it do, seen from one socket: `paired` comes
from another goroutine than the signals, there is one farewell. `SocketCut` may
take the last messages with it. `told` and `seen` number the events sent (and
not lost with the socket) and taken. The session is reduced to what the main
loop can see of it. The session's OnSignal callback also takes the write mutex;
it only logs an error and is left out. The read deadline is part of `SocketCut`.

### Admission

Time is counted in ticks, a bucket's tokens in ticks of credit (`Period` per
token). `handleWebSocket` and the janitor read the clock *before* they have the
limiter's lock, so a stamp may be applied up to `MaxSkew` ticks late and after a
younger one. `golang.org/x/time/rate` is external and modelled by `AllowN`: no
credit for a stamp before the last one, the last one set back by an older
admission, nothing recorded for a refusal.

Two ledgers that the limiter does not see say what a client has really used:
`spent` charges `Period` for each admission, `lenient` forgives the skew; both
are drained by the true clock and never forget. Upper and lower bound on what a
client gets are stated against them. `LimiterAssumption` asks for
`IdleTTL >= Full + MaxSkew`: an idle bucket is full again before it is forgotten.
In the code `limiterIdleTTL` is one hour and a bucket fills in burst / rate
minutes, 20 s with the defaults; options with a burst above 60 times the rate per
minute would break it.

`clientIP` is checked where it is used: `KeyIsClient` compares the key with the
client that sent the request, for every header it may have sent itself and every
path through the proxies of the configuration. `Request` builds the headers the
way docs/reverse-proxy.md sets proxies up: each proxy appends the address it sees
to X-Forwarded-For (nginx's `$proxy_add_x_forwarded_for`) and overwrites
X-Real-IP with it, the edge of a network sets CF-Connecting-IP and those behind
it pass it on. (The Caddy example there replaces X-Forwarded-For by the address
it sees; it is a single proxy, and then the two come to the same.) `Configs`
holds the broker's options together with the number of proxies in front of it. X-Real-IP
names the client behind one proxy only, which `ConfigsAssumption` demands; what
`clientIP` returns behind more, the address of the proxy before the last, is part
of the theorem `KeyOfRequest`. With CF-Connecting-IP only the last proxy has to
be trusted, with X-Forwarded-For all of them (`Known`).

## Runs

| run | instance | shows |
| --- | --- | --- |
| `broker_three` | 3 connections, 2 tokens, 1 message, relayed or refused, a ping or a failing read | `NoCrossTalk`; the broker implements `Rendezvous` |
| `broker_live` | 2 connections, 1 token, 2 messages of one client, stalls, expiry, shutdown, fair | `MapsAgree`, `NoOrphanedEntry`, `SignalsInOrder`, `OneFarewell`, `PairedOnce`; a lost peer frees its token, the partner is told |
| `broker_order` | 2 connections, expiry | **violated**: `paired` precedes every signal |
| `session_handshake` | 5 views without faults; 1 view with timeouts, lost transports, signaling and listener failures, and with interrupts; 1 view with a candidate on each side, with and without timeouts; 1 payload channel | `MutualAuth`, `CandidatesKept`, `HonestNeverFails`, `StateMatchesResult` |
| `session_live` | each view against the first without faults; 1 view with interrupts; fair | agreeing ends become ready, disagreeing ends fail, a failure reaches the other end |
| `session_refusal` | 1 view, 1 payload channel, no faults | **violated**: an honest session is not refused |
| `bridge` | thresholds 1 and 2, window 2, 4 chunks one way, fair | `Backpressure`, `NoLostWakeup`, `NothingLost`, `ReaderResumes`, `ClosedTogether` |
| `stream` | all modes, greeting and waiting targets, 2 chunks each way, fair | `SuccessMeansDialled`, `OnlyTheStartIsLost`, `ReplyThenAnswer`, `Answered`, `EndsTogether` |
| `stream_drop` | 1 chunk each way | **violated**: nothing is dropped at expose |
| `peer` | both modes, one ticker, a queue of 1, 1 signal, 1 ping, fair | `EventsInOrder`, `NothingLeftBehind`, `LossNoticed`, `ReturnEnds`, `PartnerGoneEnds` |
| `peer_detach` | both modes, no ticker | **violated**: a broker message does not end a working tunnel |
| `admission` | 2 clients, 2 proxies, 2 handlers, 4 configurations, burst 2, period 2, skew 1, idle after 5, clock to 7, up to 2 proxies and 2 made-up header entries a request | `KeyIsClient`, `RateBound`, `RefusedOnlyOverRate` |

The passing runs also check the type invariant of their module (`broker_live`
does so for `Broker`, `session_handshake` for `Session`).

Bounds. Two connections are enough for every race between the handlers, the
delivery goroutines, the janitor and Shutdown over one session (`broker_live`);
the third adds a competitor for the token and a successor on it, the second
token a place where cross-talk could go (`broker_three`). A read that fails on
a working socket is part of `broker_three` only: in `broker_live` a handler
leaves with a working socket after a failed relay. The clients of the runs send
a signal only once they are told `paired` (`EagerClients`), as the peers of the
repository do; the theorems hold for clients that do not wait too. Expiry with
three connections is left to the refinement theorem, which covers any number.
Two messages of one client can be reordered; more clients need not talk, since
handlers read independently of each other. One session id suffices, since two
sessions need four connections. `SYMMETRY` (over connections, tokens, clients
and handlers, all interchangeable) is used in safety runs only. In `Session`
one candidate per side reaches both ways it can take, before and after the
description; one payload channel reaches both gates, and the theorems hold for
any number of either. Views differ in one component at a time: only equality of
views is ever tested, except for the scheme, which is compared by itself. In
`Bridge` three chunks make the reader pause and the fourth shows that it
resumes; the two directions share only `closeAll`, so one sends, while the
theorems hold for both. In `Stream` two chunks tell a lost start from a hole.
In `PeerProcess` a queue of one is full as soon as the main loop is busy, so
that readLoop blocks with the second event, and the ping puts a write of
readLoop between two events; the two ticker loops do the same, one is enough.
In `Admission` the clock runs past the time at which an idle key is forgotten
(6) and a client can use its burst before and after.

Fairness. `broker_live` assumes that a runnable handler, delivery goroutine or
eviction list makes progress, a handler that waits in its read only once the
socket is down: Go schedules runnable goroutines, and every write
has a deadline (`writeTimeout`). Nothing is assumed of clients, of the network
or of the janitor's clock. `session_live` assumes the same of the main loop and
the callbacks, that pion opens the channel and delivers on a transport that is
up, that the broker delivers, and that a closed connection is noticed. `bridge`
assumes that the goroutines and callbacks run, that pion moves data while the
transport is up and the far side reads and reports a failed transport, and that
a TCP client takes what it is sent; a client need not send anything. `stream`
assumes that goroutines, callbacks, the 15 s timer and the dial (it has a
timeout) end, nothing of the TCP sides, of the SOCKS5 request or of the
transport. `peer` assumes weak fairness of the main loop, readLoop and a write
that has the mutex (it has a deadline), strong fairness of `Lock`, because Go's
mutex hands over to a waiter that has waited too long, and of the broker that it
reports a lost partner, which `PartnerIsTold` shows. Timeouts, tickers, faults,
interrupts and new streams are never assumed.

The deadlock check is on for `Broker`, `Session` and `Bridge`, whose steps
`Finished` and `Settled` mark the states in which everything is over. It is off
for `Stream`, `PeerProcess` and `Admission`: a stream and a process end, and the
clock is bounded. There `EndsTogether`, `ReturnEnds` and `LossNoticed` say what
must not get stuck.

Each property has a faulty variant of the code (a definition marked so in the
module, before the one it would replace) under which its run fails.

### What the violated runs show

* `broker_order`: `tryPair` starts one goroutine per peer to deliver `paired`
  and nothing orders them. The connect peer can be told, send its offer, and
  have it relayed before the expose peer's `paired` is written. The expose
  process then ends with "received signal before pairing". PROTOCOL.md lists
  `paired` as step 5 and signals as step 6.
* `session_refusal`: connect is authenticated once it has *sent* its confirm. A
  payload channel it opens then can reach expose's OnDataChannel before expose's
  OnMessage has processed the confirm; expose takes it for a violation and fails
  the session with "payload datachannel opened before authentication".
* `stream_drop`: in plain mode connect bridges as soon as the channel is open,
  while expose installs its handler only after the dial. What the client sends
  meanwhile is dropped, and `OnlyTheStartIsLost` shows that the stream goes on
  without it. SOCKS5 mode has the ready byte against this; its comment describes
  the very loss.
* `peer_detach`: a comment in `runPeer` says that a lost broker socket should
  not tear down a working tunnel. It does at the other peer: the broker answers
  the loss with `peer-left`, and after the session TTL with `session-expired`,
  both fatal in every state.

### Other comments that the code does not keep

Six more claims of comments and of PROTOCOL.md are stated in `Stream` and
`Session` and are not kept. They say less about the system than the runs do, so
each has only a configuration to see its counterexample with
(`tlc -config stream_silent.cfg MCStream`, `tlc -config session_confirm.cfg
MCSession`). The runs check what does hold in their place.

* `stream_ready` (`ReadyProtectsStart`, main.go:486-488): the ready byte makes
  the loss unlikely in SOCKS5 mode, not impossible. `handleExposeStream` sends
  it and then calls `Bridge`, and between the two the reply can reach the
  client and its first bytes can come back.
* `stream_target` (`SuccessMeansAsked`, socks5.go:104-105): docs/flags.md says
  that both peers must use `--socks5`, and nothing checks it. A plain expose
  peer dials its own target; what that one says first is taken for the ready
  byte, and the client hears success for a target nobody dialled.
  `SuccessMeansDialled` states what does hold in each mode.
* `stream_silent` (`FailureIsReplied`, socks5.go:114-116): the expose peer
  reports a failed dial by closing the channel. Connect has no OnClose callback
  yet and comes upon it with its timer, which closes the client's connection
  without `ReplyFailure`, although that one's comment asks for it always.
  `Answered` is what is left: the client is disconnected in the end.
* `stream_reply` (`ReplyComesFirst`, socks5.go:51-52 and 104-106): connect
  starts its bridge before it writes the success reply, so that no byte of the
  client finds the wrong handler. The comments in `socks5` ask for the opposite
  order, because a target that greets can now be heard first. `ReplyThenAnswer`
  shows that a target that waits for its client cannot.
* `stream_close` (`BridgeClosesTogether`, bridge.go:27-28): `Bridge` promises
  to close both sides together. A channel that closes during the dial, or while
  connect waits for the ready byte, calls no callback (`MissedClose`); the
  bridge that is then installed holds its TCP connection until that side speaks
  or ends. `EndsTogether` excuses this case.
* `session_confirm` (`SucceededAfterSend`, PROTOCOL.md:189-193 and 263):
  PROTOCOL.md draws the initiator as `SENT_CONFIRM` until the confirm is sent.
  `stepInitiator` goes to `SUCCEEDED` at once, before the session sends it. No
  harm follows: `BecomeAuthenticated` comes after the send, and
  `StateMatchesResult` holds when the send fails.

An observation without a run: PROTOCOL.md asks that the session fail before the
first auth message when the broker's `initiator` flag and the mode disagree.
Nothing compares them, and the code is safe only because the broker gives the
flag to connect and to no other, which `PairedOnce` states and
`PairedOnceAlways` proves.

## Proofs

`BrokerProofs` proves, for any sets of connections, tokens and session ids, any
bounds and any selection of events, from `NoneAssumption`, `BoundAssumption` and
`EventsAssumption`:

* `TypeCorrect`: `Spec => []TypeOK`, by one lemma per group of actions. A
  registered peer has a key and a mode (`Known`), without which the maps would
  be indexed outside their domain.
* `MapsAgreeAlways`: `Spec => []MapsAgree`. `MapsAgree` is not inductive: it says
  nothing about who may change an entry. `MapsInv` adds `MapsCore`, its content
  entry by entry (a waiter waits on its own key, an active key and its session
  point at each other, the two members differ and registered that key), and
  `Owned`, by which the holder of an entry is past `tryPair` and has not yet
  unregistered. `Owned` is what makes `BecomeWaiter` and `Pair` safe: a handler
  about to pair is in no map.
* `NoOrphanedEntryAlways`: from `Owned`. `unregisterPeer` leaves nothing of its
  peer behind, whether the handler or a delivery goroutine runs it.
* `NoCrossTalkAlways`: two more invariants on top. A handler in `relay` is linked
  with its target (same key, other mode), and every logged signal is from a
  linked peer. Links never change, because `mode` and `key` are written once,
  and so a stale lookup is harmless.

`BrokerRefinement` proves, from the same assumptions,
`BrokerImplementsRendezvous`: `Spec => ImplementsRendezvous`. On top of `MapsInv`
it needs only `Fresh`: a peer that has not registered has no mode, so that
registering announces it for the first time. `HoldersOn` and `InMapsOn` read the
members of a slot and the peers in some slot off the maps. There is one lemma per slot
step, each about any broker step that changes the maps in that way
(`AnnounceStep`, `WaitStep`, `JoinStep`, `RefuseStep`, `LeaveStep`,
`UnregisterStep`, and `StutterStep` for the rest), and `ClientRefines`,
`ServerRefines`, `CollectRefines` sort the broker's actions under them. The hard
cases are `unregisterPeer`, which may find its peer waiting, in a session or
nowhere, and a sweep, which gives up any number of slots in one step.

`BridgeProofs` proves, for any thresholds with `Low <= High`, any window, number
of chunks and senders (`ThresholdAssumption`, `WindowAssumption`,
`SendersAssumption`):

* `TypeCorrect`;
* `BackpressureAlways`: `Backpressure` alone is not inductive, a queue one above
  the threshold could be sent to again. `QueueBound` adds `MaySend`: a reader
  that will send before it looks at the queue again has found it at or below the
  high threshold;
* `NoLostWakeupAlways`: inductive as it stands, because a reader pauses only
  above `High >= Low`, so that the fall which calls back is still to come;
* `NothingLostAlways`: inductive as it stands; each step hands a chunk on or
  calls `closeAll`.

`BrokerLogProofs` proves, on top of `MapsInv` and from the same assumptions as
`BrokerProofs`, what the broker writes to a peer. None of the three properties is
inductive, since each speaks only of what has been written:

* `PairedOnceAlways`: a peer that `tryPair` may still put into a session has no
  delivery goroutine (`NoTaskUnpaired`), and one that has been told is past its
  goroutine's write, with the initiator flag its mode gives it
  (`PairedAfterSend`). The members of a session have different modes, so the
  connect peer offers, and it alone.
* `OneFarewellAlways`: everyone who is *going to* write a farewell is counted
  with those who have (`OneEnding`), and there is nobody while the peer is in
  play (`NoEndingInPlay`): whoever takes the session out of the maps is the only
  one to tell.
* `SignalsInOrderAlways`: a peer hears one partner in its life, sessions, lookups
  and written signals taken together (`OnePartner`), and a signal that a handler
  still holds has a higher number than all that were written (`Numbered`).

`SessionProofs` holds for any set of views, any scenarios and any number of
candidates and payload channels (`ViewsAssumption`, `ScenariosAssumption`,
`BoundsAssumption`, `InitiatorAssumption`):

* `TypeCorrect` and `CandidatesKeptAlways` by `BaseInv`: a closed connection may
  drop candidates, so `Kept` keeps an inequality for it; a frame is there while
  the callback looks at it (`Reading`), and payload channels are counted against
  those opened (`Room`).
* `StateMatchesResultAlways` by `ResultInv`: `Promised` says what a goroutine
  inside `fail` or `Close` has already done to the result when it comes to the
  state, `Checked` what the two ends of a payload channel have checked.
* `MutualAuthAlways` by `AuthInv`: every frame on the control channel, whoever
  still has to read it, is backed by its sender (`Letters`: an accept carries
  expose's view, a confirm comes from a connect that has succeeded), and a
  result follows `SUCCEEDED` (`Proof`).
* `HonestNeverFailsAlways`, with the hypothesis `Initiator = "connect"`: the
  broker gives that flag to the connect peer and to no other
  (`broker.go:455-472`, and `PairedOnce` for what is written). With expose as the
  initiator the hello could arrive before its receiver is in `AUTH_PENDING`. The
  invariant is `HonestInv`: the answer is sent after expose has entered
  `AUTH_PENDING` (`AnswerFirst`), one caller of `maybeSendAuth` sends the hello
  (`OneHello`), and the handshake is one frame at a time (`Turn`).

`AdmissionProofs` holds for any clients, proxies, options, handlers, rate, burst,
skew and idle time (`AddressAssumption`, `LimiterAssumption`,
`AdmissionBoundsAssumption`, `ConfigsAssumption`: only proxies are trusted, a
broker that trusts any has a header, since it takes X-Forwarded-For when none is
given (`broker.go:171-173`), and X-Real-IP is for one proxy):

* `KeyOfRequest`, about the function alone: what `clientIP` returns for a request
  that came through any number of proxies, for each header. In the list there are
  only trusted proxies and entries that do not parse behind the address the
  client really has. With X-Real-IP and several proxies the result is the proxy
  before the last; in every other case it is the client;
* `KeyIsClientAlways` from it, for the configurations `ConfigsAssumption` allows;
* `RateBoundAlways` and the action property `RefusedOnlyOverRateAlways` by
  `LedgerInv`: a ledger and the credit its bucket will have by the true clock
  make up one burst, at most when the skew is forgiven (`AtMost`), at least when
  it is not (`AtLeast`). `Fresh` and `StampsOK` bound how late a stamp is and how
  far back `lastSeen` may be set; with `IdleTTL >= Full + MaxSkew` a bucket that
  is forgotten was full.

`PeerProcessProofs` holds for any queue size, number of signals and pings and any
of the two ticker loops (`QueueAssumption`, `PeerBoundsAssumption`,
`TickersAssumption`). The inductive invariant `PeerInv` is `Control` (`done`, the
socket and the deferred calls go together, who has the mutex is about to write,
the session is closed before the client, no worker starts again), `Letters` (the
bounds of queue and numbers), `Holding` (readLoop has a message exactly while it
waits for room), `Ordered` (`EventsInOrder` with the number of the last event
of each place) and `NoPing` (readLoop keeps the pings to itself). `SocketCut` takes any tail of what is on its way with it; that
the numbers of the rest still fit needs a counting argument about sequences.
`TypeCorrect`, `EventsInOrderAlways` and `NothingLeftBehindAlways` follow.

`StreamProofs` holds for any number of chunks (`ChunksAssumption`). `StreamInv`
has, besides the types,

* `Places`, where each end is and what it then has, `Reached`, which target has
  been dialled by then (`LabelOK`: a SOCKS5 expose peer is past its label only
  with a target), and `NotYet`, that before the
  ready byte nothing is on its way to connect and connect has no bridge in SOCKS5
  mode; from them `SuccessMeansDialledAlways`;
* `Wires`, that the ready byte travels alone, first, and only to an end that still
  waits for it, and `Order`, which is `OnlyTheStartIsLost` with the number of
  chunks read at the far end while its channel is open; from them
  `OnlyTheStartIsLostAlways`. A reply, or a ready byte that is taken, may stand
  anywhere between chunks (`MuteInside`);
* `ReplyInv`, that in the mode of `ReplyThenAnswer` nobody speaks out of turn
  (`Patient`) and that what is on its way continues what was written
  (`Replied`); from it `ReplyThenAnswerAlways`.

With these every safety invariant and action property that a passing run checks
is also a theorem. The inductive invariants were model-checked on the runs'
instances before they were proved.

Only model-checked: liveness (`LostPeerFreesSlot`, `PartnerIsTold`,
`HandshakeCompletes`, `DisagreementEnds`, `FailureSpreads`, `ReaderResumes`,
`ClosedTogether`, `Answered`, `EndsTogether`, `LossNoticed`, `ReturnEnds`,
`PartnerGoneEnds`), since the prover does not handle fairness and `ENABLED`, and
the violations, which are counterexamples. A few leaves name the backend and
its time limit (`SMTT(60)`, `ZenonT(60)`), because the default limit is close to
what they need.

## Not modelled

* Pure or sequential code, better served by unit tests: the origin check, SDP
  and token parsing, `ParseTrustedProxies`, `normalizeBrokerURL`, flags and
  connection strings, the byte parser inside `socks5.Handshake` (its outcomes
  are in `Stream`), logging, banner and terminal.
* Keepalive timing: a missed keepalive is part of `ConnLost` and `SocketCut`.
* That Shutdown leaves no socket open: a peer between `registerPeer` and
  `tryPair` is in no map when Shutdown looks. Which connections are closed is
  modelled; that all end is not a goal of the code, since the process exits.
* Cryptography is symbolic, so is pion. Several streams at once share nothing
  but the session, and one is modelled.

## Plan

1. Done: every module above; every safety property of a passing run has its
   theorem.
2. Still worth having: a proof that the number of waiting and paired peers never
   exceeds two per token as a statement about `Rendezvous` alone, and
   single-step facts the liveness properties rest on (a helpful step stays
   possible until it is taken), as action properties.

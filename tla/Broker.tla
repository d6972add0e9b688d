------------------------------- MODULE Broker -------------------------------
(***************************************************************************)
(* The rendezvous broker of internal/rendezvous/broker.go: one handler     *)
(* goroutine per WebSocket, two delivery goroutines per pairing, and the   *)
(* janitor, over three maps guarded by one mutex.                          *)
(*                                                                         *)
(* A step is what runs under one hold of b.mu, or one b.send, or one read  *)
(* of a socket: those are the points where goroutines interleave.  A       *)
(* connection is used once and stands for the peer that registered on it   *)
(* (randomID gives every peer an id of its own).  Session ids are fresh    *)
(* among the live sessions.  The clock is abstracted: the janitor may find *)
(* any waiter or session older than its TTL.  Message bodies are left out. *)
(* The rate limiter in front of the handler is modelled elsewhere.         *)
(***************************************************************************)
EXTENDS Naturals, Sequences, FiniteSets

CONSTANTS
  Conns,         \* the WebSocket connections that may be made
  Keys,          \* rendezvous tokens
  Sids,          \* session ids
  None,          \* no connection, no session, nothing registered
  MaxMsgs,       \* bound: messages a client sends after registering
  MaxTalkers,    \* bound: clients that send any
  EagerClients,  \* TRUE: a client may signal before it is told `paired'
  Events         \* which of the environment's events an instance has

Modes    == {"expose", "connect"}
Sessions == [key : Keys, first : Conns, second : Conns]

ASSUME NoneAssumption ==
  None \notin Conns \cup Keys \cup Sids \cup Modes \cup Sessions
ASSUME BoundAssumption == MaxMsgs \in Nat /\ MaxTalkers \in Nat /\ EagerClients \in BOOLEAN
ASSUME EventsAssumption ==
  Events \subseteq {"stall", "chatter", "badread", "expiry", "shutdown"}

VARIABLES
  phase,      \* where the handler of a connection is
  sock,       \* "up"; "mute": writes fail; "down": reads fail as well
  mode,       \* the mode the peer registered
  key,        \* the rendezvous token it registered
  target,     \* the handler's local `target': whom it is about to write to
  task,       \* the goroutine that delivers `paired' to the peer
  taskTarget, \* that goroutine's local `target' in unregisterPeer
  evict,      \* what the janitor still has to do to the peer
  waiting,    \* b.waiting
  activeKey,  \* b.activeKey
  sessions,   \* b.sessions
  stop,       \* Shutdown: "no", "asked", "closed"
  janitor,    \* is runJanitor still looping
  sent,       \* messages the handler has read from the client
  out         \* what the broker wrote to the client, in order

maps  == <<waiting, activeKey, sessions>>
local == <<mode, key, sent>>
jobs  == <<task, taskTarget, evict>>
halt  == <<stop, janitor>>
vars  == <<phase, sock, target, local, jobs, maps, halt, out>>

Phases == {"idle", "register", "ack", "pair", "reject", "read", "relay",
           "relayfail", "leaving", "notify", "close", "done"}

Registered    == [type |-> "registered"]
Paired(i)     == [type |-> "paired", initiator |-> i]
Signal(c, n)  == [type |-> "signal", from |-> c, n |-> n]
PeerLeft      == [type |-> "peer-left"]
Pong          == [type |-> "pong"]
BrokerError(e) == [type |-> "error", code |-> e]

ErrorCodes == {"register-failed", "pairing-failed", "relay-failed",
               "invalid-message", "waiter-expired", "session-expired"}

Message == {Registered, PeerLeft, Pong}
           \cup {Paired(i) : i \in BOOLEAN}
           \cup {Signal(c, n) : c \in Conns, n \in 0..MaxMsgs}
           \cup {BrokerError(e) : e \in ErrorCodes}

TypeOK ==
  /\ phase \in [Conns -> Phases]
  /\ sock \in [Conns -> {"up", "mute", "down"}]
  /\ mode \in [Conns -> Modes \cup {None}]
  /\ key \in [Conns -> Keys \cup {None}]
  /\ target \in [Conns -> Conns \cup {None}]
  /\ task \in [Conns -> {"none", "send", "unregister", "notify"}]
  /\ taskTarget \in [Conns -> Conns \cup {None}]
  /\ evict \in [Conns -> {"none", "waiter-expired", "session-expired", "close"}]
  /\ waiting \in [Keys -> Conns \cup {None}]
  /\ activeKey \in [Keys -> Sids \cup {None}]
  /\ sessions \in [Sids -> Sessions \cup {None}]
  /\ stop \in {"no", "asked", "closed"}
  /\ janitor \in BOOLEAN
  /\ sent \in [Conns -> 0..MaxMsgs]
  /\ out \in [Conns -> Seq(Message)]

Init ==
  /\ phase = [c \in Conns |-> "idle"]
  /\ sock = [c \in Conns |-> "down"]
  /\ mode = [c \in Conns |-> None]
  /\ key = [c \in Conns |-> None]
  /\ target = [c \in Conns |-> None]
  /\ task = [c \in Conns |-> "none"]
  /\ taskTarget = [c \in Conns |-> None]
  /\ evict = [c \in Conns |-> "none"]
  /\ waiting = [k \in Keys |-> None]
  /\ activeKey = [k \in Keys |-> None]
  /\ sessions = [s \in Sids |-> None]
  /\ stop = "no"
  /\ janitor = TRUE
  /\ sent = [c \in Conns |-> 0]
  /\ out = [c \in Conns |-> <<>>]

-----------------------------------------------------------------------------
(* Sending.  A write is serialised by writeMu; it fails on a socket that is *)
(* down or whose earlier write missed its deadline.                         *)

CanSend(c) == sock[c] = "up"

\* b.send(c, m), its error returned as ~CanSend(c)
Send(c, m) ==
  out' = IF CanSend(c) THEN [out EXCEPT ![c] = Append(@, m)] ELSE out

Goto(c, p) == phase' = [phase EXCEPT ![c] = p]

WasSent(c, type) == \E i \in DOMAIN out[c] : out[c][i].type = type

-----------------------------------------------------------------------------
(* The maps. *)

\* the loop of findSessionPeerLocked: the sessions c is a member of
SessionsOf(c) ==
  {s \in Sids : /\ sessions[s] # None
                /\ c \in {sessions[s].first, sessions[s].second}}

Partner(s, c) ==
  IF sessions[s].first = c THEN sessions[s].second ELSE sessions[s].first

\* faulty variant: the key of the ended session stays taken
UnregisterKeepsKey(c, t) ==
  \/ /\ waiting[key[c]] = c
     /\ waiting' = [waiting EXCEPT ![key[c]] = None]
     /\ t = None
     /\ UNCHANGED <<activeKey, sessions>>
  \/ /\ waiting[key[c]] # c
     /\ SessionsOf(c) = {}
     /\ t = None
     /\ UNCHANGED maps
  \/ /\ waiting[key[c]] # c
     /\ \E s \in SessionsOf(c) :
          /\ t = Partner(s, c)
          /\ sessions' = [sessions EXCEPT ![s] = None]
     /\ UNCHANGED <<waiting, activeKey>>

\* faulty variant: only a waiter is removed, a session is left behind
UnregisterWaiterOnly(c, t) ==
  /\ t = None
  /\ waiting' = [waiting EXCEPT ![key[c]] = IF @ = c THEN None ELSE @]
  /\ UNCHANGED <<activeKey, sessions>>

\* unregisterPeer under b.mu; t is the peer it will notify, None if none
UnregisterPeer(c, t) ==
  \/ /\ waiting[key[c]] = c
     /\ waiting' = [waiting EXCEPT ![key[c]] = None]
     /\ t = None
     /\ UNCHANGED <<activeKey, sessions>>
  \/ /\ waiting[key[c]] # c
     /\ SessionsOf(c) = {}
     /\ t = None
     /\ UNCHANGED maps
  \/ /\ waiting[key[c]] # c
     /\ \E s \in SessionsOf(c) :
          /\ t = Partner(s, c)
          /\ sessions' = [sessions EXCEPT ![s] = None]
          /\ activeKey' = [activeKey EXCEPT ![sessions[s].key] = None]
     /\ UNCHANGED waiting

-----------------------------------------------------------------------------
(* The network. *)

Connect(c) ==
  /\ phase[c] = "idle" /\ stop = "no"
  /\ sock' = [sock EXCEPT ![c] = "up"]
  /\ Goto(c, "register")
  /\ UNCHANGED <<target, local, jobs, maps, halt, out>>

\* a client or its network goes away, or misses the pong deadline
ConnLost(c) ==
  /\ sock[c] # "down"
  /\ sock' = [sock EXCEPT ![c] = "down"]
  /\ UNCHANGED <<phase, target, local, jobs, maps, halt, out>>

\* the client stops draining: the next write to it misses its deadline
WriteStall(c) ==
  /\ "stall" \in Events
  /\ sock[c] = "up"
  /\ sock' = [sock EXCEPT ![c] = "mute"]
  /\ UNCHANGED <<phase, target, local, jobs, maps, halt, out>>

-----------------------------------------------------------------------------
(* The handler of one connection, handleWebSocket. *)

Register(c, m, k) ==
  /\ phase[c] = "register" /\ sock[c] # "down"
  /\ mode' = [mode EXCEPT ![c] = m]
  /\ key' = [key EXCEPT ![c] = k]
  /\ Goto(c, "ack")
  /\ UNCHANGED <<sock, target, sent, jobs, maps, halt, out>>

\* a bad first message, no message in time, or a dead socket; writeAndClose
\* leaves the socket open when its write fails
RegisterFail(c) ==
  /\ phase[c] = "register"
  /\ Send(c, BrokerError("register-failed"))
  /\ sock' = IF CanSend(c) THEN [sock EXCEPT ![c] = "down"] ELSE sock
  /\ Goto(c, "done")
  /\ UNCHANGED <<target, local, jobs, maps, halt>>

Ack(c) ==
  /\ phase[c] = "ack"
  /\ Send(c, Registered)
  /\ Goto(c, IF CanSend(c) THEN "pair" ELSE "leaving")
  /\ UNCHANGED <<sock, target, local, jobs, maps, halt>>

\* tryPair refuses: the key is busy, or its waiter has the same mode
PairRefused(c) ==
  /\ phase[c] = "pair"
  /\ \/ activeKey[key[c]] # None
     \/ waiting[key[c]] # None /\ mode[waiting[key[c]]] = mode[c]
  /\ Goto(c, "reject")
  /\ UNCHANGED <<sock, target, local, jobs, maps, halt, out>>

\* faulty variant: tryPair without the look at activeKey
WaitOnBusyKey(c) ==
  /\ phase[c] = "pair"
  /\ waiting[key[c]] = None
  /\ waiting' = [waiting EXCEPT ![key[c]] = c]
  /\ Goto(c, "read")
  /\ UNCHANGED <<sock, target, local, jobs, activeKey, sessions, halt, out>>

\* tryPair: nobody waits on the key, so the peer does
BecomeWaiter(c) ==
  /\ phase[c] = "pair"
  /\ activeKey[key[c]] = None
  /\ waiting[key[c]] = None
  /\ waiting' = [waiting EXCEPT ![key[c]] = c]
  /\ Goto(c, "read")
  /\ UNCHANGED <<sock, target, local, jobs, activeKey, sessions, halt, out>>

\* faulty variant: any waiter will do
PairAnyMode(c) ==
  LET w == waiting[key[c]] IN
  /\ phase[c] = "pair"
  /\ activeKey[key[c]] = None
  /\ w # None
  /\ \E s \in Sids :
       /\ sessions[s] = None
       /\ activeKey' = [activeKey EXCEPT ![key[c]] = s]
       /\ sessions' = [sessions EXCEPT
            ![s] = [key |-> key[c], first |-> w, second |-> c]]
  /\ waiting' = [waiting EXCEPT ![key[c]] = None]
  /\ task' = [task EXCEPT ![w] = "send", ![c] = "send"]
  /\ Goto(c, "read")
  /\ UNCHANGED <<sock, target, local, taskTarget, evict, halt, out>>

\* tryPair: a waiter of the other mode is there; two goroutines will tell
\* both peers
Pair(c) ==
  LET w == waiting[key[c]] IN
  /\ phase[c] = "pair"
  /\ activeKey[key[c]] = None
  /\ w # None /\ mode[w] # mode[c]
  /\ \E s \in Sids :
       /\ sessions[s] = None
       /\ activeKey' = [activeKey EXCEPT ![key[c]] = s]
       /\ sessions' = [sessions EXCEPT
            ![s] = [key |-> key[c], first |-> w, second |-> c]]
  /\ waiting' = [waiting EXCEPT ![key[c]] = None]
  /\ task' = [task EXCEPT ![w] = "send", ![c] = "send"]
  /\ Goto(c, "read")
  /\ UNCHANGED <<sock, target, local, taskTarget, evict, halt, out>>

\* faulty variant: an error code the protocol does not have
RejectUnknownCode(c) ==
  /\ phase[c] = "reject"
  /\ Send(c, BrokerError("busy"))
  /\ Goto(c, "leaving")
  /\ UNCHANGED <<sock, target, local, jobs, maps, halt>>

Reject(c) ==
  /\ phase[c] = "reject"
  /\ Send(c, BrokerError("pairing-failed"))
  /\ Goto(c, "leaving")
  /\ UNCHANGED <<sock, target, local, jobs, maps, halt>>

CanRead(c) ==
  /\ phase[c] = "read" /\ sock[c] # "down"
  /\ sent[c] < MaxMsgs
  /\ Cardinality({c} \cup {d \in Conns : sent[d] > 0}) <= MaxTalkers

\* a ping, a pong, or a message the loop refuses: answered, loop continues
ReadOther(c, reply) ==
  /\ "chatter" \in Events
  /\ CanRead(c)
  /\ sent' = [sent EXCEPT ![c] = @ + 1]
  /\ IF reply = None THEN UNCHANGED out ELSE Send(c, reply)
  /\ UNCHANGED <<phase, sock, mode, key, target, jobs, maps, halt>>

\* relaySignal, first half: sessionPeers under b.mu
ReadSignal(c) ==
  /\ CanRead(c)
  /\ EagerClients \/ WasSent(c, "paired")
  /\ sent' = [sent EXCEPT ![c] = @ + 1]
  /\ \/ /\ SessionsOf(c) = {}
        /\ Goto(c, "relayfail")
        /\ UNCHANGED target
     \/ \E s \in SessionsOf(c) :
          /\ target' = [target EXCEPT ![c] = Partner(s, c)]
          /\ Goto(c, "relay")
  /\ UNCHANGED <<sock, mode, key, jobs, maps, halt, out>>

\* faulty variant: the write may be repeated
RelayTwice(c) ==
  /\ phase[c] = "relay"
  /\ Send(target[c], Signal(c, sent[c]))
  /\ \/ /\ Goto(c, IF CanSend(target[c]) THEN "read" ELSE "relayfail")
        /\ target' = [target EXCEPT ![c] = None]
     \/ Len(out[target[c]]) < 4 /\ UNCHANGED <<phase, target>>
  /\ UNCHANGED <<sock, local, jobs, maps, halt>>

\* relaySignal, second half: the write to the target it looked up
RelaySignal(c) ==
  /\ phase[c] = "relay"
  /\ Send(target[c], Signal(c, sent[c]))
  /\ Goto(c, IF CanSend(target[c]) THEN "read" ELSE "relayfail")
  /\ target' = [target EXCEPT ![c] = None]
  /\ UNCHANGED <<sock, local, jobs, maps, halt>>

RelayFailed(c) ==
  /\ phase[c] = "relayfail"
  /\ Send(c, BrokerError("relay-failed"))
  /\ Goto(c, "leaving")
  /\ UNCHANGED <<sock, target, local, jobs, maps, halt>>

\* the socket is down, nothing came before the read deadline, or what came is
\* no message: the handler leaves, also one whose socket can still be written
\* (bounded like the messages)
ReadError(c) ==
  /\ phase[c] = "read"
  /\ sock[c] = "down" \/ ("badread" \in Events /\ CanRead(c))
  /\ Goto(c, "leaving")
  /\ UNCHANGED <<sock, target, local, jobs, maps, halt, out>>

\* faulty variant: the partner is not notified
UnregisterSilently(c) ==
  /\ phase[c] = "leaving"
  /\ \E t \in Conns \cup {None} : UnregisterPeer(c, t)
  /\ Goto(c, "close")
  /\ UNCHANGED <<sock, target, local, jobs, halt, out>>

\* the deferred unregisterPeer, under b.mu
Unregister(c) ==
  /\ phase[c] = "leaving"
  /\ \E t \in Conns \cup {None} :
       /\ UnregisterPeer(c, t)
       /\ target' = [target EXCEPT ![c] = t]
       /\ Goto(c, IF t = None THEN "close" ELSE "notify")
  /\ UNCHANGED <<sock, local, jobs, halt, out>>

NotifyLeft(c) ==
  /\ phase[c] = "notify"
  /\ Send(target[c], PeerLeft)
  /\ target' = [target EXCEPT ![c] = None]
  /\ Goto(c, "close")
  /\ UNCHANGED <<sock, local, jobs, maps, halt>>

Close(c) ==
  /\ phase[c] = "close"
  /\ sock' = [sock EXCEPT ![c] = "down"]
  /\ Goto(c, "done")
  /\ UNCHANGED <<target, local, jobs, maps, halt, out>>

-----------------------------------------------------------------------------
(* The goroutine tryPair starts to tell a peer that it is paired. *)

\* faulty variant: both peers are told to make the offer
DeliverInitiator(c) ==
  /\ task[c] = "send"
  /\ Send(c, Paired(TRUE))
  /\ task' = [task EXCEPT ![c] = IF CanSend(c) THEN "none" ELSE "unregister"]
  /\ UNCHANGED <<phase, sock, target, local, taskTarget, evict, maps, halt>>

DeliverPaired(c) ==
  /\ task[c] = "send"
  /\ Send(c, Paired(mode[c] = "connect"))
  /\ task' = [task EXCEPT ![c] = IF CanSend(c) THEN "none" ELSE "unregister"]
  /\ UNCHANGED <<phase, sock, target, local, taskTarget, evict, maps, halt>>

TaskUnregister(c) ==
  /\ task[c] = "unregister"
  /\ \E t \in Conns \cup {None} :
       /\ UnregisterPeer(c, t)
       /\ taskTarget' = [taskTarget EXCEPT ![c] = t]
       /\ task' = [task EXCEPT ![c] = IF t = None THEN "none" ELSE "notify"]
  /\ UNCHANGED <<phase, sock, target, local, evict, halt, out>>

TaskNotify(c) ==
  /\ task[c] = "notify"
  /\ Send(taskTarget[c], PeerLeft)
  /\ task' = [task EXCEPT ![c] = "none"]
  /\ taskTarget' = [taskTarget EXCEPT ![c] = None]
  /\ UNCHANGED <<phase, sock, target, local, evict, maps, halt>>

-----------------------------------------------------------------------------
(* The janitor and Shutdown. *)

JanitorIdle == \A c \in Conns : evict[c] = "none"

\* faulty variant: evicted sessions stay in the map
CollectKeepsSessions(W, S) ==
  /\ "expiry" \in Events
  /\ janitor /\ JanitorIdle
  /\ W \cup S # {}
  /\ \A k \in W : waiting[k] # None
  /\ \A s \in S : sessions[s] # None
  /\ waiting' = [k \in Keys |-> IF k \in W THEN None ELSE waiting[k]]
  /\ evict' = [c \in Conns |->
       IF \E k \in W : waiting[k] = c THEN "waiter-expired"
       ELSE IF S \cap SessionsOf(c) # {} THEN "session-expired"
       ELSE "none"]
  /\ UNCHANGED <<phase, sock, target, local, task, taskTarget, activeKey,
                 sessions, halt, out>>

\* collectStale with the waiters of the keys W and the sessions S too old
CollectStale(W, S) ==
  /\ "expiry" \in Events
  /\ janitor /\ JanitorIdle
  /\ W \cup S # {}
  /\ \A k \in W : waiting[k] # None
  /\ \A s \in S : sessions[s] # None
  /\ waiting' = [k \in Keys |-> IF k \in W THEN None ELSE waiting[k]]
  /\ sessions' = [s \in Sids |-> IF s \in S THEN None ELSE sessions[s]]
  /\ activeKey' = [k \in Keys |->
       IF \E s \in S : sessions[s].key = k THEN None ELSE activeKey[k]]
  /\ evict' = [c \in Conns |->
       IF \E k \in W : waiting[k] = c THEN "waiter-expired"
       ELSE IF S \cap SessionsOf(c) # {} THEN "session-expired"
       ELSE "none"]
  /\ UNCHANGED <<phase, sock, target, local, task, taskTarget, halt, out>>

\* evictStale handles its list one peer at a time, the waiters first
EvictSend(c) ==
  /\ evict[c] \in {"waiter-expired", "session-expired"}
  /\ \A d \in Conns : /\ evict[d] # "close"
                      /\ evict[d] = "waiter-expired" => evict[c] = evict[d]
  /\ Send(c, BrokerError(evict[c]))
  /\ evict' = [evict EXCEPT ![c] = "close"]
  /\ UNCHANGED <<phase, sock, target, local, task, taskTarget, maps, halt>>

EvictClose(c) ==
  /\ evict[c] = "close"
  /\ sock' = [sock EXCEPT ![c] = "down"]
  /\ evict' = [evict EXCEPT ![c] = "none"]
  /\ UNCHANGED <<phase, target, local, task, taskTarget, maps, halt, out>>

Shutdown ==
  /\ "shutdown" \in Events
  /\ stop = "no"
  /\ stop' = "asked"
  /\ UNCHANGED <<phase, sock, target, local, jobs, maps, janitor, out>>

JanitorExit ==
  /\ janitor /\ JanitorIdle /\ stop = "asked"
  /\ janitor' = FALSE
  /\ UNCHANGED <<phase, sock, target, local, jobs, maps, stop, out>>

InMaps(c) == (\E k \in Keys : waiting[k] = c) \/ SessionsOf(c) # {}

\* Shutdown's goroutine after janitor.Wait: closes what the maps still hold
ShutdownClose ==
  /\ stop = "asked" /\ ~janitor
  /\ stop' = "closed"
  /\ sock' = [c \in Conns |-> IF InMaps(c) THEN "down" ELSE sock[c]]
  /\ UNCHANGED <<phase, target, local, jobs, maps, janitor, out>>

-----------------------------------------------------------------------------

\* the steps the broker takes by itself for c once the client is silent
ServerStep(c) ==
  \/ Ack(c) \/ PairRefused(c) \/ BecomeWaiter(c) \/ Pair(c) \/ Reject(c)
  \/ RelaySignal(c) \/ RelayFailed(c) \/ ReadError(c)
  \/ Unregister(c) \/ NotifyLeft(c) \/ Close(c)

TaskStep(c) == DeliverPaired(c) \/ TaskUnregister(c) \/ TaskNotify(c)

EvictStep == \E c \in Conns : EvictSend(c) \/ EvictClose(c)

ClientStep(c) ==
  \/ Connect(c) \/ ConnLost(c) \/ WriteStall(c)
  \/ \E m \in Modes, k \in Keys : Register(c, m, k)
  \/ ReadSignal(c)
  \/ \E reply \in {Pong, BrokerError("invalid-message"), None} :
        ReadOther(c, reply)

\* every connection of the model has been used up
Finished ==
  /\ \A c \in Conns : phase[c] \in {"idle", "done"} /\ task[c] = "none"
  /\ JanitorIdle
  /\ UNCHANGED vars

Next ==
  \/ \E c \in Conns : \/ ClientStep(c) \/ RegisterFail(c)
                      \/ ServerStep(c) \/ TaskStep(c)
  \/ \E W \in SUBSET Keys, S \in SUBSET Sids : CollectStale(W, S)
  \/ EvictStep
  \/ Shutdown \/ JanitorExit \/ ShutdownClose
  \/ Finished

Spec == Init /\ [][Next]_vars

-----------------------------------------------------------------------------
(* Safety. *)

\* b.waiting, b.activeKey and b.sessions agree: a key is free, waited on, or
\* active, never two of them; activeKey[k] = s exactly when s is a session of
\* k; and no peer holds two places (tryPair, unregisterPeer, collectStale).
MapsAgree ==
  /\ \A k \in Keys : waiting[k] # None =>
       /\ activeKey[k] = None
       /\ key[waiting[k]] = k
       /\ SessionsOf(waiting[k]) = {}
  /\ \A k \in Keys, s \in Sids :
       activeKey[k] = s <=> sessions[s] # None /\ sessions[s].key = k
  /\ \A c \in Conns : \A s, t \in SessionsOf(c) : s = t
  /\ \A s \in Sids : sessions[s] # None =>
       /\ sessions[s].first # sessions[s].second
       /\ key[sessions[s].first] = sessions[s].key
       /\ key[sessions[s].second] = sessions[s].key

\* A peer the maps still hold has a handler that will unregister it: neither a
\* late delivery goroutine nor the janitor leaves an entry that nobody owns.
NoOrphanedEntry ==
  \A c \in Conns : InMaps(c) =>
    phase[c] \in {"read", "relay", "relayfail", "leaving"}

\* A session joins one expose and one connect peer, and a signal is only ever
\* written to a peer of the same key and the other mode, even when the lookup
\* of relaySignal is stale by the time of the write.
NoCrossTalk ==
  \A c \in Conns : \A i \in DOMAIN out[c] :
    out[c][i].type = "signal" =>
      /\ key[out[c][i].from] = key[c]
      /\ mode[out[c][i].from] # mode[c]

\* Signals of one sender arrive in the order its handler read them.
SignalsInOrder ==
  \A c \in Conns : \A i, j \in DOMAIN out[c] :
    /\ i < j
    /\ out[c][i].type = "signal" /\ out[c][j].type = "signal"
    => /\ out[c][i].from = out[c][j].from
       /\ out[c][i].n < out[c][j].n

Farewells(c) ==
  {i \in DOMAIN out[c] :
     \/ out[c][i].type = "peer-left"
     \/ /\ out[c][i].type = "error"
        /\ out[c][i].code \in {"waiter-expired", "session-expired",
                                "pairing-failed"}}

\* Unregistering by either handler, by either delivery goroutine and the
\* janitor race for the same session; each peer is told of its end only once.
OneFarewell == \A c \in Conns : Cardinality(Farewells(c)) <= 1

\* A peer is told `paired' at most once, and of a session the connect peer is
\* told to make the offer, and no other: the peer treats a second `paired' as
\* fatal, two initiators or none would leave both sides waiting, and the roles
\* of the authentication follow the mode and not the flag.
PairedOnce ==
  \A c, d \in Conns : \A i \in DOMAIN out[c], j \in DOMAIN out[d] :
    /\ out[c][i].type = "paired"
    /\ out[d][j].type = "paired"
    => /\ c = d => i = j
       /\ out[c][i].initiator = (mode[c] = "connect")
       /\ (\E s \in SessionsOf(c) : d = Partner(s, c)) =>
             out[c][i].initiator # out[d][j].initiator

\* PROTOCOL.md's message flow: a peer is told `paired' before any signal of
\* its partner.  The delivery goroutines of tryPair do not ensure it.
PairedBeforeSignal ==
  \A c \in Conns : \A i \in DOMAIN out[c] :
    out[c][i].type = "signal" =>
      \E j \in DOMAIN out[c] : j < i /\ out[c][j].type = "paired"

-----------------------------------------------------------------------------
(* Refinement of Rendezvous. *)

\* the peers that hold a key, the one that came first in front
Slot(k) ==
  IF activeKey[k] # None
  THEN <<sessions[activeKey[k]].first, sessions[activeKey[k]].second>>
  ELSE IF waiting[k] # None THEN <<waiting[k]>> ELSE <<>>

\* past tryPair and in no map: refused, unregistered or evicted
Gone ==
  {c \in Conns : /\ phase[c] \notin {"idle", "register", "ack", "pair"}
                 /\ ~InMaps(c)}

Abstract == INSTANCE Rendezvous WITH
              slot <- [k \in Keys |-> Slot(k)], gone <- Gone

\* The maps, mutated by handlers, delivery goroutines and the janitor in any
\* order, implement slots: only a free key takes a waiter, only a waiter of
\* the other mode is joined, and a peer that left a slot never returns.
ImplementsRendezvous == Abstract!Spec

-----------------------------------------------------------------------------
(* Liveness.  A goroutine that can run does: the handler of a connection, the *)
(* delivery goroutines and the janitor's eviction list, whose writes have a   *)
(* deadline.  Nothing is assumed of clients, of the network or of expiry.     *)

\* a read is only bound to end once the socket is down
HandlerStep(c) == ServerStep(c) /\ (phase[c] = "read" => sock[c] = "down")

Fairness ==
  /\ \A c \in Conns : WF_vars(HandlerStep(c)) /\ WF_vars(TaskStep(c))
  /\ WF_vars(EvictStep)

FairSpec == Spec /\ Fairness

\* A connection that is gone frees its slot: the key can be used again.
LostPeerFreesSlot ==
  \A c \in Conns : sock[c] = "down" ~> ~InMaps(c)

\* The peer whose session ends is told, or its socket is unusable.
PartnerIsTold ==
  \A c \in Conns :
    (WasSent(c, "paired") /\ SessionsOf(c) = {}) ~>
      (Farewells(c) # {} \/ ~CanSend(c))

=============================================================================

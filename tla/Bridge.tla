------------------------------- MODULE Bridge -------------------------------
(***************************************************************************)
(* One stream: the Bridge of internal/tunnel/bridge.go at both ends of a   *)
(* data channel, each between its TCP connection and the channel.          *)
(*                                                                         *)
(* An end has a reader goroutine (TCP to channel), pion's OnMessage        *)
(* callback (channel to TCP), OnBufferedAmountLow, OnClose, and closeAll,  *)
(* which runs once.  pion is modelled by what the code relies on: a queue  *)
(* of what was sent and not yet acknowledged, a callback each time it      *)
(* falls to the low threshold, a window of what the far side has not read, *)
(* and a close that follows the data.  All chunks have one size.           *)
(***************************************************************************)
EXTENDS Naturals

CONSTANTS
  Low,        \* bufferedAmountLowThreshold, in chunks
  High,       \* bufferedAmountHighThreshold, in chunks
  Window,     \* chunks pion takes before the far side has read them
  MaxChunks,  \* bound: chunks a TCP client sends
  Senders     \* the ends whose TCP client sends

Ends == {"connect", "expose"}

ASSUME ThresholdAssumption == Low \in Nat /\ High \in Nat /\ Low <= High
ASSUME WindowAssumption == Window \in Nat /\ MaxChunks \in Nat
ASSUME SendersAssumption == Senders \subseteq Ends

VARIABLES
  reader,    \* where the reader goroutine is
  writer,    \* is OnMessage inside conn.Write
  buffered,  \* dc.BufferedAmount
  inq,       \* chunks arrived that OnMessage has not taken
  drain,     \* the one slot of the drain channel
  lowcb,     \* OnBufferedAmountLow has been called, has not sent yet
  want,      \* somebody has called closeAll
  closer,    \* what closeAll has done: "open", "conn", "dc", "done"
  up,        \* the transport under the stream
  nread,     \* chunks read from the TCP client
  got        \* chunks written to the TCP client

flow == <<reader, writer, buffered, inq, drain, lowcb, nread, got>>
vars == <<flow, want, closer, up>>

TypeOK ==
  /\ reader \in [Ends -> {"read", "send", "check", "park", "wait", "closeAll",
                          "exit"}]
  /\ writer \in [Ends -> {"idle", "write"}]
  /\ buffered \in [Ends -> Nat] /\ inq \in [Ends -> Nat]
  /\ drain \in [Ends -> BOOLEAN] /\ lowcb \in [Ends -> BOOLEAN]
  /\ want \in [Ends -> BOOLEAN]
  /\ closer \in [Ends -> {"open", "conn", "dc", "done"}]
  /\ up \in BOOLEAN
  /\ nread \in [Ends -> Nat] /\ got \in [Ends -> Nat]

Init ==
  /\ reader = [e \in Ends |-> "read"] /\ writer = [e \in Ends |-> "idle"]
  /\ buffered = [e \in Ends |-> 0] /\ inq = [e \in Ends |-> 0]
  /\ drain = [e \in Ends |-> FALSE] /\ lowcb = [e \in Ends |-> FALSE]
  /\ want = [e \in Ends |-> FALSE] /\ closer = [e \in Ends |-> "open"]
  /\ up = TRUE
  /\ nread = [e \in Ends |-> 0] /\ got = [e \in Ends |-> 0]

Far(e) == IF e = "connect" THEN "expose" ELSE "connect"

ConnOpen(e) == closer[e] = "open"
ChannelOpen(e) == closer[e] \in {"open", "conn"}

Reader(e, from, to) == reader[e] = from /\ reader' = [reader EXCEPT ![e] = to]

CallCloseAll(e) == want' = [want EXCEPT ![e] = TRUE]

-----------------------------------------------------------------------------
(* The reader goroutine. *)

ReadChunk(e) ==
  /\ e \in Senders /\ nread[e] < MaxChunks /\ ConnOpen(e)
  /\ Reader(e, "read", "send")
  /\ nread' = [nread EXCEPT ![e] = @ + 1]
  /\ UNCHANGED <<writer, buffered, inq, drain, lowcb, got, want, closer, up>>

\* EOF, a reset, or the connection was closed here
ReadEnds(e) ==
  /\ Reader(e, "read", "closeAll")
  /\ CallCloseAll(e)
  /\ UNCHANGED <<writer, buffered, inq, drain, lowcb, nread, got, closer, up>>

SendChunk(e) ==
  /\ \/ /\ ChannelOpen(e)
        /\ Reader(e, "send", "check")
        /\ buffered' = [buffered EXCEPT ![e] = @ + 1]
        /\ UNCHANGED want
     \/ /\ ~ChannelOpen(e) \/ ~up
        /\ Reader(e, "send", "closeAll")
        /\ CallCloseAll(e)
        /\ UNCHANGED buffered
  /\ UNCHANGED <<writer, inq, drain, lowcb, nread, got, closer, up>>

\* faulty variant: the amount is looked at the wrong way round
CheckNever(e) ==
  /\ IF buffered[e] < Low THEN Reader(e, "check", "park")
                          ELSE Reader(e, "check", "read")
  /\ UNCHANGED <<writer, buffered, inq, drain, lowcb, nread, got, want, closer, up>>

\* the loop condition; between it and the select anything may happen
CheckBuffered(e) ==
  /\ IF buffered[e] > High THEN Reader(e, "check", "park")
                           ELSE Reader(e, "check", "read")
  /\ UNCHANGED <<writer, buffered, inq, drain, lowcb, nread, got, want, closer, up>>

Park(e) ==
  /\ Reader(e, "park", "wait")
  /\ UNCHANGED <<writer, buffered, inq, drain, lowcb, nread, got, want, closer, up>>

\* faulty variant: the select does not listen to done
WakeByDrainOnly(e) ==
  /\ drain[e] /\ Reader(e, "wait", "check")
  /\ drain' = [drain EXCEPT ![e] = FALSE]
  /\ UNCHANGED <<writer, buffered, inq, lowcb, nread, got, want, closer, up>>

\* faulty variant: the chunk is sent again after a pause
WakeResends(e) ==
  /\ \/ /\ drain[e] /\ Reader(e, "wait", "send")
        /\ drain' = [drain EXCEPT ![e] = FALSE]
     \/ /\ closer[e] = "done" /\ Reader(e, "wait", "exit")
        /\ UNCHANGED drain
  /\ UNCHANGED <<writer, buffered, inq, lowcb, nread, got, want, closer, up>>

\* the select on drain and done
Wake(e) ==
  /\ \/ /\ drain[e] /\ Reader(e, "wait", "check")
        /\ drain' = [drain EXCEPT ![e] = FALSE]
     \/ /\ closer[e] = "done" /\ Reader(e, "wait", "exit")
        /\ UNCHANGED drain
  /\ UNCHANGED <<writer, buffered, inq, lowcb, nread, got, want, closer, up>>

\* closeAll returns to the reader: closeOnce has been through
ReaderExit(e) ==
  /\ closer[e] = "done" /\ Reader(e, "closeAll", "exit")
  /\ UNCHANGED <<writer, buffered, inq, drain, lowcb, nread, got, want, closer, up>>

-----------------------------------------------------------------------------
(* pion and its callbacks. *)

\* n chunks of e are acknowledged and arrive; the low callback is called each
\* time the amount falls to the threshold
Release(e, n) ==
  /\ up /\ buffered[e] >= n /\ inq[Far(e)] + n <= Window
  /\ buffered' = [buffered EXCEPT ![e] = @ - n]
  /\ inq' = [inq EXCEPT ![Far(e)] = @ + n]
  /\ lowcb' = [lowcb EXCEPT
       ![e] = @ \/ (buffered[e] > Low /\ buffered[e] - n <= Low)]
  /\ UNCHANGED <<reader, writer, drain, nread, got, want, closer, up>>

\* faulty variant: as if drain had no slot, the signal only reaches a reader
\* that is already in its select
LowUnbuffered(e) ==
  /\ lowcb[e]
  /\ lowcb' = [lowcb EXCEPT ![e] = FALSE]
  /\ drain' = [drain EXCEPT ![e] = reader[e] = "wait"]
  /\ UNCHANGED <<reader, writer, buffered, inq, nread, got, want, closer, up>>

\* OnBufferedAmountLow: into the slot, unless it is full
LowCallback(e) ==
  /\ lowcb[e]
  /\ lowcb' = [lowcb EXCEPT ![e] = FALSE]
  /\ drain' = [drain EXCEPT ![e] = TRUE]
  /\ UNCHANGED <<reader, writer, buffered, inq, nread, got, want, closer, up>>

OnMessage(e) ==
  /\ writer[e] = "idle" /\ inq[e] > 0
  /\ writer' = [writer EXCEPT ![e] = "write"]
  /\ inq' = [inq EXCEPT ![e] = @ - 1]
  /\ UNCHANGED <<reader, buffered, drain, lowcb, nread, got, want, closer, up>>

\* conn.Write returns; it fails when the connection is closed here or there
WriteDone(e) ==
  /\ writer[e] = "write"
  /\ writer' = [writer EXCEPT ![e] = "idle"]
  /\ \/ /\ ConnOpen(e)
        /\ got' = [got EXCEPT ![e] = @ + 1]
        /\ UNCHANGED want
     \/ CallCloseAll(e) /\ UNCHANGED got
  /\ UNCHANGED <<reader, buffered, inq, drain, lowcb, nread, closer, up>>

\* OnClose: the far side has closed the channel, and what it sent before has
\* been read
OnClose(e) ==
  /\ ~ChannelOpen(Far(e)) /\ ~want[e]
  /\ buffered[Far(e)] = 0 /\ inq[e] = 0 /\ writer[e] = "idle"
  /\ CallCloseAll(e)
  /\ UNCHANGED <<flow, closer, up>>

\* the transport fails under the stream, at any time
TransportFails ==
  /\ up /\ up' = FALSE
  /\ UNCHANGED <<flow, want, closer>>

\* OnError: pion reports it to each end that still has the channel open
OnError(e) ==
  /\ ~up /\ ChannelOpen(e) /\ ~want[e]
  /\ CallCloseAll(e)
  /\ UNCHANGED <<flow, closer, up>>

-----------------------------------------------------------------------------
(* closeAll: conn.Close, dc.Close, close(done), once. *)

CloseStep(e, from, to) ==
  /\ closer[e] = from
  /\ closer' = [closer EXCEPT ![e] = to]
  /\ UNCHANGED <<flow, want, up>>

\* faulty variant: the data channel is left open
CloseAllKeepsChannel(e) ==
  /\ want[e]
  /\ CloseStep(e, "open", "conn")

\* faulty variant: no closeOnce, the second close(done) panics
CloseAllTwice(e) ==
  /\ want[e]
  /\ \/ CloseStep(e, "open", "conn")
     \/ CloseStep(e, "conn", "dc")
     \/ CloseStep(e, "dc", "done")
     \/ CloseStep(e, "done", "panic")

closeAll(e) ==
  /\ want[e]
  /\ \/ CloseStep(e, "open", "conn")
     \/ CloseStep(e, "conn", "dc")
     \/ CloseStep(e, "dc", "done")

-----------------------------------------------------------------------------

ReaderStep(e) ==
  \/ SendChunk(e) \/ CheckBuffered(e) \/ Park(e) \/ Wake(e) \/ ReaderExit(e)

Closed == \A e \in Ends : closer[e] = "done" /\ reader[e] = "exit"

\* the stream is over
Finished == Closed /\ UNCHANGED vars

Next ==
  \/ \E e \in Ends :
       \/ ReadChunk(e) \/ ReadEnds(e) \/ ReaderStep(e)
       \/ \E n \in 1..Window : Release(e, n)
       \/ LowCallback(e) \/ OnMessage(e) \/ WriteDone(e)
       \/ OnClose(e) \/ OnError(e) \/ closeAll(e)
  \/ TransportFails
  \/ Finished

Spec == Init /\ [][Next]_vars

-----------------------------------------------------------------------------

\* A fast TCP client does not fill the memory: the send queue never holds more
\* than the high threshold and the chunk that went over it.
Backpressure == \A e \in Ends : buffered[e] <= High + 1

\* A reader that has decided to pause is never forgotten: while the queue is
\* at or below the low threshold a wake-up is in the slot or on its way.  The
\* decision, the fall of the queue and the callback are not atomic, and drain
\* has one slot.
NoLostWakeup ==
  \A e \in Ends :
    reader[e] \in {"park", "wait"} /\ buffered[e] <= Low
      => drain[e] \/ lowcb[e]

\* While neither end is being closed, every chunk read from one TCP client is
\* about to be sent, in the send queue, in flight, in the callback or written
\* to the other client: pausing and resuming loses and repeats nothing.
NothingLost ==
  \A e \in Ends :
    ~want[e] /\ ~want[Far(e)] =>
      nread[e] = (IF reader[e] = "send" THEN 1 ELSE 0) + buffered[e]
                 + inq[Far(e)] + (IF writer[Far(e)] = "write" THEN 1 ELSE 0)
                 + got[Far(e)]

-----------------------------------------------------------------------------
(* Liveness.  Goroutines and callbacks run, pion moves data while the         *)
(* transport is up and the far side reads, and reports a transport that       *)
(* failed; a TCP client reads what it is sent.  Nothing is assumed of what a  *)
(* TCP client sends.                                                          *)

Fairness ==
  \A e \in Ends :
    /\ WF_vars(ReaderStep(e))
    /\ WF_vars(~ConnOpen(e) /\ ReadEnds(e))
    /\ WF_vars(\E n \in 1..Window : Release(e, n))
    /\ WF_vars(LowCallback(e))
    /\ WF_vars(OnMessage(e) \/ WriteDone(e))
    /\ WF_vars(OnClose(e) \/ OnError(e))
    /\ WF_vars(closeAll(e))

FairSpec == Spec /\ Fairness

\* A paused reader goes on or ends.
ReaderResumes ==
  \A e \in Ends : reader[e] = "wait" ~> reader[e] # "wait"

\* Both sides are closed together: when one end closes, for whatever reason,
\* both connections are closed and both readers end.
ClosedTogether ==
  \A e \in Ends : want[e] ~> Closed

=============================================================================

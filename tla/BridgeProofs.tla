---------------------------- MODULE BridgeProofs ----------------------------
(***************************************************************************)
(* Proofs about Bridge: for any thresholds, window, number of chunks and   *)
(* senders, the send queue is bounded, a paused reader is never forgotten, *)
(* and pausing loses and repeats nothing.                                  *)
(***************************************************************************)
EXTENDS Bridge, TLAPS

-----------------------------------------------------------------------------
(* Types. *)

\* The initial state is well typed.
LEMMA InitTypeOK == Init => TypeOK
  BY DEF Init, TypeOK

\* Every step of the readers, the callbacks, pion and closeAll keeps the types.
LEMMA NextTypeOK == TypeOK /\ [Next]_vars => TypeOK'
<1> SUFFICES ASSUME TypeOK, [Next]_vars PROVE TypeOK'
  OBVIOUS
<1> USE DEF TypeOK, Reader, CallCloseAll
<1>1. ASSUME NEW e \in Ends, ReadChunk(e) PROVE TypeOK'
  BY <1>1 DEF ReadChunk
<1>2. ASSUME NEW e \in Ends, ReadEnds(e) PROVE TypeOK'
  BY <1>2 DEF ReadEnds
<1>3. ASSUME NEW e \in Ends, SendChunk(e) PROVE TypeOK'
  <2>1. CASE /\ reader' = [reader EXCEPT ![e] = "check"]
             /\ buffered' = [buffered EXCEPT ![e] = @ + 1]
             /\ UNCHANGED want
    BY <1>3, <2>1 DEF SendChunk
  <2>2. CASE /\ reader' = [reader EXCEPT ![e] = "closeAll"]
             /\ CallCloseAll(e) /\ UNCHANGED buffered
    BY <1>3, <2>2 DEF SendChunk
  <2> QED
    BY <1>3, <2>1, <2>2 DEF SendChunk
<1>4. ASSUME NEW e \in Ends, CheckBuffered(e) PROVE TypeOK'
  BY <1>4 DEF CheckBuffered
<1>5. ASSUME NEW e \in Ends, Park(e) PROVE TypeOK'
  BY <1>5 DEF Park
<1>6. ASSUME NEW e \in Ends, Wake(e) PROVE TypeOK'
  BY <1>6 DEF Wake
<1>7. ASSUME NEW e \in Ends, ReaderExit(e) PROVE TypeOK'
  BY <1>7 DEF ReaderExit
<1>8. ASSUME NEW e \in Ends, NEW n \in 1..Window, Release(e, n) PROVE TypeOK'
  <2>1. buffered[e] - n \in Nat /\ inq[Far(e)] + n \in Nat /\ Far(e) \in Ends
    BY <1>8, WindowAssumption DEF Release, Far, Ends
  <2>2. lowcb' \in [Ends -> BOOLEAN]
    BY <1>8, Zenon DEF Release
  <2> QED
    BY <1>8, <2>1, <2>2 DEF Release
<1>9. ASSUME NEW e \in Ends, LowCallback(e) PROVE TypeOK'
  BY <1>9 DEF LowCallback
<1>10. ASSUME NEW e \in Ends, OnMessage(e) PROVE TypeOK'
  BY <1>10 DEF OnMessage
<1>11. ASSUME NEW e \in Ends, WriteDone(e) PROVE TypeOK'
  <2>1. CASE got' = [got EXCEPT ![e] = @ + 1] /\ UNCHANGED want
    BY <1>11, <2>1 DEF WriteDone
  <2>2. CASE CallCloseAll(e) /\ UNCHANGED got
    BY <1>11, <2>2 DEF WriteDone
  <2> QED
    BY <1>11, <2>1, <2>2 DEF WriteDone
<1>12. ASSUME NEW e \in Ends, OnClose(e) \/ OnError(e) PROVE TypeOK'
  BY <1>12 DEF OnClose, OnError, flow
<1>13. ASSUME NEW e \in Ends, closeAll(e) PROVE TypeOK'
  BY <1>13 DEF closeAll, CloseStep, flow
<1>14. CASE TransportFails \/ UNCHANGED vars
  BY <1>14 DEF TransportFails, vars, flow
<1> QED
  BY <1>1, <1>2, <1>3, <1>4, <1>5, <1>6, <1>7, <1>8, <1>9, <1>10, <1>11,
     <1>12, <1>13, <1>14 DEF Next, ReaderStep, Finished

\* Every reachable state of the bridge is well typed.
THEOREM TypeCorrect == Spec => []TypeOK
  BY InitTypeOK, NextTypeOK, PTL DEF Spec

-----------------------------------------------------------------------------
(* Back-pressure. *)

\* The strengthening: a reader that may still send a chunk without looking at
\* the queue again has found it at or below the high threshold.
MaySend ==
  \A e \in Ends : reader[e] \in {"read", "send"} => buffered[e] <= High

QueueBound == Backpressure /\ MaySend

\* The bound holds for the empty queue.
LEMMA InitQueueBound == Init => QueueBound
  BY ThresholdAssumption DEF Init, QueueBound, Backpressure, MaySend

\* No step breaks the bound: only SendChunk raises the queue, and only
\* CheckBuffered lets the reader go back to reading.
LEMMA NextQueueBound ==
  TypeOK /\ QueueBound /\ [Next]_vars => QueueBound'
<1> SUFFICES ASSUME TypeOK, QueueBound, [Next]_vars PROVE QueueBound'
  OBVIOUS
<1> USE ThresholdAssumption
    DEF TypeOK, QueueBound, Backpressure, MaySend, Reader
<1>1. ASSUME NEW e \in Ends, ReadChunk(e) PROVE QueueBound'
  BY <1>1 DEF ReadChunk
<1>2. ASSUME NEW e \in Ends, ReadEnds(e) PROVE QueueBound'
  BY <1>2 DEF ReadEnds
<1>3. ASSUME NEW e \in Ends, SendChunk(e) PROVE QueueBound'
  BY <1>3 DEF SendChunk
<1>4. ASSUME NEW e \in Ends, CheckBuffered(e) PROVE QueueBound'
  BY <1>4 DEF CheckBuffered
<1>5. ASSUME NEW e \in Ends, Park(e) \/ Wake(e) \/ ReaderExit(e)
      PROVE QueueBound'
  BY <1>5 DEF Park, Wake, ReaderExit
<1>6. ASSUME NEW e \in Ends, NEW n \in 1..Window, Release(e, n)
      PROVE QueueBound'
  BY <1>6, WindowAssumption DEF Release
<1>7. ASSUME NEW e \in Ends, LowCallback(e) \/ OnMessage(e) \/ WriteDone(e)
      PROVE QueueBound'
  BY <1>7 DEF LowCallback, OnMessage, WriteDone
<1>8. ASSUME NEW e \in Ends, OnClose(e) \/ OnError(e) \/ closeAll(e)
      PROVE QueueBound'
  BY <1>8 DEF OnClose, OnError, closeAll, CloseStep, flow
<1>9. CASE TransportFails \/ UNCHANGED vars
  BY <1>9 DEF TransportFails, vars, flow
<1> QED
  BY <1>1, <1>2, <1>3, <1>4, <1>5, <1>6, <1>7, <1>8, <1>9
     DEF Next, ReaderStep, Finished

\* The send queue never holds more than the high threshold and one chunk,
\* however fast the TCP client is and however slow the far side.
THEOREM BackpressureAlways == Spec => []Backpressure
<1>1. QueueBound => Backpressure
  BY DEF QueueBound
<1> QED
  BY <1>1, InitQueueBound, NextQueueBound, TypeCorrect, PTL DEF Spec

-----------------------------------------------------------------------------
(* The pause. *)

\* No reader is paused at the start.
LEMMA InitNoLostWakeup == Init => NoLostWakeup
  BY DEF Init, NoLostWakeup

\* No step forgets a paused reader: it pauses only above the high threshold,
\* so the queue has yet to fall to the low one, and that fall calls back.
LEMMA NextNoLostWakeup ==
  TypeOK /\ NoLostWakeup /\ [Next]_vars => NoLostWakeup'
<1> SUFFICES ASSUME TypeOK, NoLostWakeup, [Next]_vars PROVE NoLostWakeup'
  OBVIOUS
<1> USE ThresholdAssumption DEF TypeOK, NoLostWakeup, Reader
<1>1. ASSUME NEW e \in Ends, ReadChunk(e) \/ ReadEnds(e) PROVE NoLostWakeup'
  BY <1>1 DEF ReadChunk, ReadEnds
<1>2. ASSUME NEW e \in Ends, SendChunk(e) PROVE NoLostWakeup'
  BY <1>2 DEF SendChunk
<1>3. ASSUME NEW e \in Ends, CheckBuffered(e) PROVE NoLostWakeup'
  BY <1>3 DEF CheckBuffered
<1>4. ASSUME NEW e \in Ends, Park(e) \/ ReaderExit(e) PROVE NoLostWakeup'
  BY <1>4 DEF Park, ReaderExit
<1>5. ASSUME NEW e \in Ends, Wake(e) PROVE NoLostWakeup'
  BY <1>5 DEF Wake
<1>6. ASSUME NEW e \in Ends, NEW n \in 1..Window, Release(e, n)
      PROVE NoLostWakeup'
  <2> SUFFICES ASSUME NEW f \in Ends, reader[f] \in {"park", "wait"},
                      buffered'[f] <= Low
               PROVE  drain[f] \/ lowcb'[f]
    BY <1>6 DEF Release
  <2>1. CASE f = e
    <3>1. buffered'[f] = buffered[f] - n
      BY <1>6, <2>1 DEF Release
    <3>2. lowcb'[f] <=>
            lowcb[f] \/ (buffered[f] > Low /\ buffered[f] - n <= Low)
      BY <1>6, <2>1, Zenon DEF Release
    <3>3. CASE buffered[f] > Low
      BY <3>1, <3>2, <3>3
    <3>4. CASE ~(buffered[f] > Low)
      BY <3>2, <3>4
    <3> QED
      BY <3>3, <3>4
  <2>2. CASE f # e
    BY <1>6, <2>2 DEF Release
  <2> QED
    BY <2>1, <2>2
<1>7. ASSUME NEW e \in Ends, LowCallback(e) PROVE NoLostWakeup'
  BY <1>7 DEF LowCallback
<1>8. ASSUME NEW e \in Ends, OnMessage(e) \/ WriteDone(e) PROVE NoLostWakeup'
  BY <1>8 DEF OnMessage, WriteDone
<1>9. ASSUME NEW e \in Ends, OnClose(e) \/ OnError(e) \/ closeAll(e)
      PROVE NoLostWakeup'
  BY <1>9 DEF OnClose, OnError, closeAll, CloseStep, flow
<1>10. CASE TransportFails \/ UNCHANGED vars
  BY <1>10 DEF TransportFails, vars, flow
<1> QED
  BY <1>1, <1>2, <1>3, <1>4, <1>5, <1>6, <1>7, <1>8, <1>9, <1>10
     DEF Next, ReaderStep, Finished

\* Whenever a reader has decided to pause and the queue is low, a wake-up is
\* in the slot or on its way, although the two are not synchronised.
THEOREM NoLostWakeupAlways == Spec => []NoLostWakeup
  BY InitNoLostWakeup, NextNoLostWakeup, TypeCorrect, PTL DEF Spec

-----------------------------------------------------------------------------
(* Conservation. *)

\* Nothing has been read at the start.
LEMMA InitNothingLost == Init => NothingLost
  BY DEF Init, NothingLost, Far, Ends

\* Every step hands a chunk on, or calls closeAll where it drops one.
LEMMA NextNothingLost ==
  TypeOK /\ NothingLost /\ [Next]_vars => NothingLost'
<1> SUFFICES ASSUME TypeOK, NothingLost, [Next]_vars PROVE NothingLost'
  OBVIOUS
<1> USE DEF TypeOK, NothingLost, Reader, CallCloseAll, Far, Ends
<1>1. ASSUME NEW e \in Ends, ReadChunk(e) PROVE NothingLost'
  BY <1>1 DEF ReadChunk
<1>2. ASSUME NEW e \in Ends, ReadEnds(e) PROVE NothingLost'
  BY <1>2 DEF ReadEnds
<1>3. ASSUME NEW e \in Ends, SendChunk(e) PROVE NothingLost'
  BY <1>3 DEF SendChunk
<1>4. ASSUME NEW e \in Ends, CheckBuffered(e) PROVE NothingLost'
  BY <1>4 DEF CheckBuffered
<1>5. ASSUME NEW e \in Ends, Park(e) \/ Wake(e) \/ ReaderExit(e)
      PROVE NothingLost'
  BY <1>5 DEF Park, Wake, ReaderExit
<1>6. ASSUME NEW e \in Ends, NEW n \in 1..Window, Release(e, n)
      PROVE NothingLost'
  BY <1>6, WindowAssumption DEF Release
<1>7. ASSUME NEW e \in Ends, LowCallback(e) PROVE NothingLost'
  BY <1>7 DEF LowCallback
<1>8. ASSUME NEW e \in Ends, OnMessage(e) PROVE NothingLost'
  BY <1>8 DEF OnMessage
<1>9. ASSUME NEW e \in Ends, WriteDone(e) PROVE NothingLost'
  BY <1>9 DEF WriteDone
<1>10. ASSUME NEW e \in Ends, OnClose(e) \/ OnError(e) PROVE NothingLost'
  BY <1>10 DEF OnClose, OnError, flow
<1>11. ASSUME NEW e \in Ends, closeAll(e) PROVE NothingLost'
  BY <1>11 DEF closeAll, CloseStep, flow
<1>12. CASE TransportFails \/ UNCHANGED vars
  BY <1>12 DEF TransportFails, vars, flow
<1> QED
  BY <1>1, <1>2, <1>3, <1>4, <1>5, <1>6, <1>7, <1>8, <1>9, <1>10, <1>11,
     <1>12 DEF Next, ReaderStep, Finished

\* While neither end is being closed no chunk is lost or repeated, whatever
\* the readers, callbacks and pauses do.
THEOREM NothingLostAlways == Spec => []NothingLost
  BY InitNothingLost, NextNothingLost, TypeCorrect, PTL DEF Spec

=============================================================================

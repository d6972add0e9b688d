--------------------------- MODULE SessionProofs ----------------------------
(***************************************************************************)
(* Session for any set of views, any scenario and any number of candidates *)
(* and payload channels.                                                   *)
(***************************************************************************)
EXTENDS Session, FiniteSetTheorems, TLAPS

-----------------------------------------------------------------------------
(* Counting candidates. *)

Signals == {"offer", "answer", "ice"}
Places(q) == {i \in DOMAIN q : q[i] = "ice"}

\* A queue has finitely many candidates.
LEMMA PlacesFinite ==
  ASSUME NEW q \in Seq(Signals)
  PROVE  IsFiniteSet(Places(q)) /\ CountICE(q) \in Nat
<1>1. IsFiniteSet(1..Len(q)) /\ Places(q) \in SUBSET (1..Len(q))
  BY FS_Interval DEF Places
<1>2. IsFiniteSet(Places(q))
  BY <1>1, FS_Subset
<1> QED BY <1>2, FS_CardinalityType DEF CountICE, Places

\* A signal that is sent.
LEMMA CountAppend ==
  ASSUME NEW q \in Seq(Signals), NEW m \in Signals
  PROVE  CountICE(Append(q, m)) = CountICE(q) + (IF m = "ice" THEN 1 ELSE 0)
<1> DEFINE n == Len(q) + 1
<1>1. n \notin Places(q)
  BY DEF Places
<1>2. CASE m = "ice"
  <2>1. Places(Append(q, m)) = Places(q) \cup {n}
    BY <1>2 DEF Places
  <2> QED BY <1>1, <1>2, <2>1, PlacesFinite, FS_AddElement DEF CountICE, Places
<1>3. CASE m # "ice"
  <2>1. Places(Append(q, m)) = Places(q)
    BY <1>3 DEF Places
  <2> QED BY SMTT(60), <1>3, <2>1, PlacesFinite DEF CountICE, Places
<1> QED BY <1>2, <1>3

\* A signal that is read.
LEMMA CountTail ==
  ASSUME NEW q \in Seq(Signals), q # <<>>
  PROVE  CountICE(q) = CountICE(Tail(q)) + (IF Head(q) = "ice" THEN 1 ELSE 0)
<1> DEFINE t == Tail(q)
           f == [i \in Places(t) |-> i + 1]
<1>1. /\ t \in Seq(Signals) /\ DOMAIN t = 1..(Len(q) - 1)
      /\ \A i \in DOMAIN t : t[i] = q[i + 1]
      /\ DOMAIN q = 1..Len(q) /\ Len(q) \in Nat \ {0} /\ Head(q) = q[1]
  OBVIOUS
<1>2. f \in Bijection(Places(t), Places(q) \ {1})
  <2>1. ASSUME NEW i \in Places(t) PROVE i + 1 \in Places(q) \ {1}
    BY <1>1 DEF Places
  <2>2. ASSUME NEW j \in Places(q) \ {1} PROVE j - 1 \in Places(t) /\ f[j - 1] = j
    BY <1>1 DEF Places
  <2>3. \A i, j \in Places(t) : f[i] = f[j] => i = j
    BY <1>1 DEF Places
  <2>4. f \in [Places(t) -> Places(q) \ {1}]
    BY <2>1
  <2>5. \A j \in Places(q) \ {1} : \E i \in Places(t) : f[i] = j
    BY <2>2
  <2> HIDE DEF f
  <2> QED BY <2>3, <2>4, <2>5 DEF Bijection, Injection, Surjection, IsInjective
<1>3. Cardinality(Places(q) \ {1}) = Cardinality(Places(t))
  BY <1>1, <1>2, PlacesFinite, FS_Bijection DEF ExistsBijection
<1>4. Cardinality(Places(q) \ {1}) =
        IF 1 \in Places(q) THEN Cardinality(Places(q)) - 1 ELSE Cardinality(Places(q))
  BY PlacesFinite, FS_RemoveElement
<1>5. 1 \in Places(q) <=> Head(q) = "ice"
  BY <1>1 DEF Places
<1>6. /\ CountICE(q) = Cardinality(Places(q)) /\ CountICE(t) = Cardinality(Places(t))
      /\ CountICE(q) \in Nat /\ CountICE(t) \in Nat
  BY <1>1, PlacesFinite DEF CountICE, Places
<1> HIDE DEF t, f
<1> QED
  <2>1. CASE Head(q) = "ice"
    BY <1>3, <1>4, <1>5, <1>6, <2>1 DEF t
  <2>2. CASE Head(q) # "ice"
    BY <1>3, <1>4, <1>5, <1>6, <2>2 DEF t
  <2> QED BY <2>1, <2>2

-----------------------------------------------------------------------------
(* Types and candidates. *)

\* The equation of CandidatesKept becomes a bound once the connection is
\* closed, because pion may then refuse a candidate; the bound is what keeps
\* pending and applied in their types.
KeptAt(p) ==
  /\ applied[p] + pending[p] + CountICE(sig[p]) <= gathered[Other(p)]
  /\ pcUp[p] => applied[p] + pending[p] + CountICE(sig[p]) = gathered[Other(p)]
  /\ remoteFP[p] => pending[p] = 0

Kept == \A p \in Peers : KeptAt(p)

\* handleControlMessage runs while there is a frame
Reading == \A p \in Peers : recv[p] = "step" => ctl[p] # <<>>

\* every payload channel is counted once: on its way, in OnDataChannel, or
\* handed to onStream
Room ==
  /\ outbound = "create" => opened < MaxStreams
  /\ payload + (IF inbound = "idle" THEN 0 ELSE 1) + streams <= opened

BaseInv == TypeOK /\ Kept /\ Reading /\ Room

\* What sendSignal does to the queues and to their candidates.
LEMMA SigSent ==
  ASSUME TypeOK, NEW p \in Peers, NEW m \in Signals,
         sig' = SendTo(sig, Other(p), m)
  PROVE  /\ sig' \in [Peers -> Seq(Signals)]
         /\ \A r \in Peers : CountICE(sig'[r]) =
              CountICE(sig[r]) + (IF r = Other(p) /\ m = "ice" THEN 1 ELSE 0)
<1>1. sig \in [Peers -> Seq(Signals)] /\ Other(p) \in Peers
  BY DEF TypeOK, Signals, Other, Peers
<1>2. /\ sig' \in [Peers -> Seq(Signals)]
      /\ \A r \in Peers : sig'[r] = IF r = Other(p) THEN Append(sig[r], m) ELSE sig[r]
  BY <1>1 DEF SendTo
<1>3. ASSUME NEW r \in Peers
      PROVE  CountICE(sig'[r]) =
               CountICE(sig[r]) + (IF r = Other(p) /\ m = "ice" THEN 1 ELSE 0)
  <2>1. sig[r] \in Seq(Signals) /\ CountICE(sig[r]) \in Nat
    BY <1>1, PlacesFinite
  <2>2. CASE r = Other(p)
    BY <1>2, <2>1, <2>2, CountAppend
  <2>3. CASE r # Other(p)
    BY <1>2, <2>1, <2>3
  <2> QED BY <2>2, <2>3
<1> QED BY <1>2, <1>3

\* What the main loop takes from its queue.
LEMMA SigTaken ==
  ASSUME TypeOK, NEW p \in Peers, NEW s, Reads(p, s)
  PROVE  /\ sig' \in [Peers -> Seq(Signals)]
         /\ \A r \in Peers : CountICE(sig[r]) =
              CountICE(sig'[r]) + (IF r = p /\ s = "ice" THEN 1 ELSE 0)
<1>1. /\ sig \in [Peers -> Seq(Signals)]
      /\ sig[p] \in Seq(Signals) /\ sig[p] # <<>> /\ Head(sig[p]) = s
      /\ sig' = [sig EXCEPT ![p] = Tail(sig[p])]
  BY DEF TypeOK, Signals, Reads
<1>2. /\ sig' \in [Peers -> Seq(Signals)]
      /\ \A r \in Peers : sig'[r] = IF r = p THEN Tail(sig[p]) ELSE sig[r]
  BY <1>1
<1>3. ASSUME NEW r \in Peers
      PROVE  CountICE(sig[r]) =
               CountICE(sig'[r]) + (IF r = p /\ s = "ice" THEN 1 ELSE 0)
  <2>1. CountICE(sig[r]) \in Nat /\ CountICE(sig'[r]) \in Nat
    BY <1>1, <1>2, PlacesFinite
  <2>2. CASE r = p
    BY <1>1, <1>2, <2>1, <2>2, CountTail
  <2>3. CASE r # p
    BY <1>2, <2>1, <2>3
  <2> QED BY <2>2, <2>3
<1> QED BY <1>2, <1>3

\* A step that leaves the signals alone and opens no connection.
LEMMA KeptFrame ==
  ASSUME TypeOK, Kept, UNCHANGED signals,
         \A p \in Peers : pcUp'[p] => pcUp[p]
  PROVE  Kept'
BY DEF Kept, KeptAt, signals

\* A step of the main loop that is about signals.
LEMMA MainBase ==
  ASSUME BaseInv, NEW p \in Peers, MainStep(p) \/ Trickle(p)
  PROVE  BaseInv'
<1>0. TypeOK /\ Kept /\ Reading /\ Room
  BY DEF BaseInv
<1>a. PICK o \in Peers : o = Other(p) /\ o # p /\ Other(o) = p
  BY DEF Peers, Other
<1>d. \A r \in Peers : r = p \/ r = o
  BY <1>a DEF Peers, Other
<1>b. /\ maxICE \in Nat
      /\ applied \in [Peers -> 0..maxICE] /\ pending \in [Peers -> 0..maxICE]
      /\ gathered \in [Peers -> 0..maxICE] /\ remoteFP \in [Peers -> BOOLEAN]
      /\ CountICE(sig[p]) \in Nat /\ CountICE(sig[o]) \in Nat
  BY <1>0, PlacesFinite DEF TypeOK, Signals
<1>c. KeptAt(p) /\ KeptAt(o)
  BY <1>0 DEF Kept
<1>1. UNCHANGED <<recv, ctl, outbound, opened, payload, inbound, streams>>
  BY DEF MainStep, CreateOffer, SendOffer, ReadICE, ReadSDP, ApplyRemote,
         SetRemote, CreateAnswer, EnterAuthPending, SignalingFails, FlushFails,
         CandidateFails, SendAnswer, Trickle, handshake, channels
<1>2. Reading' /\ Room'
  BY <1>0, <1>1 DEF Reading, Room
<1> SUFFICES TypeOK' /\ Kept'
  BY <1>2 DEF BaseInv
<1>4. CASE SendOffer(p) \/ SendAnswer(p)
  <2>1. PICK m \in {"offer", "answer"} : sig' = SendTo(sig, Other(p), m)
    BY <1>4 DEF SendOffer, SendAnswer
  <2>2. /\ sig' \in [Peers -> Seq(Signals)]
        /\ \A r \in Peers : CountICE(sig'[r]) = CountICE(sig[r])
    <3>1. /\ sig' \in [Peers -> Seq(Signals)]
          /\ \A r \in Peers : CountICE(sig'[r]) = CountICE(sig[r]) + 0
      BY <1>0, <2>1, SigSent DEF Signals
    <3>2. \A r \in Peers : CountICE(sig[r]) \in Nat
      BY <1>b, <1>d
    <3> QED BY <3>1, <3>2
  <2>3. TypeOK'
    <3>1. CASE SendOffer(p)
      BY <1>0, <2>2, <3>1
      DEF TypeOK, SendOffer, Signals, Goto, machine, handshake, world, channels
    <3>2. CASE SendAnswer(p)
      BY <1>0, <2>2, <3>2
      DEF TypeOK, SendAnswer, Signals, Goto, machine, handshake, world, channels
    <3> QED BY <1>4, <3>1, <3>2
  <2>4. Kept'
    BY <1>0, <1>4, <2>2 DEF Kept, KeptAt, SendOffer, SendAnswer, machine
  <2> QED BY <2>3, <2>4
<1>6. CASE Trickle(p)
  <2>1. /\ sig' \in [Peers -> Seq(Signals)]
        /\ CountICE(sig'[p]) = CountICE(sig[p])
        /\ CountICE(sig'[o]) = CountICE(sig[o]) + 1
    BY SMTT(60), <1>0, <1>6, <1>a, <1>b, SigSent DEF Trickle, Signals
  <2>2. /\ gathered' \in [Peers -> 0..maxICE]
        /\ gathered'[p] = gathered[p] + 1 /\ gathered'[o] = gathered[o]
    BY <1>a, <1>b, <1>6 DEF Trickle
  <2>3. TypeOK'
    BY <1>0, <1>6, <2>1, <2>2
    DEF TypeOK, Trickle, Signals, machine, handshake, world, channels
  <2>4. UNCHANGED <<applied, pending, remoteFP, pcUp>>
    BY <1>6 DEF Trickle, machine
  <2>5. KeptAt(p)'
    BY <1>a, <1>b, <1>c, <2>1, <2>2, <2>4 DEF KeptAt
  <2>6. KeptAt(o)'
    <3>1. /\ applied[o] + pending[o] + CountICE(sig[o]) <= gathered[p]
          /\ pcUp[o] => applied[o] + pending[o] + CountICE(sig[o]) = gathered[p]
          /\ remoteFP[o] => pending[o] = 0
      BY <1>a, <1>c DEF KeptAt
    <3>2. /\ applied[o] \in Nat /\ pending[o] \in Nat /\ gathered[p] \in Nat
          /\ CountICE(sig[o]) \in Nat
      BY <1>b
    <3>3. /\ applied[o] + pending[o] + (CountICE(sig[o]) + 1) <= gathered[p] + 1
          /\ pcUp[o] => applied[o] + pending[o] + (CountICE(sig[o]) + 1) = gathered[p] + 1
      BY <3>1, <3>2
    <3> QED BY <1>a, <2>1, <2>2, <2>4, <3>1, <3>3 DEF KeptAt
  <2> QED BY <1>d, <2>3, <2>5, <2>6 DEF Kept
<1>7. CASE ReadICE(p)
  <2>1. /\ sig' \in [Peers -> Seq(Signals)]
        /\ CountICE(sig[p]) = CountICE(sig'[p]) + 1
        /\ CountICE(sig'[o]) = CountICE(sig[o])
        /\ CountICE(sig'[p]) \in Nat
    <3>1. Reads(p, "ice")
      BY <1>7 DEF ReadICE
    <3>2. /\ sig' \in [Peers -> Seq(Signals)]
          /\ \A r \in Peers : CountICE(sig[r]) =
               CountICE(sig'[r]) + (IF r = p THEN 1 ELSE 0)
      BY <1>0, <3>1, SigTaken
    <3>3. CountICE(sig'[p]) \in Nat /\ CountICE(sig'[o]) \in Nat
      BY <1>a, <3>2, PlacesFinite
    <3> QED BY SMTT(60), <1>a, <1>b, <3>2, <3>3
  <2>2. /\ UNCHANGED <<gathered, remoteFP, pcUp>>
        /\ \/ remoteFP[p] /\ pending' = pending /\ applied' = [applied EXCEPT ![p] = @ + 1]
           \/ ~remoteFP[p] /\ applied' = applied /\ pending' = [pending EXCEPT ![p] = @ + 1]
    BY <1>7 DEF ReadICE, machine
  <2>3. /\ applied'[o] = applied[o] /\ pending'[o] = pending[o]
        /\ applied'[p] + pending'[p] = applied[p] + pending[p] + 1
        /\ remoteFP[p] => pending'[p] = pending[p]
    BY <1>a, <1>b, <2>2
  <2>4. /\ applied[p] + pending[p] + CountICE(sig[p]) <= gathered[o]
        /\ pcUp[p] => applied[p] + pending[p] + CountICE(sig[p]) = gathered[o]
        /\ remoteFP[p] => pending[p] = 0
        /\ applied[p] \in Nat /\ pending[p] \in Nat /\ gathered[o] \in 0..maxICE
        /\ applied[p] + pending[p] \in Nat
    BY <1>a, <1>b, <1>c DEF KeptAt
  <2>5. PICK a \in Nat, b \in Nat, c \in Nat, g \in 0..maxICE :
          /\ a = applied[p] /\ b = pending[p] /\ c = CountICE(sig'[p])
          /\ g = gathered[o] /\ CountICE(sig[p]) = c + 1
          /\ a + b + (c + 1) <= g /\ (pcUp[p] => a + b + (c + 1) = g)
    BY <2>1, <2>4
  <2>6. /\ a + 1 \in 0..maxICE /\ b + 1 \in 0..maxICE
        /\ (a + b + 1) + c <= g /\ (pcUp[p] => (a + b + 1) + c = g)
    BY <1>b, <2>5
  <2>10. KeptAt(p)'
    BY <1>a, <2>2, <2>3, <2>4, <2>5, <2>6 DEF KeptAt
  <2>7. KeptAt(o)'
    BY <1>a, <1>b, <1>c, <2>1, <2>2, <2>3 DEF KeptAt
  <2>8. applied' \in [Peers -> 0..maxICE] /\ pending' \in [Peers -> 0..maxICE]
    BY <1>b, <2>2, <2>5, <2>6
  <2>9. TypeOK'
    BY <1>0, <1>7, <2>1, <2>8
    DEF TypeOK, ReadICE, Signals, machine, handshake, world, channels
  <2> QED BY <1>d, <2>7, <2>9, <2>10 DEF Kept
<1>8. CASE ReadSDP(p)
  <2>1. PICK s \in {"offer", "answer"} : Reads(p, s)
    BY <1>8 DEF ReadSDP
  <2>2. /\ sig' \in [Peers -> Seq(Signals)]
        /\ \A r \in Peers : CountICE(sig[r]) = CountICE(sig'[r])
    <3>1. /\ sig' \in [Peers -> Seq(Signals)]
          /\ \A r \in Peers : CountICE(sig[r]) = CountICE(sig'[r]) + 0
      BY <1>0, <2>1, SigTaken
    <3>2. \A r \in Peers : CountICE(sig'[r]) \in Nat
      BY <3>1, PlacesFinite
    <3> QED BY <3>1, <3>2
  <2>3. Kept'
    BY <1>0, <1>8, <2>2 DEF Kept, KeptAt, ReadSDP, machine
  <2>4. TypeOK'
    BY <1>0, <1>8, <2>2
    DEF TypeOK, ReadSDP, Goto, Signals, machine, handshake, world, channels
  <2> QED BY <2>3, <2>4
<1>9. CASE CandidateFails(p)
  <2>1. /\ sig' \in [Peers -> Seq(Signals)]
        /\ CountICE(sig[p]) = CountICE(sig'[p]) + 1
        /\ CountICE(sig'[o]) = CountICE(sig[o])
        /\ CountICE(sig'[p]) \in Nat
    <3>1. Reads(p, "ice")
      BY <1>9 DEF CandidateFails
    <3>2. /\ sig' \in [Peers -> Seq(Signals)]
          /\ \A r \in Peers : CountICE(sig[r]) =
               CountICE(sig'[r]) + (IF r = p THEN 1 ELSE 0)
      BY <1>0, <3>1, SigTaken
    <3>3. CountICE(sig'[p]) \in Nat /\ CountICE(sig'[o]) \in Nat
      BY <1>a, <3>2, PlacesFinite
    <3> QED BY SMTT(60), <1>a, <1>b, <3>2, <3>3
  <2>2. UNCHANGED <<gathered, applied, pending, remoteFP, pcUp>> /\ ~pcUp[p]
    BY <1>9 DEF CandidateFails
  <2>3. KeptAt(p)'
    BY SMTT(60), <1>a, <1>b, <1>c, <2>1, <2>2 DEF KeptAt
  <2>4. KeptAt(o)'
    BY <1>a, <1>b, <1>c, <2>1, <2>2 DEF KeptAt
  <2>5. TypeOK'
    BY <1>0, <1>9, <2>1
    DEF TypeOK, CandidateFails, CallFail, Goto, Signals, handshake, world, channels
  <2> QED BY <1>d, <2>3, <2>4, <2>5 DEF Kept
<1>10. CASE SetRemote(p)
  <2>1. KeptAt(p) /\ KeptAt(o)
    BY <1>c
  <2>2. applied[p] + pending[p] \in 0..maxICE
    BY <1>a, <1>b, <1>c, <2>1 DEF KeptAt
  <2>3. TypeOK'
    <3>1. applied' \in [Peers -> 0..maxICE] /\ pending' \in [Peers -> 0..maxICE]
      BY <1>b, <1>10, <2>2 DEF SetRemote
    <3> QED BY <1>0, <1>10, <3>1
    DEF TypeOK, SetRemote, Goto, machine, handshake, world, channels
  <2>4. /\ applied'[p] = applied[p] + pending[p] /\ pending'[p] = 0
        /\ applied'[o] = applied[o] /\ pending'[o] = pending[o]
        /\ remoteFP'[o] = remoteFP[o] /\ UNCHANGED <<sig, gathered, pcUp>>
    BY <1>a, <1>b, <1>10 DEF SetRemote, machine
  <2>5. KeptAt(p)'
    BY <1>a, <1>b, <1>c, <2>1, <2>4 DEF KeptAt
  <2>6. KeptAt(o)'
    BY <1>a, <1>b, <1>c, <2>1, <2>4 DEF KeptAt
  <2> QED BY <1>d, <2>3, <2>5, <2>6 DEF Kept
<1>e. CASE FlushFails(p)
  <2>1. /\ pending'[p] = 0 /\ pending'[o] = pending[o] /\ ~pcUp[p]
        /\ remoteFP'[o] = remoteFP[o] /\ UNCHANGED <<sig, gathered, applied, pcUp>>
    BY <1>a, <1>b, <1>e DEF FlushFails
  <2>2. KeptAt(p)'
    BY SMTT(60), <1>a, <1>b, <1>c, <2>1 DEF KeptAt
  <2>3. KeptAt(o)'
    BY <1>a, <1>b, <1>c, <2>1 DEF KeptAt
  <2>4. TypeOK'
    <3>1. pending' \in [Peers -> 0..maxICE] /\ remoteFP' \in [Peers -> BOOLEAN]
      BY <1>b, <1>e DEF FlushFails
    <3> QED BY <1>0, <1>e, <3>1
            DEF TypeOK, FlushFails, CallFail, Goto, handshake, world, channels
  <2> QED BY <1>d, <2>2, <2>3, <2>4 DEF Kept
<1>11. CASE CreateOffer(p) \/ ApplyRemote(p) \/ CreateAnswer(p)
  <2>1. TypeOK'
    <3>1. CASE CreateOffer(p)
      BY <1>0, <3>1 DEF TypeOK, CreateOffer, Goto, machine, handshake, world, channels
    <3>2. CASE ApplyRemote(p)
      BY <1>0, <3>2 DEF TypeOK, ApplyRemote, Goto, machine, handshake, world, channels
    <3>3. CASE CreateAnswer(p)
      BY <1>0, <3>3 DEF TypeOK, CreateAnswer, Goto, machine, handshake, world, channels
    <3> QED BY <1>11, <3>1, <3>2, <3>3
  <2>2. Kept'
    BY <1>0, <1>11 DEF Kept, KeptAt, CreateOffer, ApplyRemote, CreateAnswer, machine
  <2> QED BY <2>1, <2>2
<1>12. CASE EnterAuthPending(p) \/ SignalingFails(p)
  <2>1. TypeOK'
    <3>1. CASE EnterAuthPending(p)
      BY SMTT(60), <1>0, <3>1
      DEF TypeOK, EnterAuthPending, AfterEnter, Transition, Allowed,
          allowedTransitions, States, Sender, Goto, Peers, signals, handshake,
          world, channels
    <3>2. CASE SignalingFails(p)
      BY <1>0, <3>2
      DEF TypeOK, SignalingFails, CallFail, Goto, signals, handshake, world, channels
    <3> QED BY <1>12, <3>1, <3>2
  <2>2. Kept'
    BY <1>0, <1>12, KeptFrame DEF EnterAuthPending, SignalingFails
  <2> QED BY <2>1, <2>2
<1> QED BY <1>4, <1>6, <1>7, <1>8, <1>9, <1>10, <1>e, <1>11, <1>12
        DEF MainStep

\* What a send on the control channel does.
LEMMA CtlSent ==
  ASSUME TypeOK, NEW p \in Peers, NEW m \in Frames, ctl' = SendTo(ctl, Other(p), m)
  PROVE  /\ ctl' \in [Peers -> Seq(Frames)]
         /\ ctl'[Other(p)] = Append(ctl[Other(p)], m) /\ ctl'[p] = ctl[p]
         /\ \A r \in Peers : ctl[r] # <<>> => ctl'[r] # <<>>
<1>1. /\ Other(p) \in Peers /\ Other(p) # p /\ ctl \in [Peers -> Seq(Frames)]
      /\ ctl[Other(p)] \in Seq(Frames)
  BY DEF TypeOK, Peers, Other
<1>2. /\ Append(ctl[Other(p)], m) \in Seq(Frames) /\ Append(ctl[Other(p)], m) # <<>>
  BY <1>1
<1> QED BY <1>1, <1>2 DEF SendTo

\* What reading a frame does.
LEMMA CtlTaken ==
  ASSUME TypeOK, NEW p \in Peers, ctl[p] # <<>>, ctl' = [ctl EXCEPT ![p] = Tail(@)]
  PROVE  /\ ctl' \in [Peers -> Seq(Frames)] /\ Head(ctl[p]) \in Frames
         /\ ctl'[p] = Tail(ctl[p]) /\ ctl[p] \in Seq(Frames)
         /\ \A r \in Peers : r # p => ctl'[r] = ctl[r]
<1>1. ctl \in [Peers -> Seq(Frames)] /\ ctl[p] \in Seq(Frames)
  BY DEF TypeOK
<1>2. Tail(ctl[p]) \in Seq(Frames) /\ Head(ctl[p]) \in Frames
  BY <1>1
<1> QED BY <1>1, <1>2

\* The messages of the handshake are frames.
LEMMA FramesOK ==
  ASSUME TypeOK, NEW p \in Peers
  PROVE  /\ Hello(view[p]) \in Frames
         /\ \A s \in Shares :
              /\ Confirm(Tag("initiator", Keys(p, s))) \in Frames
              /\ Accept(view[p], Tag("responder", Keys(p, s))) \in Frames
<1>1. view[p] \in Views /\ view[p] \in Shares
  BY DEF TypeOK, Shares
<1>2. ASSUME NEW s \in Shares
      PROVE  Tag("initiator", Keys(p, s)) \in Tags /\ Tag("responder", Keys(p, s)) \in Tags
  BY <1>1, <1>2 DEF Tags, Tag, Keys
<1>3. Hello(view[p]) \in Frames
  BY <1>1 DEF Hello, Frames
<1>4. ASSUME NEW s \in Shares
      PROVE  /\ Confirm(Tag("initiator", Keys(p, s))) \in Frames
             /\ Accept(view[p], Tag("responder", Keys(p, s))) \in Frames
  BY <1>1, <1>2 DEF Confirm, Accept, Frames
<1> QED BY <1>3, <1>4

\* where the main loop and OnOpen may be
MainAt == {"offer", "sendOffer", "signals", "apply", "remote", "enterR", "local",
           "enterL", "sendAnswer", "left", "interrupted"} \cup Sender
OpenAt == {"no", "flag", "done"} \cup Sender

\* A step of maybeSendAuth or of the control channel's callbacks.
LEMMA AuthBase ==
  ASSUME BaseInv, NEW p \in Peers,
         \/ ControlOpens(p) \/ OnOpen(p) \/ ControlStep(p)
         \/ \E t \in {"main", "open"} : AuthStart(p, t)
  PROVE  BaseInv'
<1>0. TypeOK /\ Kept /\ Reading /\ Room
  BY DEF BaseInv
<1>1. UNCHANGED <<signals, pcUp, channels>>
  BY DEF ControlOpens, OnOpen, ControlStep, AuthStart, CheckPending, CheckOpen,
         ClaimStart, SendHello, ReadControl, StepAuth, SendReply,
         BecomeAuthenticated, CompleteAuth, machine, channels
<1>2. Kept' /\ Room'
  <2>1. Kept'
    BY <1>0, <1>1, KeptFrame
  <2>2. Room'
    BY <1>0, <1>1 DEF Room, channels
  <2> QED BY <2>1, <2>2
<1> SUFFICES TypeOK' /\ Reading'
  BY <1>2 DEF BaseInv
<1>3. CASE ControlOpens(p) \/ OnOpen(p)
  <2>1. TypeOK'
    <3>1. CASE ControlOpens(p)
      BY <1>0, <3>1
      DEF TypeOK, ControlOpens, machine, signals, world, channels
    <3>2. CASE OnOpen(p)
      BY <1>0, <3>2
      DEF TypeOK, OnOpen, Sender, machine, signals, world, channels
    <3> QED BY <1>3, <3>1, <3>2
  <2>2. Reading'
    BY <1>0, <1>3 DEF Reading, ControlOpens, OnOpen
  <2> QED BY <2>1, <2>2
<1>4. ASSUME NEW t \in {"main", "open"},
             CheckPending(p, t) \/ CheckOpen(p, t) \/ ClaimStart(p, t)
      PROVE  TypeOK' /\ Reading'
  <2>1. /\ main' \in [Peers -> MainAt]
        /\ opening' \in [Peers -> OpenAt]
    <3>1. PICK l \in {"signals", "sendAnswer", "done"} \cup Sender :
            /\ Step(p, t, l) /\ (t = "main" => l # "done")
            /\ (t = "open" => l \notin {"signals", "sendAnswer"})
      BY <1>4 DEF CheckPending, CheckOpen, ClaimStart, Return, Sender
    <3>2. main \in [Peers -> MainAt] /\ opening \in [Peers -> OpenAt]
      BY <1>0 DEF TypeOK, MainAt, OpenAt
    <3> QED BY <3>1, <3>2 DEF Step, Goto, MainAt, OpenAt, Sender
  <2>2. authStarted' \in [Peers -> BOOLEAN]
    BY <1>0, <1>4 DEF TypeOK, CheckPending, CheckOpen, ClaimStart
  <2>3. TypeOK'
    BY SMTT(60), <1>0, <1>4, <2>1, <2>2
    DEF TypeOK, MainAt, OpenAt, CheckPending, CheckOpen, ClaimStart, machine,
        signals, world, channels
  <2>4. Reading'
    BY <1>0, <1>4 DEF Reading, CheckPending, CheckOpen, ClaimStart
  <2> QED BY <2>3, <2>4
<1>5. ASSUME NEW t \in {"main", "open"}, SendHello(p, t)
      PROVE  TypeOK' /\ Reading'
  <2>1. /\ ctl' \in [Peers -> Seq(Frames)]
        /\ \A r \in Peers : ctl[r] # <<>> => ctl'[r] # <<>>
    <3>1. CASE ctl' = SendTo(ctl, Other(p), Hello(view[p]))
      BY <1>0, <3>1, CtlSent, FramesOK
    <3>2. CASE ctl' = ctl
      BY <1>0, <3>2 DEF TypeOK
    <3> QED BY <1>5, <3>1, <3>2 DEF SendHello
  <2>2. /\ main' \in [Peers -> MainAt]
        /\ opening' \in [Peers -> OpenAt]
    <3>1. PICK l \in {"signals", "sendAnswer", "done"} :
            /\ Step(p, t, l) /\ (t = "main" => l # "done")
            /\ (t = "open" => l \notin {"signals", "sendAnswer"})
      BY <1>5 DEF SendHello, Return
    <3>2. main \in [Peers -> MainAt] /\ opening \in [Peers -> OpenAt]
      BY <1>0 DEF TypeOK, MainAt, OpenAt
    <3> QED BY <3>1, <3>2 DEF Step, Goto, MainAt, OpenAt, Sender
  <2>3. TypeOK'
    BY <1>0, <1>5, <2>1, <2>2
    DEF TypeOK, MainAt, OpenAt, SendHello, CallFail, signals, world, channels
  <2>4. Reading'
    BY <1>0, <1>5, <2>1 DEF Reading, SendHello
  <2> QED BY <2>3, <2>4
<1>6. CASE ReadControl(p)
  <2>1. /\ ctl' \in [Peers -> Seq(Frames)]
        /\ \A r \in Peers : r # p => ctl'[r] = ctl[r]
    <3>1. CASE ctl' = ctl
      BY <1>0, <3>1 DEF TypeOK
    <3>2. CASE ctl' = [ctl EXCEPT ![p] = Tail(@)]
      <4>1. ctl[p] # <<>>
        BY <1>6 DEF ReadControl
      <4> QED BY <1>0, <3>2, <4>1, CtlTaken
    <3> QED BY <1>6, <3>1, <3>2 DEF ReadControl
  <2>4. \/ recv' = recv /\ recv[p] = "idle"
        \/ recv' = [recv EXCEPT ![p] = "step"] /\ ctl' = ctl /\ ctl[p] # <<>>
    BY <1>6 DEF ReadControl
  <2>2. TypeOK'
    BY ZenonT(60), <1>0, <1>6, <2>1
    DEF TypeOK, ReadControl, CallFail, signals, world, channels
  <2>3. Reading'
    BY SMTT(60), <1>0, <2>1, <2>4 DEF Reading, TypeOK
  <2> QED BY <2>2, <2>3
<1>7. CASE StepAuth(p)
  <2> DEFINE m == Head(ctl[p])
  <2>1. /\ ctl' \in [Peers -> Seq(Frames)] /\ m \in Frames
        /\ \A r \in Peers : r # p => ctl'[r] = ctl[r]
    BY <1>0, <1>7, CtlTaken DEF StepAuth, Reading
  <2> HIDE DEF m
  <2>2. /\ authState' \in [Peers -> {"INIT", "SENT_HELLO", "SENT_ACCEPT",
                                     "SENT_CONFIRM", "SUCCEEDED", "FAILED"}]
        /\ recv' \in [Peers -> {"idle", "step", "out", "authenticated", "complete"}]
        /\ failing' \in [Peers -> {"no", "result", "once"}]
        /\ recv'[p] # "step" /\ \A r \in Peers : r # p => recv'[r] = recv[r]
    <3>1. /\ authState \in [Peers -> {"INIT", "SENT_HELLO", "SENT_ACCEPT",
                                      "SENT_CONFIRM", "SUCCEEDED", "FAILED"}]
          /\ recv \in [Peers -> {"idle", "step", "out", "authenticated", "complete"}]
          /\ failing \in [Peers -> {"no", "result", "once"}]
      BY <1>0 DEF TypeOK
    <3>2. CASE Expected(p, m)
      BY <1>7, <3>1, <3>2 DEF StepAuth, m
    <3>3. CASE ~Expected(p, m)
      BY <1>7, <3>1, <3>3 DEF StepAuth, CallFail, m
    <3> QED BY <3>2, <3>3
  <2>3. peerShare' \in [Peers -> Shares]
    <3>1. CASE peerShare' = peerShare
      BY <1>0, <3>1 DEF TypeOK
    <3>2. CASE Expected(p, m) /\ m.kind # "confirm"
      <4>1. m.share \in Shares
        BY <2>1, <3>2 DEF Frames, Shares
      <4> QED BY ZenonT(60), <1>0, <1>7, <3>2, <4>1 DEF TypeOK, StepAuth, m
    <3> QED BY <1>7, <3>1, <3>2 DEF StepAuth, m
  <2>4. TypeOK'
    BY <1>0, <1>7, <2>1, <2>2, <2>3 DEF TypeOK, StepAuth, signals, world, channels
  <2>5. Reading'
    BY <1>0, <2>1, <2>2 DEF Reading
  <2> QED BY <2>4, <2>5
<1>8. CASE SendReply(p)
  <2>1. /\ ctl' \in [Peers -> Seq(Frames)]
        /\ \A r \in Peers : ctl[r] # <<>> => ctl'[r] # <<>>
    <3>1. peerShare[p] \in Shares
      BY <1>0 DEF TypeOK
    <3>2. CASE ctl' = ctl
      BY <1>0, <3>2 DEF TypeOK
    <3>3. CASE ctl' = SendTo(ctl, Other(p),
                             Confirm(Tag("initiator", Keys(p, peerShare[p]))))
      BY <1>0, <3>1, <3>3, CtlSent, FramesOK
    <3>4. CASE ctl' = SendTo(ctl, Other(p),
                             Accept(view[p], Tag("responder", Keys(p, peerShare[p]))))
      BY <1>0, <3>1, <3>4, CtlSent, FramesOK
    <3> QED BY <1>8, <3>2, <3>3, <3>4 DEF SendReply
  <2>2. /\ recv' \in [Peers -> {"idle", "step", "out", "authenticated", "complete"}]
        /\ failing' \in [Peers -> {"no", "result", "once"}]
        /\ recv'[p] # "step" /\ \A r \in Peers : r # p => recv'[r] = recv[r]
    <3>1. /\ recv \in [Peers -> {"idle", "step", "out", "authenticated", "complete"}]
          /\ failing \in [Peers -> {"no", "result", "once"}]
      BY <1>0 DEF TypeOK
    <3>2. CASE pcUp[p]
      BY <1>8, <3>1, <3>2 DEF SendReply
    <3>3. CASE ~pcUp[p]
      BY <1>8, <3>1, <3>3 DEF SendReply, CallFail
    <3> QED BY <3>2, <3>3
  <2>3. TypeOK'
    BY <1>0, <1>8, <2>1, <2>2 DEF TypeOK, SendReply, signals, world, channels
  <2>4. Reading'
    BY <1>0, <2>1, <2>2 DEF Reading
  <2> QED BY <2>3, <2>4
<1>9. CASE BecomeAuthenticated(p) \/ CompleteAuth(p)
  <2>2. TypeOK'
    <3>1. CASE BecomeAuthenticated(p)
      BY SMTT(60), <1>0, <3>1
      DEF TypeOK, BecomeAuthenticated, Transition, CallFail, States, Peers,
          signals, world, channels
    <3>2. CASE CompleteAuth(p)
      BY <1>0, <3>2
      DEF TypeOK, CompleteAuth, Complete, Peers, signals, world, channels
    <3> QED BY <1>9, <3>1, <3>2
  <2>3. Reading'
    BY SMTT(60), <1>0, <1>9 DEF Reading, TypeOK, BecomeAuthenticated, CompleteAuth
  <2> QED BY <2>2, <2>3
<1> QED BY <1>3, <1>4, <1>5, <1>6, <1>7, <1>8, <1>9 DEF ControlStep, AuthStart

\* A step of a payload channel.
LEMMA PayloadBase ==
  ASSUME BaseInv, OpenStreamChannel \/ CannotOpen \/ PayloadStep
  PROVE  BaseInv'
<1>0. TypeOK /\ Kept /\ Reading /\ Room
  BY DEF BaseInv
<1>1. UNCHANGED <<signals, pcUp, handshake>>
  BY DEF OpenStreamChannel, CannotOpen, PayloadStep, CreateChannel, ChannelOpened,
         ListenerResult, OnDataChannel, CheckInbound, AcceptInbound, machine
<1>2. Kept' /\ Reading'
  <2>1. Kept'
    BY <1>0, <1>1, KeptFrame
  <2>2. Reading'
    BY <1>0, <1>1 DEF Reading, handshake
  <2> QED BY <2>1, <2>2
<1>3. /\ opened \in 0..MaxStreams /\ payload \in 0..MaxStreams
      /\ streams \in 0..MaxStreams /\ MaxStreams \in Nat
      /\ "connect" \in Peers /\ "expose" \in Peers
  BY <1>0, BoundsAssumption DEF TypeOK, Peers
<1> SUFFICES TypeOK' /\ Room'
  BY <1>2 DEF BaseInv
<1>4. CASE OpenStreamChannel \/ CannotOpen
  <2>1. Room' /\ outbound' \in {"create", "error"}
    BY <1>0, <1>3, <1>4 DEF Room, OpenStreamChannel, CannotOpen
  <2>2. TypeOK'
    BY <1>0, <1>4, <2>1
    DEF TypeOK, OpenStreamChannel, CannotOpen, machine, signals, handshake, world
  <2> QED BY <2>1, <2>2
<1>5. CASE CreateChannel
  <2>1. /\ opened' \in 0..MaxStreams /\ payload' \in 0..MaxStreams /\ Room'
        /\ outbound' \in {"idle", "error", "transition"}
    BY <1>0, <1>3, <1>5 DEF Room, CreateChannel, StreamFailed
  <2>2. TypeOK'
    BY SMTT(60), <1>0, <1>5, <2>1
    DEF TypeOK, CreateChannel, machine, signals, handshake, world
  <2> QED BY <2>1, <2>2
<1>6. CASE ChannelOpened
  <2>1. Room'
    BY <1>0, <1>6 DEF Room, ChannelOpened, StreamFailed
  <2>2. TypeOK'
    BY <1>0, <1>3, <1>6
    DEF TypeOK, ChannelOpened, Transition, StreamFailed, States, signals, handshake, world
  <2> QED BY <2>1, <2>2
<1>7. CASE ListenerResult
  BY <1>0, <1>3, <1>7
  DEF TypeOK, Room, ListenerResult, CallFail, Goto, signals, handshake, world, channels
<1>8. CASE OnDataChannel
  <2>1. payload' \in 0..MaxStreams /\ Room'
    BY <1>0, <1>3, <1>8 DEF Room, OnDataChannel
  <2>2. TypeOK'
    BY SMTT(60), <1>0, <1>8, <2>1
    DEF TypeOK, OnDataChannel, machine, signals, handshake, world
  <2> QED BY <2>1, <2>2
<1>9. CASE CheckInbound
  <2>1. Room'
    BY <1>0, <1>3, <1>9 DEF Room, CheckInbound
  <2>2. TypeOK'
    BY <1>0, <1>3, <1>9
    DEF TypeOK, CheckInbound, CallFail, signals, handshake, world
  <2> QED BY <2>1, <2>2
<1>10. CASE AcceptInbound
  <2>1. streams' \in 0..MaxStreams /\ Room'
    BY <1>0, <1>3, <1>10 DEF Room, AcceptInbound
  <2>2. TypeOK'
    BY ZenonT(60), <1>0, <1>3, <1>10, <2>1
    DEF TypeOK, AcceptInbound, Transition, CallFail, States, signals, handshake, world
  <2> QED BY <2>1, <2>2
<1> QED BY <1>4, <1>5, <1>6, <1>7, <1>8, <1>9, <1>10 DEF PayloadStep

\* A step towards the end of a session.
LEMMA EndBase ==
  ASSUME BaseInv, NEW p \in Peers,
         EndStep(p) \/ ConnectionLost(p) \/ AuthResult(p) \/ Interrupt(p)
  PROVE  BaseInv'
<1>0. TypeOK /\ Kept /\ Reading /\ Room
  BY DEF BaseInv
<1>1. /\ UNCHANGED <<signals, handshake, channels>>
      /\ pcUp' = pcUp \/ pcUp' = [pcUp EXCEPT ![p] = FALSE]
  BY DEF EndStep, FailResult, FailOnce, FailClose, CloseSession, CloseResult,
         FinishClose, ConnectionLost, AuthResult, Interrupt, machine
<1>2. Kept' /\ Reading' /\ Room'
  <2>1. \A r \in Peers : pcUp'[r] => pcUp[r]
    BY ZenonT(60), <1>0, <1>1 DEF TypeOK
  <2>2. Kept'
    BY <1>0, <1>1, <2>1, KeptFrame
  <2>3. Reading' /\ Room'
    BY <1>0, <1>1 DEF Reading, Room, handshake, channels
  <2> QED BY <2>2, <2>3
<1> SUFFICES TypeOK'
  BY <1>2 DEF BaseInv
<1>3. CASE FailResult(p)
  BY <1>0, <1>3
  DEF TypeOK, FailResult, Complete, signals, handshake, world, channels, Peers
<1>4. CASE FailOnce(p)
  BY SMTT(60), <1>0, <1>4
  DEF TypeOK, FailOnce, Transition, States, signals, handshake, world, channels, Peers
<1>5. CASE FailClose(p)
  BY <1>0, <1>5 DEF TypeOK, FailClose, signals, handshake, world, channels
<1>6. CASE CloseSession(p)
  BY <1>0, <1>6
  DEF TypeOK, CloseSession, Transition, States, signals, handshake, world, channels, Peers
<1>7. CASE CloseResult(p)
  BY <1>0, <1>7
  DEF TypeOK, CloseResult, Complete, signals, handshake, world, channels, Peers
<1>8. CASE FinishClose(p)
  BY <1>0, <1>8
  DEF TypeOK, FinishClose, Transition, States, signals, handshake, world, channels, Peers
<1>9. CASE ConnectionLost(p)
  BY <1>0, <1>9
  DEF TypeOK, ConnectionLost, CallFail, signals, handshake, world, channels
<1>10. CASE AuthResult(p)
  BY SMTT(60), <1>0, <1>10
  DEF TypeOK, AuthResult, CallFail, Goto, signals, handshake, world, channels, Peers
<1>11. CASE Interrupt(p)
  BY <1>0, <1>11
  DEF TypeOK, Interrupt, Goto, machine, signals, handshake, world, channels
<1> QED BY <1>3, <1>4, <1>5, <1>6, <1>7, <1>8, <1>9, <1>10, <1>11 DEF EndStep

\* Every step of the session keeps the types and the counts.
LEMMA NextBase ==
  ASSUME BaseInv, [Next]_vars
  PROVE  BaseInv'
<1>1. ASSUME NEW p \in Peers, MainStep(p) \/ Trickle(p) PROVE BaseInv'
  BY <1>1, MainBase
<1>2. ASSUME NEW p \in Peers,
             \/ ControlOpens(p) \/ OnOpen(p) \/ ControlStep(p)
             \/ \E t \in {"main", "open"} : AuthStart(p, t)
      PROVE  BaseInv'
  BY <1>2, AuthBase
<1>3. CASE OpenStreamChannel \/ CannotOpen \/ PayloadStep
  BY <1>3, PayloadBase
<1>4. ASSUME NEW p \in Peers,
             EndStep(p) \/ ConnectionLost(p) \/ AuthResult(p) \/ Interrupt(p)
      PROVE  BaseInv'
  BY <1>4, EndBase
<1>5. CASE UNCHANGED vars
  BY <1>5 DEF BaseInv, TypeOK, Kept, KeptAt, Reading, Room, vars, machine, signals,
              handshake, world, channels
<1> QED BY <1>1, <1>2, <1>3, <1>4, <1>5 DEF Next, Settled

\* The first state.
LEMMA InitBase ==
  ASSUME Init
  PROVE  BaseInv
<1>1. CountICE(<<>>) = 0
  <2>1. Places(<<>>) = {}
    BY DEF Places
  <2> QED BY <2>1, FS_EmptySet DEF CountICE, Places
<1>2. PICK s \in Scenarios : view \in [Peers -> s.views] /\ faults = s.faults
                             /\ maxICE = s.ice
  BY DEF Init
<1>3. view \in [Peers -> Views] /\ faults \subseteq FaultKinds /\ maxICE \in Nat
  BY <1>2, ScenariosAssumption
<1>4. TypeOK
  <2>1. /\ sig \in [Peers -> Seq({"offer", "answer", "ice"})]
        /\ ctl \in [Peers -> Seq(Frames)] /\ peerShare \in [Peers -> Shares]
    BY DEF Init, Shares
  <2>2. /\ main \in [Peers -> MainAt] /\ opening \in [Peers -> OpenAt]
        /\ state \in [Peers -> States]
    BY DEF Init, MainAt, OpenAt, States
  <2>3. /\ gathered \in [Peers -> 0..maxICE]
        /\ pending \in [Peers -> 0..maxICE] /\ applied \in [Peers -> 0..maxICE]
        /\ {opened, payload, streams} \subseteq 0..MaxStreams
    BY <1>3, BoundsAssumption DEF Init
  <2> QED BY <1>3, <2>1, <2>2, <2>3 DEF Init, TypeOK, MainAt, OpenAt
<1>5. Kept /\ Reading /\ Room
  BY <1>1, <1>3, BoundsAssumption DEF Init, Kept, KeptAt, Reading, Room, Peers, Other
<1> QED BY <1>4, <1>5 DEF BaseInv

\* BaseInv holds throughout.
LEMMA BaseHolds == Spec => []BaseInv
<1> QED BY InitBase, NextBase, PTL DEF Spec

\* The types: what the queues carry, that every candidate count stays within
\* what was gathered, that expose never gets more payload channels than
\* connect opened.
THEOREM TypeCorrect == Spec => []TypeOK
<1>1. BaseInv => TypeOK
  BY DEF BaseInv
<1> QED BY <1>1, BaseHolds, PTL

\* AddRemoteCandidate and setRemoteDescription lose no candidate: for any
\* number of them and any interleaving with the offer and the answer, each is
\* on its way, queued or given to pion, and none stays queued once there is a
\* remote description.
THEOREM CandidatesKeptAlways == Spec => []CandidatesKept
<1>1. BaseInv => CandidatesKept
  BY DEF BaseInv, Kept, KeptAt, CandidatesKept
<1> QED BY <1>1, BaseHolds, PTL

-----------------------------------------------------------------------------
(* The result and the session state. *)

\* What the goroutines that are between two steps already know about the
\* result: whoever is past completeAuthResult in fail() or Close(), and the
\* two ends of a payload channel that have checked.
Promised ==
  \A p \in Peers :
    /\ recv[p] = "complete" => state[p] \notin {"SIGNALING", "AUTH_PENDING"}
    /\ failing[p] = "once" => result[p] # "none"
    /\ once[p] = "closed" => result[p] # "none"

Checked ==
  /\ outbound \in {"create", "transition"} => result["connect"] = "ok"
  /\ inbound = "transition" => result["expose"] = "ok"

ResultInv == StateMatchesResult /\ Promised /\ Checked

\* No step separates the result from the session state.
LEMMA NextResult ==
  ASSUME TypeOK, ResultInv, [Next]_vars
  PROVE  ResultInv'
<1> USE DEF TypeOK, ResultInv, StateMatchesResult, Promised, Checked, Peers,
            machine, handshake, channels
<1>1. ASSUME NEW p \in Peers, MainStep(p) \/ Trickle(p) PROVE ResultInv'
  <2>1. CASE EnterAuthPending(p)
    BY SMTT(60), <2>1 DEF EnterAuthPending, Transition, Allowed, allowedTransitions
  <2>2. CASE SignalingFails(p) \/ FlushFails(p) \/ CandidateFails(p)
    BY SMTT(60), <2>2 DEF SignalingFails, FlushFails, CandidateFails, CallFail
  <2>3. CASE UNCHANGED <<machine, recv, outbound, inbound>>
    BY <2>3
  <2> QED BY <1>1, <2>1, <2>2, <2>3
          DEF MainStep, CreateOffer, SendOffer, ReadICE, ReadSDP, ApplyRemote,
              SetRemote, CreateAnswer, SendAnswer, Trickle
<1>2. ASSUME NEW p \in Peers,
             \/ ControlOpens(p) \/ OnOpen(p)
             \/ \E t \in {"main", "open"} : AuthStart(p, t)
      PROVE ResultInv'
  <2>1. /\ UNCHANGED <<state, result, once, verdict, recv, outbound, inbound>>
        /\ failing' = failing \/ CallFail(p)
    BY <1>2 DEF ControlOpens, OnOpen, AuthStart, CheckPending, CheckOpen,
                ClaimStart, SendHello
  <2> QED BY SMTT(60), <2>1 DEF CallFail
<1>3. ASSUME NEW p \in Peers, ControlStep(p) PROVE ResultInv'
  <2>1. CASE ReadControl(p) \/ StepAuth(p) \/ SendReply(p)
    <3>1. /\ UNCHANGED <<state, result, once, verdict, outbound, inbound>>
          /\ failing' = failing \/ CallFail(p)
          /\ \/ recv' = recv
             \/ \E l \in {"idle", "step", "out", "authenticated"} :
                  recv' = [recv EXCEPT ![p] = l]
      BY <2>1 DEF ReadControl, StepAuth, SendReply
    <3> QED BY SMTT(60), <3>1 DEF CallFail
  <2>2. CASE BecomeAuthenticated(p)
    BY SMTT(60), <2>2
    DEF BecomeAuthenticated, Transition, Allowed, allowedTransitions, CallFail
  <2>3. CASE CompleteAuth(p)
    BY SMTT(60), <2>3 DEF CompleteAuth, Complete
  <2> QED BY <1>3, <2>1, <2>2, <2>3 DEF ControlStep
<1>4. CASE OpenStreamChannel \/ CannotOpen \/ PayloadStep
  <2>1. CASE OpenStreamChannel \/ CannotOpen \/ CreateChannel
    BY SMTT(60), <2>1 DEF OpenStreamChannel, CannotOpen, CreateChannel, StreamFailed,
                MayStream, IsAuthenticated
  <2>2. CASE ChannelOpened
    BY <2>2 DEF ChannelOpened, StreamFailed, Transition, Allowed, allowedTransitions
  <2>3. CASE ListenerResult \/ OnDataChannel
    BY SMTT(60), <2>3 DEF ListenerResult, OnDataChannel, CallFail
  <2>4. CASE CheckInbound
    BY SMTT(60), <2>4 DEF CheckInbound, MayStream, IsAuthenticated, CallFail
  <2>5. CASE AcceptInbound
    BY SMTT(60), <2>5
    DEF AcceptInbound, Transition, Allowed, allowedTransitions, CallFail
  <2> QED BY <1>4, <2>1, <2>2, <2>3, <2>4, <2>5 DEF PayloadStep
<1>5. ASSUME NEW p \in Peers, EndStep(p) PROVE ResultInv'
  <2>1. CASE FailResult(p)
    BY SMTT(60), <2>1 DEF FailResult, Complete
  <2>2. CASE FailOnce(p)
    BY SMTT(60), <2>2 DEF FailOnce, Transition, Allowed, allowedTransitions
  <2>3. CASE FailClose(p)
    BY SMTT(60), <2>3 DEF FailClose
  <2>4. CASE CloseSession(p)
    BY SMTT(60), <2>4 DEF CloseSession, Transition, Allowed, allowedTransitions
  <2>5. CASE CloseResult(p)
    BY SMTT(60), <2>5 DEF CloseResult, Complete
  <2>6. CASE FinishClose(p)
    BY SMTT(60), <2>6 DEF FinishClose, Transition, Allowed, allowedTransitions
  <2> QED BY <1>5, <2>1, <2>2, <2>3, <2>4, <2>5, <2>6 DEF EndStep
<1>6. ASSUME NEW p \in Peers, ConnectionLost(p) \/ AuthResult(p) \/ Interrupt(p)
      PROVE ResultInv'
  BY SMTT(60), <1>6 DEF ConnectionLost, AuthResult, Interrupt, CallFail
<1>7. CASE UNCHANGED vars
  BY <1>7 DEF vars
<1> QED BY <1>1, <1>2, <1>3, <1>4, <1>5, <1>6, <1>7 DEF Next, Settled

\* The state machine of state.go and the result of completeAuthResult agree,
\* whichever of the goroutines inside fail, Close and the handshake comes
\* first: WaitAuthenticated never reports success for a session that is still
\* in AUTH_PENDING, a session never streams or says FAILED or CLOSED while
\* WaitAuthenticated still blocks.
THEOREM StateMatchesResultAlways == Spec => []StateMatchesResult
<1>1. Init => ResultInv
  BY DEF Init, ResultInv, StateMatchesResult, Promised, Checked, Peers
<1>2. TypeOK /\ ResultInv /\ [Next]_vars => ResultInv'
  BY NextResult
<1>3. ResultInv => StateMatchesResult
  BY DEF ResultInv
<1> QED BY <1>1, <1>2, <1>3, TypeCorrect, PTL DEF Spec

-----------------------------------------------------------------------------
(* Mutual authentication. *)

\* What a frame on its way to p proves: an accept was tagged from the view of
\* expose, a confirm was sent by a connect peer that had succeeded.
Vouched(p, m, v, a) ==
  /\ p = "connect" /\ m.kind = "accept" => m.tag.key.view = v
  /\ p = "expose" /\ m.kind = "confirm" => a = "SUCCEEDED"

Letters ==
  \A p \in Peers : \A i \in DOMAIN ctl[p] :
    Vouched(p, ctl[p][i], view["expose"], authState["connect"])

\* The callback between two steps, and a result, come after SUCCEEDED.
Proof ==
  /\ recv["connect"] = "out" => authState["connect"] = "SUCCEEDED"
  /\ \A p \in Peers :
       /\ recv[p] \in {"authenticated", "complete"} => authState[p] = "SUCCEEDED"
       /\ result[p] = "ok" => authState[p] = "SUCCEEDED"

AuthInv == Letters /\ Proof /\ MutualAuth

\* The view of expose stays and connect's SUCCEEDED is final: what a frame
\* proves stays proved.
Lasting ==
  /\ view' = view
  /\ authState["connect"] = "SUCCEEDED" => authState'["connect"] = "SUCCEEDED"

\* A frame that is sent says no more than its sender knows.
LEMMA LettersSent ==
  ASSUME TypeOK, Letters, NEW p \in Peers, NEW m \in Frames, Lasting,
         ctl' = SendTo(ctl, Other(p), m),
         Vouched(Other(p), m, view["expose"], authState'["connect"])
  PROVE  Letters'
<1>1. /\ Other(p) \in Peers /\ ctl[Other(p)] \in Seq(Frames)
      /\ \A r \in Peers : r = p \/ r = Other(p)
  BY DEF TypeOK, Peers, Other
<1>2. ctl'[Other(p)] = Append(ctl[Other(p)], m) /\ ctl'[p] = ctl[p]
  BY CtlSent
<1>3. ASSUME NEW r \in Peers, NEW i \in DOMAIN ctl'[r]
      PROVE  Vouched(r, ctl'[r][i], view["expose"], authState'["connect"])
  <2>1. \/ i \in DOMAIN ctl[r] /\ ctl'[r][i] = ctl[r][i]
        \/ r = Other(p) /\ ctl'[r][i] = m
    <3>1. CASE r = p
      BY <1>2, <1>3, <3>1
    <3>2. CASE r = Other(p)
      BY SMTT(60), <1>1, <1>2, <1>3, <3>2
    <3> QED BY <1>1, <3>1, <3>2
  <2> QED BY <2>1 DEF Letters, Vouched, Lasting
<1> QED BY <1>3 DEF Letters, Lasting

\* A frame that is read leaves the others as they are.
LEMMA LettersTaken ==
  ASSUME TypeOK, Letters, NEW p \in Peers, ctl[p] # <<>>, Lasting,
         ctl' = [ctl EXCEPT ![p] = Tail(@)]
  PROVE  /\ Letters' /\ Head(ctl[p]) \in Frames
         /\ Vouched(p, Head(ctl[p]), view["expose"], authState["connect"])
<1>1. /\ ctl'[p] = Tail(ctl[p]) /\ ctl[p] \in Seq(Frames) /\ Head(ctl[p]) \in Frames
      /\ \A r \in Peers : r # p => ctl'[r] = ctl[r]
  BY CtlTaken
<1>2. ASSUME NEW r \in Peers, NEW i \in DOMAIN ctl'[r]
      PROVE  Vouched(r, ctl'[r][i], view["expose"], authState'["connect"])
  <2>1. CASE r # p
    BY <1>1, <1>2, <2>1 DEF Letters, Vouched, Lasting
  <2>2. CASE r = p
    <3>1. i \in DOMAIN Tail(ctl[p])
      BY <1>1, <1>2, <2>2
    <3>2. i + 1 \in DOMAIN ctl[p] /\ Tail(ctl[p])[i] = ctl[p][i + 1]
      BY <1>1, <3>1
    <3>3. Vouched(p, ctl[p][i + 1], view["expose"], authState["connect"])
      BY <3>2 DEF Letters
    <3> QED BY <1>1, <2>2, <3>2, <3>3 DEF Vouched, Lasting
  <2> QED BY <2>1, <2>2
<1>3. 1 \in DOMAIN ctl[p] /\ Head(ctl[p]) = ctl[p][1]
  BY <1>1
<1> QED BY <1>1, <1>2, <1>3 DEF Letters, Lasting

\* A step that leaves the frames alone, and what SUCCEEDED rests on.
LEMMA LettersFrame ==
  ASSUME Letters, ctl' = ctl, Lasting
  PROVE  Letters'
BY DEF Letters, Vouched, Lasting

\* Every step of the handshake, and every other one, keeps the authentication
\* mutual.
LEMMA NextAuth ==
  ASSUME BaseInv, ResultInv, AuthInv, [Next]_vars
  PROVE  AuthInv'
<1>0. TypeOK /\ Reading /\ ResultInv /\ Letters /\ Proof /\ MutualAuth
  BY DEF BaseInv, AuthInv
<1>1. ASSUME NEW p \in Peers, NEW t \in {"main", "open"}, SendHello(p, t)
      PROVE  AuthInv'
  <2>1. /\ UNCHANGED <<view, recv, result, opened, streams>>
        /\ \A r \in Peers : authState[r] = "SUCCEEDED" <=> authState'[r] = "SUCCEEDED"
    BY <1>0, <1>1 DEF SendHello, TypeOK, channels, world
  <2>4. Lasting
    BY <2>1 DEF Lasting, Peers
  <2>2. Letters'
    <3>1. CASE ctl' = ctl
      BY <1>0, <2>4, <3>1, LettersFrame
    <3>2. CASE ctl' = SendTo(ctl, Other(p), Hello(view[p]))
      <4>1. Hello(view[p]) \in Frames
        BY <1>0, FramesOK
      <4>2. Vouched(Other(p), Hello(view[p]), view["expose"], authState'["connect"])
        BY DEF Vouched, Hello
      <4> QED BY <1>0, <2>4, <3>2, <4>1, <4>2, LettersSent
    <3> QED BY <1>1, <3>1, <3>2 DEF SendHello
  <2>3. Proof' /\ MutualAuth'
    BY <1>0, <2>1 DEF Proof, MutualAuth, Agree, Peers
  <2> QED BY <2>2, <2>3 DEF AuthInv
<1>2. ASSUME NEW p \in Peers, ReadControl(p)
      PROVE  AuthInv'
  <2>1. UNCHANGED <<view, authState, result, opened, streams>>
    BY <1>2 DEF ReadControl, channels, world
  <2>5. Lasting
    BY <2>1 DEF Lasting
  <2>2. Letters'
    <3>1. CASE ctl' = ctl
      BY <1>0, <2>5, <3>1, LettersFrame
    <3>2. CASE ctl' = [ctl EXCEPT ![p] = Tail(@)]
      <4>1. ctl[p] # <<>>
        BY <1>2 DEF ReadControl
      <4> QED BY <1>0, <2>5, <3>2, <4>1, LettersTaken
    <3> QED BY <1>2, <3>1, <3>2 DEF ReadControl
  <2>3. recv' = recv \/ recv' = [recv EXCEPT ![p] = "step"]
    BY <1>2 DEF ReadControl
  <2>4. Proof' /\ MutualAuth'
    BY <1>0, <2>1, <2>3 DEF Proof, MutualAuth, Agree, Peers, TypeOK
  <2> QED BY <2>2, <2>4 DEF AuthInv
<1>3. ASSUME NEW p \in Peers, StepAuth(p)
      PROVE  AuthInv'
  <2> DEFINE m == Head(ctl[p])
  <2>1. /\ UNCHANGED <<view, result, opened, streams>>
        /\ ctl' = [ctl EXCEPT ![p] = Tail(@)] /\ ctl[p] # <<>> /\ recv[p] = "step"
    BY <1>0, <1>3 DEF StepAuth, channels, world, Reading
  <2>2. \A r \in Peers : authState[r] = "SUCCEEDED" => authState'[r] = "SUCCEEDED"
    BY SMTT(60), <1>0, <1>3 DEF StepAuth, Expected, TypeOK
  <2>3. /\ Letters' /\ m \in Frames
        /\ Vouched(p, m, view["expose"], authState["connect"])
    <3>1. Lasting
      BY <2>1, <2>2 DEF Lasting, Peers
    <3> QED BY <1>0, <2>1, <3>1, LettersTaken
  <2> HIDE DEF m
  <2>4. CASE Expected(p, m)
    <3>1. /\ authState' = [authState EXCEPT
               ![p] = IF m.kind = "hello" THEN "SENT_ACCEPT" ELSE "SUCCEEDED"]
          /\ recv' = [recv EXCEPT
               ![p] = IF m.kind = "confirm" THEN "authenticated" ELSE "out"]
      BY <1>3, <2>4 DEF StepAuth, m
    <3>2. CASE p = "connect"
      <4>1. /\ m.kind = "accept" /\ m.tag = Tag("responder", Keys(p, m.share))
        BY <2>4, <3>2 DEF Expected
      <4>2. m.tag.key.view = view["connect"] /\ m.tag.key.view = view["expose"]
        BY <2>3, <3>2, <4>1 DEF Vouched, Tag, Keys
      <4>3. Agree
        BY <4>2 DEF Agree
      <4> QED BY <1>0, <2>1, <2>3, <3>1, <3>2, <4>1, <4>3
              DEF AuthInv, Proof, MutualAuth, Agree, Peers, TypeOK
    <3>3. CASE p = "expose" /\ m.kind = "hello"
      <4>1. authState[p] = "INIT"
        BY <2>4, <3>3 DEF Expected
      <4> QED BY <1>0, <2>1, <2>2, <2>3, <3>1, <3>3, <4>1
              DEF AuthInv, Proof, MutualAuth, Agree, Peers, TypeOK
    <3>4. CASE p = "expose" /\ m.kind = "confirm"
      <4>1. authState["connect"] = "SUCCEEDED"
        BY <2>3, <3>4 DEF Vouched
      <4> QED BY <1>0, <2>1, <2>2, <2>3, <3>1, <3>4, <4>1
              DEF AuthInv, Proof, MutualAuth, Agree, Peers, TypeOK
    <3> QED BY <2>4, <3>2, <3>3, <3>4 DEF Expected
  <2>5. CASE ~Expected(p, m)
    <3>1. /\ authState' = [authState EXCEPT
               ![p] = IF @ = "SUCCEEDED" THEN @ ELSE "FAILED"]
          /\ recv' = [recv EXCEPT ![p] = "idle"]
      BY <1>3, <2>5 DEF StepAuth, m
    <3> QED BY <1>0, <2>1, <2>2, <2>3, <3>1
            DEF AuthInv, Proof, MutualAuth, Agree, Peers, TypeOK
  <2> QED BY <2>4, <2>5
<1>4. ASSUME NEW p \in Peers, SendReply(p)
      PROVE  AuthInv'
  <2>1. /\ UNCHANGED <<view, authState, result, opened, streams>> /\ recv[p] = "out"
        /\ \/ recv' = [recv EXCEPT ![p] = "idle"]
           \/ p = "connect" /\ recv' = [recv EXCEPT ![p] = "authenticated"]
    BY <1>4 DEF SendReply, channels, world
  <2>2. peerShare[p] \in Shares
    BY <1>0 DEF TypeOK
  <2>3. Lasting
    BY <2>1 DEF Lasting
  <2>4. Letters'
    <3>1. CASE ctl' = ctl
      BY <1>0, <2>3, <3>1, LettersFrame
    <3>2. CASE /\ p = "connect"
               /\ ctl' = SendTo(ctl, Other(p),
                                Confirm(Tag("initiator", Keys(p, peerShare[p]))))
      <4>1. Vouched(Other(p), Confirm(Tag("initiator", Keys(p, peerShare[p]))),
                    view["expose"], authState'["connect"])
        BY <1>0, <2>1, <3>2 DEF Proof, Vouched, Other, Confirm
      <4> QED BY <1>0, <2>2, <2>3, <3>2, <4>1, FramesOK, LettersSent
    <3>3. CASE /\ p = "expose"
               /\ ctl' = SendTo(ctl, Other(p),
                                Accept(view[p], Tag("responder", Keys(p, peerShare[p]))))
      <4>1. Vouched(Other(p), Accept(view[p], Tag("responder", Keys(p, peerShare[p]))),
                    view["expose"], authState'["connect"])
        BY <1>0, <2>1, <3>3 DEF Vouched, Other, Accept, Tag, Keys
      <4> QED BY <1>0, <2>2, <2>3, <3>3, <4>1, FramesOK, LettersSent
    <3> QED BY <1>4, <3>1, <3>2, <3>3 DEF SendReply, Peers
  <2>5. Proof' /\ MutualAuth'
    BY <1>0, <2>1 DEF Proof, MutualAuth, Agree, Peers, TypeOK
  <2> QED BY <2>4, <2>5 DEF AuthInv
<1>5. ASSUME NEW p \in Peers, BecomeAuthenticated(p) \/ CompleteAuth(p)
      PROVE  AuthInv'
  BY SMTT(60), <1>0, <1>5
  DEF AuthInv, Letters, Vouched, Proof, MutualAuth, Agree, Peers, TypeOK,
      BecomeAuthenticated, CompleteAuth, Complete, channels, world
<1>6. CASE PayloadStep
  <2>1. UNCHANGED <<ctl, view, authState, recv, result>>
    BY <1>6 DEF PayloadStep, CreateChannel, ChannelOpened, ListenerResult,
                OnDataChannel, CheckInbound, AcceptInbound, machine, handshake, world
  <2>2. /\ opened' # opened => outbound = "create"
        /\ streams' # streams => inbound = "transition"
    BY <1>6 DEF PayloadStep, CreateChannel, ChannelOpened, ListenerResult,
                OnDataChannel, CheckInbound, AcceptInbound, channels
  <2> QED BY <1>0, <2>1, <2>2, LettersFrame
          DEF AuthInv, Lasting, Proof, MutualAuth, Agree, Peers, ResultInv, Checked
<1>7. ASSUME NEW p \in Peers, EndStep(p)
      PROVE  AuthInv'
  <2>1. /\ UNCHANGED <<ctl, view, authState, recv, opened, streams>>
        /\ result' = result \/ Complete(p, "error")
    BY <1>7 DEF EndStep, FailResult, FailOnce, FailClose, CloseSession, CloseResult,
                FinishClose, handshake, world, channels
  <2> QED BY SMTT(60), <1>0, <2>1, LettersFrame
          DEF AuthInv, Lasting, Proof, MutualAuth, Agree, Peers, TypeOK, Complete
<1>8. CASE UNCHANGED <<ctl, view, authState, recv, result, opened, streams>>
  BY <1>0, <1>8, LettersFrame DEF AuthInv, Lasting, Proof, MutualAuth, Agree
<1>9. ASSUME NEW p \in Peers,
             \/ MainStep(p) \/ Trickle(p) \/ ControlOpens(p) \/ OnOpen(p)
             \/ ConnectionLost(p) \/ AuthResult(p) \/ Interrupt(p)
      PROVE  AuthInv'
  BY <1>8, <1>9
  DEF MainStep, CreateOffer, SendOffer, ReadICE, ReadSDP, ApplyRemote, SetRemote,
      CreateAnswer, EnterAuthPending, SignalingFails, FlushFails, CandidateFails,
      SendAnswer, Trickle, ControlOpens, OnOpen, ConnectionLost, AuthResult, Interrupt, machine,
      handshake, world, channels
<1>10. ASSUME NEW p \in Peers, NEW t \in {"main", "open"}, AuthStart(p, t)
       PROVE  AuthInv'
  BY <1>1, <1>8, <1>10
  DEF AuthStart, CheckPending, CheckOpen, ClaimStart, machine, world, channels
<1>11. CASE OpenStreamChannel \/ CannotOpen \/ UNCHANGED vars
  BY <1>8, <1>11
  DEF OpenStreamChannel, CannotOpen, vars, machine, handshake, world, channels
<1> QED BY <1>2, <1>3, <1>4, <1>5, <1>6, <1>7, <1>9, <1>10, <1>11
        DEF Next, ControlStep, Settled

\* Whichever end's authenticator says SUCCEEDED, both ends have the same
\* pairing secret, session id, fingerprints and scheme; expose never says so
\* first; and no payload channel is opened or handed to onStream otherwise.
\* For every set of views the two ends may have.
THEOREM MutualAuthAlways == Spec => []MutualAuth
<1>1. Init => AuthInv /\ ResultInv
  BY DEF Init, AuthInv, Letters, Proof, MutualAuth, ResultInv, StateMatchesResult,
         Promised, Checked, Peers
<1>2. BaseInv /\ ResultInv /\ AuthInv /\ [Next]_vars => ResultInv' /\ AuthInv'
  BY NextResult, NextAuth DEF BaseInv
<1>3. AuthInv => MutualAuth
  BY DEF AuthInv
<1> QED BY <1>1, <1>2, <1>3, BaseHolds, PTL DEF Spec

-----------------------------------------------------------------------------
(* Two ends that agree and are left alone. *)

\* Nothing has gone wrong at p yet.
Calm(p) ==
  /\ failing[p] = "no" /\ result[p] # "error" /\ once[p] = "free" /\ pcUp[p]
  /\ state[p] \in {"SIGNALING", "AUTH_PENDING", "AUTHENTICATED"}
  /\ main[p] \notin {"left", "interrupted"}
  /\ state[p] = "AUTHENTICATED" => authState[p] = "SUCCEEDED"
  /\ recv[p] \in {"step", "out", "authenticated"} => state[p] = "AUTH_PENDING"

\* The answer is sent after expose has entered AUTH_PENDING, so the transport
\* and with it the control channel come up after that.
AnswerFirst ==
  /\ main["expose"] \notin {"offer", "sendOffer"}
  /\ main["expose"] \in {"enterR", "local", "enterL"} => remoteFP["expose"]
  /\ main["expose"] = "enterL" => localFP["expose"]
  /\ \/ main["expose"] \in Sender \cup {"sendAnswer"}
     \/ \E i \in DOMAIN sig["connect"] : sig["connect"][i] # "ice"
     \/ main["connect"] \in {"apply", "remote"}
     \/ linkUp
     => state["expose"] # "SIGNALING"
  /\ \A p \in Peers : opening[p] # "no" => linkUp

\* One caller of maybeSendAuth claims authStarted and sends the hello.
OneHello ==
  /\ \/ main["connect"] \in {"opened", "claim", "send"}
     \/ opening["connect"] \in {"opened", "claim", "send"}
     \/ authState["connect"] # "INIT"
     => state["connect"] # "SIGNALING"
  /\ main["expose"] # "send" /\ opening["expose"] # "send"
  /\ main["connect"] = "send" \/ opening["connect"] = "send" =>
       authStarted["connect"] /\ authState["connect"] = "INIT"
  /\ ~(main["connect"] = "send" /\ opening["connect"] = "send")
  /\ authState["connect"] # "INIT" => authStarted["connect"]

\* The handshake of two ends that agree: one frame at a time, and each end
\* where that frame needs it.
Turn ==
  LET c == "connect"  e == "expose"
      done == {"authenticated", "complete", "idle"}
  IN
  /\ authState[e] # "INIT" => peerShare[e] = view[c]
  /\ \/ /\ authState[c] = "INIT" /\ authState[e] = "INIT"
        /\ recv[c] = "idle" /\ recv[e] = "idle"
        /\ ctl[c] = <<>> /\ ctl[e] = <<>>
     \/ /\ authState[c] = "SENT_HELLO" /\ authState[e] = "INIT"
        /\ recv[c] = "idle" /\ recv[e] \in {"idle", "step"}
        /\ ctl[c] = <<>> /\ ctl[e] = <<Hello(view[c])>>
     \/ /\ authState[c] = "SENT_HELLO" /\ authState[e] = "SENT_ACCEPT"
        /\ recv[c] = "idle" /\ recv[e] = "out"
        /\ ctl[c] = <<>> /\ ctl[e] = <<>>
     \/ /\ authState[c] = "SENT_HELLO" /\ authState[e] = "SENT_ACCEPT"
        /\ recv[c] \in {"idle", "step"} /\ recv[e] = "idle"
        /\ ctl[c] = <<Accept(view[e], Tag("responder", Keys(e, view[c])))>>
        /\ ctl[e] = <<>>
     \/ /\ authState[c] = "SUCCEEDED" /\ authState[e] = "SENT_ACCEPT"
        /\ recv[c] = "out" /\ recv[e] = "idle"
        /\ peerShare[c] = view[e]
        /\ ctl[c] = <<>> /\ ctl[e] = <<>>
     \/ /\ authState[c] = "SUCCEEDED" /\ authState[e] = "SENT_ACCEPT"
        /\ recv[c] \in done /\ recv[e] \in {"idle", "step"}
        /\ ctl[c] = <<>>
        /\ ctl[e] = <<Confirm(Tag("initiator", Keys(c, view[e])))>>
     \/ /\ authState[c] = "SUCCEEDED" /\ authState[e] = "SUCCEEDED"
        /\ recv[c] \in done /\ recv[e] \in done
        /\ ctl[c] = <<>> /\ ctl[e] = <<>>

Honest == Agree /\ faults = {} /\ opened = 0

Shut == outbound \in {"idle", "create"} /\ payload = 0 /\ inbound = "idle"

HonestBody ==
  (\A p \in Peers : Calm(p)) /\ Shut /\ AnswerFirst /\ OneHello /\ Turn

HonestInv == Honest => HonestBody

\* The frame that Step is looking at is the one it expects.
LEMMA FrameExpected ==
  ASSUME Agree, Turn, NEW p \in Peers, recv[p] = "step"
  PROVE  Expected(p, Head(ctl[p])) /\ Tail(ctl[p]) = <<>>
<1>1. CASE p = "expose" /\ authState["expose"] = "INIT"
  <2>1. ctl[p] = <<Hello(view["connect"])>>
    BY <1>1 DEF Turn
  <2> QED BY <1>1, <2>1 DEF Expected, Hello, Agree
<1>2. CASE p = "expose" /\ authState["expose"] # "INIT"
  <2>1. /\ authState[p] = "SENT_ACCEPT" /\ peerShare[p] = view["connect"]
        /\ ctl[p] = <<Confirm(Tag("initiator", Keys("connect", view["expose"])))>>
    BY <1>2 DEF Turn
  <2> QED BY <1>2, <2>1 DEF Expected, Confirm, Tag, Keys, Agree
<1>3. CASE p = "connect"
  <2>1. /\ authState[p] = "SENT_HELLO"
        /\ ctl[p] = <<Accept(view["expose"], Tag("responder",
                             Keys("expose", view["connect"])))>>
    BY <1>3 DEF Turn
  <2> QED BY <1>3, <2>1 DEF Expected, Accept, Tag, Keys, Agree
<1> QED BY <1>1, <1>2, <1>3 DEF Peers

\* A frame finds its receiver in AUTH_PENDING.
LEMMA ReceiverReady ==
  ASSUME HonestBody, NEW p \in Peers, ctl[p] # <<>>, opening[p] # "no"
  PROVE  state[p] = "AUTH_PENDING"
<1>1. authState[p] # "SUCCEEDED"
  BY DEF HonestBody, Turn, Peers
<1>2. state[p] # "SIGNALING"
  <2>1. CASE p = "expose"
    BY <2>1 DEF HonestBody, AnswerFirst, Peers
  <2>2. CASE p = "connect"
    <3>1. authState["connect"] # "INIT"
      BY <2>2 DEF HonestBody, Turn
    <3> QED BY <2>2, <3>1 DEF HonestBody, OneHello
  <2> QED BY <2>1, <2>2 DEF Peers
<1> QED BY <1>1, <1>2 DEF HonestBody, Calm

\* Where the signals of a queue are once the first is read.
LEMMA TailAt ==
  ASSUME NEW q \in Seq(Signals), q # <<>>
  PROVE  \A i \in DOMAIN Tail(q) : i + 1 \in DOMAIN q /\ Tail(q)[i] = q[i + 1]
OBVIOUS

\* The signalling steps: the answer follows AUTH_PENDING at expose.
LEMMA HonestMain ==
  ASSUME Initiator = "connect", TypeOK, Honest, HonestBody, NEW p \in Peers,
         MainStep(p) \/ Trickle(p) \/ ControlOpens(p) \/ OnOpen(p)
  PROVE  HonestBody'
<1> USE DEF Peers, Other, Calm
<1>0. /\ (\A q \in Peers : Calm(q)) /\ Shut /\ AnswerFirst /\ OneHello /\ Turn
      /\ ~SignalingFails(p) /\ ~FlushFails(p) /\ ~CandidateFails(p)
  BY DEF HonestBody, Honest, SignalingFails, FlushFails, CandidateFails
<1>1. UNCHANGED <<view, authState, authStarted, recv, ctl, peerShare, result, failing,
                  once, pcUp, channels>>
  BY <1>0 DEF MainStep, CreateOffer, SendOffer, ReadICE, ReadSDP, ApplyRemote,
         SetRemote, CreateAnswer, EnterAuthPending, SendAnswer, Trickle,
         ControlOpens, OnOpen, machine, handshake, world
<1>2. Turn' /\ Shut'
  BY <1>0, <1>1 DEF Turn, Keys, Shut, channels
<1> SUFFICES (\A q \in Peers : Calm(q))' /\ AnswerFirst' /\ OneHello'
  BY <1>2 DEF HonestBody
<1>3. CASE CreateOffer(p) \/ SendOffer(p)
  <2>1. (\A q \in Peers : Calm(q))' /\ OneHello'
    BY SMTT(60), <1>0, <1>3
    DEF TypeOK, OneHello, CreateOffer, SendOffer, Goto, machine, handshake
  <2>2. AnswerFirst'
    <3>1. CASE CreateOffer(p)
      BY <1>0, <3>1
      DEF TypeOK, AnswerFirst, Sender, CreateOffer, Goto, machine, handshake
    <3>2. CASE SendOffer(p)
      BY <1>0, <3>2
      DEF TypeOK, AnswerFirst, Sender, SendOffer, SendTo, Goto, machine, handshake
    <3> QED BY <1>3, <3>1, <3>2
  <2> QED BY <2>1, <2>2
<1>4. CASE Trickle(p)
  <2>1. (\A q \in Peers : Calm(q))' /\ OneHello'
    BY <1>0, <1>4 DEF OneHello, Trickle, machine, handshake
  <2>2. AnswerFirst'
    BY SMTT(60), <1>0, <1>4 DEF TypeOK, AnswerFirst, Trickle, SendTo, machine, handshake
  <2> QED BY <2>1, <2>2
<1>5. CASE ReadICE(p)
  <2>1. \A i \in DOMAIN sig'["connect"] : \E j \in DOMAIN sig["connect"] :
          sig'["connect"][i] = sig["connect"][j]
    <3>1. CASE p = "connect"
      <4>1. /\ sig["connect"] \in Seq(Signals) /\ sig["connect"] # <<>>
            /\ sig'["connect"] = Tail(sig["connect"])
        BY <1>5, <3>1 DEF TypeOK, Signals, ReadICE, Reads
      <4> QED BY <4>1, TailAt
    <3>2. CASE p # "connect"
      BY <1>5, <3>2 DEF TypeOK, ReadICE, Reads
    <3> QED BY <3>1, <3>2
  <2>2. UNCHANGED <<main, machine, localFP, remoteFP, linkUp, opening, authState,
                    authStarted, recv>>
    BY <1>5 DEF ReadICE, handshake
  <2> QED BY <1>0, <2>1, <2>2 DEF AnswerFirst, OneHello, machine
<1>6. CASE ReadSDP(p)
  BY SMTT(60), <1>0, <1>6
  DEF TypeOK, AnswerFirst, OneHello, Sender, ReadSDP, Reads, Goto, machine, handshake
<1>7. CASE ApplyRemote(p) \/ SetRemote(p) \/ CreateAnswer(p)
  BY SMTT(60), <1>0, <1>7
  DEF TypeOK, AnswerFirst, OneHello, Sender, ApplyRemote, SetRemote, CreateAnswer,
      Goto, machine, handshake
<1>8. CASE EnterAuthPending(p)
  BY SMTT(60), <1>0, <1>8
  DEF TypeOK, AnswerFirst, OneHello, Sender, EnterAuthPending, AfterEnter, Goto,
      Transition, Allowed, allowedTransitions, signals, handshake
<1>9. CASE SendAnswer(p)
  BY SMTT(60), <1>0, <1>9
  DEF TypeOK, AnswerFirst, OneHello, Sender, SendAnswer, SendTo, Goto, machine, handshake
<1>10. CASE ControlOpens(p) \/ OnOpen(p)
  BY <1>0, <1>10
  DEF TypeOK, AnswerFirst, OneHello, ControlOpens, OnOpen, machine, signals
<1> QED BY <1>0, <1>3, <1>4, <1>5, <1>6, <1>7, <1>8, <1>9, <1>10 DEF MainStep

\* maybeSendAuth: of its concurrent callers one sends the hello.
LEMMA HonestStart ==
  ASSUME TypeOK, HonestBody, NEW p \in Peers, NEW t \in {"main", "open"}, AuthStart(p, t)
  PROVE  HonestBody'
<1> USE DEF Peers, Other, Calm, At, Step, Return, Goto
<1>0. (\A q \in Peers : Calm(q)) /\ Shut /\ AnswerFirst /\ OneHello /\ Turn
  BY DEF HonestBody
<1>1. CASE CheckPending(p, t) \/ CheckOpen(p, t) \/ ClaimStart(p, t)
  <2>1. UNCHANGED <<view, authState, recv, ctl, peerShare, machine, signals, channels>>
    BY <1>1 DEF CheckPending, CheckOpen, ClaimStart, world
  <2>2. Turn' /\ Shut'
    BY <1>0, <2>1 DEF Turn, Keys, Shut, channels
  <2>3. (\A q \in Peers : Calm(q))' /\ AnswerFirst' /\ OneHello'
    <3>1. CASE CheckPending(p, t)
      BY SMTT(60), <1>0, <2>1, <3>1
      DEF TypeOK, AnswerFirst, OneHello, Sender, CheckPending, machine, signals
    <3>2. CASE CheckOpen(p, t)
      BY SMTT(60), <1>0, <2>1, <3>2
      DEF TypeOK, AnswerFirst, OneHello, Sender, CheckOpen, machine, signals
    <3>3. CASE ClaimStart(p, t)
      BY SMTT(60), <1>0, <2>1, <3>3
      DEF TypeOK, AnswerFirst, OneHello, Sender, ClaimStart, machine, signals
    <3> QED BY <1>1, <3>1, <3>2, <3>3
  <2> QED BY <2>2, <2>3 DEF HonestBody
<1>2. CASE SendHello(p, t)
  <2>1. p = "connect" /\ authState[p] = "INIT" /\ pcUp[p]
    BY <1>0, <1>2 DEF SendHello, OneHello
  <2>2. /\ ctl' = [ctl EXCEPT !["expose"] = Append(@, Hello(view["connect"]))]
        /\ authState' = [authState EXCEPT !["connect"] = "SENT_HELLO"]
        /\ UNCHANGED <<state, result, failing, once, pcUp, signals, view, recv,
                       authStarted, peerShare, channels>>
    BY <1>2, <2>1 DEF SendHello, SendTo, world
  <2>3. Turn'
    <3>1. /\ authState["expose"] = "INIT"
          /\ recv["connect"] = "idle" /\ recv["expose"] = "idle"
          /\ ctl["connect"] = <<>> /\ ctl["expose"] = <<>>
      BY <1>0, <2>1 DEF Turn
    <3>2. /\ authState'["connect"] = "SENT_HELLO" /\ authState'["expose"] = "INIT"
          /\ ctl'["connect"] = <<>>
          /\ ctl'["expose"] = <<Hello(view["connect"])>>
      BY <2>2, <3>1 DEF TypeOK
    <3> QED BY <2>2, <3>1, <3>2 DEF Turn, Hello
  <2>4. (\A q \in Peers : Calm(q))' /\ AnswerFirst' /\ OneHello' /\ Shut'
    BY SMTT(60), <1>0, <1>2, <2>1, <2>2
    DEF TypeOK, AnswerFirst, OneHello, Shut, Sender, SendHello, signals, channels
  <2> QED BY <2>3, <2>4 DEF HonestBody
<1> QED BY <1>1, <1>2 DEF AuthStart

\* handleControlMessage: each end is where the next frame needs it.
LEMMA HonestControl ==
  ASSUME TypeOK, Agree, HonestBody, NEW p \in Peers, ControlStep(p)
  PROVE  HonestBody'
<1> USE DEF Peers, Other
<1>0. (\A q \in Peers : Calm(q)) /\ Shut /\ AnswerFirst /\ OneHello /\ Turn
  BY DEF HonestBody
<1>1. UNCHANGED <<view, main, opening, signals, channels, once, pcUp, authStarted>>
  BY DEF ControlStep, ReadControl, StepAuth, SendReply, BecomeAuthenticated,
         CompleteAuth, world
<1>2. CASE ReadControl(p)
  <2>1. state[p] = "AUTH_PENDING"
    BY <1>2, ReceiverReady DEF ReadControl
  <2>2. /\ recv' = [recv EXCEPT ![p] = "step"] /\ recv[p] = "idle" /\ ctl[p] # <<>>
        /\ UNCHANGED <<failing, ctl, state, result, authState, peerShare>>
    BY <1>2, <2>1 DEF ReadControl
  <2>3. Turn'
    <3>1. /\ recv'[p] = "step" /\ \A q \in Peers : q # p => recv'[q] = recv[q]
      BY <2>2 DEF TypeOK
    <3> QED BY <1>0, <1>1, <2>2, <3>1 DEF Turn, Keys
  <2>4. (\A q \in Peers : Calm(q))'
    BY SMTT(60), <1>0, <1>1, <2>1, <2>2 DEF TypeOK, Calm
  <2>5. AnswerFirst' /\ OneHello' /\ Shut'
    BY <1>0, <1>1, <2>2 DEF AnswerFirst, OneHello, Shut, signals, channels
  <2> QED BY <2>3, <2>4, <2>5 DEF HonestBody
<1>3. CASE StepAuth(p)
  <2> DEFINE m == Head(ctl[p])
  <2>1. recv[p] = "step" /\ Expected(p, m) /\ Tail(ctl[p]) = <<>>
    BY <1>0, <1>3, FrameExpected DEF StepAuth
  <2>2. /\ ctl' = [ctl EXCEPT ![p] = <<>>]
        /\ authState' = [authState EXCEPT
             ![p] = IF m.kind = "hello" THEN "SENT_ACCEPT" ELSE "SUCCEEDED"]
        /\ peerShare' = IF m.kind = "confirm" THEN peerShare
                        ELSE [peerShare EXCEPT ![p] = m.share]
        /\ recv' = [recv EXCEPT
             ![p] = IF m.kind = "confirm" THEN "authenticated" ELSE "out"]
        /\ UNCHANGED <<failing, state, result>>
    BY <1>3, <2>1 DEF StepAuth
  <2>3. (\A q \in Peers : Calm(q))'
    BY SMTT(60), <1>0, <1>1, <2>1, <2>2 DEF TypeOK, Calm
  <2>4. /\ p = "connect" => authState[p] = "SENT_HELLO"
    BY <2>1 DEF Expected
  <2>5. AnswerFirst' /\ Shut'
    BY <1>0, <1>1, <2>2 DEF AnswerFirst, Shut, signals, channels
  <2>6. OneHello'
    BY <1>0, <1>1, <2>2, <2>4 DEF OneHello, TypeOK
  <2>7. Turn'
    <3>1. CASE p = "expose" /\ authState[p] = "INIT"
      <4>1. /\ ctl[p] = <<Hello(view["connect"])>> /\ ctl["connect"] = <<>>
            /\ authState["connect"] = "SENT_HELLO" /\ recv["connect"] = "idle"
        BY <1>0, <2>1, <3>1 DEF Turn
      <4>2. m.kind = "hello" /\ m.share = view["connect"]
        BY <4>1 DEF Hello
      <4>3. /\ authState'["expose"] = "SENT_ACCEPT" /\ authState'["connect"] = "SENT_HELLO"
            /\ recv'["expose"] = "out" /\ recv'["connect"] = "idle"
            /\ ctl'["expose"] = <<>> /\ ctl'["connect"] = <<>>
            /\ peerShare'["expose"] = view["connect"]
        BY <2>2, <3>1, <4>1, <4>2 DEF TypeOK
      <4> QED BY <1>1, <4>3 DEF Turn
    <3>2. CASE p = "expose" /\ authState[p] # "INIT"
      <4>1. /\ ctl[p] = <<Confirm(Tag("initiator", Keys("connect", view["expose"])))>>
            /\ ctl["connect"] = <<>> /\ authState["connect"] = "SUCCEEDED"
            /\ recv["connect"] \in {"authenticated", "complete", "idle"}
            /\ peerShare["expose"] = view["connect"]
        BY <1>0, <2>1, <3>2 DEF Turn
      <4>2. m.kind = "confirm"
        BY <4>1 DEF Confirm
      <4>3. /\ authState'["expose"] = "SUCCEEDED" /\ authState'["connect"] = "SUCCEEDED"
            /\ recv'["expose"] = "authenticated" /\ recv'["connect"] = recv["connect"]
            /\ ctl'["expose"] = <<>> /\ ctl'["connect"] = <<>>
            /\ peerShare'["expose"] = view["connect"]
        BY <2>2, <3>2, <4>1, <4>2 DEF TypeOK
      <4> QED BY <1>1, <4>1, <4>3 DEF Turn
    <3>3. CASE p = "connect"
      <4>1. /\ ctl[p] = <<Accept(view["expose"], Tag("responder",
                                 Keys("expose", view["connect"])))>>
            /\ ctl["expose"] = <<>> /\ authState["expose"] = "SENT_ACCEPT"
            /\ recv["expose"] = "idle" /\ peerShare["expose"] = view["connect"]
        BY <1>0, <2>1, <3>3 DEF Turn
      <4>2. m.kind = "accept" /\ m.share = view["expose"]
        BY <4>1 DEF Accept
      <4>3. /\ authState'["connect"] = "SUCCEEDED" /\ authState'["expose"] = "SENT_ACCEPT"
            /\ recv'["connect"] = "out" /\ recv'["expose"] = "idle"
            /\ ctl'["expose"] = <<>> /\ ctl'["connect"] = <<>>
            /\ peerShare'["connect"] = view["expose"]
            /\ peerShare'["expose"] = view["connect"]
        BY <2>2, <3>3, <4>1, <4>2 DEF TypeOK
      <4> QED BY <1>1, <4>3 DEF Turn
    <3> QED BY <3>1, <3>2, <3>3
  <2> QED BY <2>3, <2>5, <2>6, <2>7 DEF HonestBody
<1>4. CASE SendReply(p)
  <2>1. pcUp[p] /\ recv[p] = "out"
    BY <1>0, <1>4 DEF SendReply, Calm
  <2>2. /\ recv' = [recv EXCEPT ![p] = IF p = "connect" THEN "authenticated" ELSE "idle"]
        /\ UNCHANGED <<failing, state, result, authState, peerShare>>
    BY <1>4, <2>1 DEF SendReply
  <2>3. (\A q \in Peers : Calm(q))'
    BY SMTT(60), <1>0, <1>1, <2>1, <2>2 DEF TypeOK, Calm
  <2>4. AnswerFirst' /\ OneHello' /\ Shut'
    BY <1>0, <1>1, <2>2 DEF AnswerFirst, OneHello, Shut, signals, channels
  <2>5. Turn'
    <3>1. CASE p = "connect"
      <4>1. /\ authState["connect"] = "SUCCEEDED" /\ authState["expose"] = "SENT_ACCEPT"
            /\ recv["expose"] = "idle" /\ peerShare["connect"] = view["expose"]
            /\ ctl["connect"] = <<>> /\ ctl["expose"] = <<>>
            /\ peerShare["expose"] = view["connect"]
        BY <1>0, <2>1, <3>1 DEF Turn
      <4>2. ctl' = [ctl EXCEPT !["expose"] =
                      Append(@, Confirm(Tag("initiator", Keys("connect", view["expose"]))))]
        BY <1>4, <2>1, <3>1, <4>1 DEF SendReply, SendTo
      <4>3. /\ ctl'["expose"] = <<Confirm(Tag("initiator", Keys("connect", view["expose"])))>>
            /\ ctl'["connect"] = <<>>
            /\ recv'["connect"] = "authenticated" /\ recv'["expose"] = "idle"
        BY <2>2, <3>1, <4>1, <4>2 DEF TypeOK
      <4> QED BY <1>1, <2>2, <4>1, <4>3 DEF Turn, Keys
    <3>2. CASE p = "expose"
      <4>1. /\ authState["connect"] = "SENT_HELLO" /\ authState["expose"] = "SENT_ACCEPT"
            /\ recv["connect"] = "idle" /\ peerShare["expose"] = view["connect"]
            /\ ctl["connect"] = <<>> /\ ctl["expose"] = <<>>
        BY <1>0, <2>1, <3>2 DEF Turn
      <4>2. ctl' = [ctl EXCEPT !["connect"] =
                      Append(@, Accept(view["expose"], Tag("responder",
                                       Keys("expose", view["connect"]))))]
        BY <1>4, <2>1, <3>2, <4>1 DEF SendReply, SendTo
      <4>3. /\ ctl'["connect"] = <<Accept(view["expose"], Tag("responder",
                                          Keys("expose", view["connect"])))>>
            /\ ctl'["expose"] = <<>>
            /\ recv'["connect"] = "idle" /\ recv'["expose"] = "idle"
        BY <2>2, <3>2, <4>1, <4>2 DEF TypeOK
      <4> QED BY <1>1, <2>2, <4>1, <4>3 DEF Turn, Keys
    <3> QED BY <3>1, <3>2
  <2> QED BY <2>3, <2>4, <2>5 DEF HonestBody
<1>5. CASE BecomeAuthenticated(p)
  <2>1. /\ recv[p] = "authenticated" /\ state[p] = "AUTH_PENDING"
        /\ authState[p] = "SUCCEEDED"
    BY <1>0, <1>5 DEF BecomeAuthenticated, Calm, Turn
  <2>2. /\ recv' = [recv EXCEPT ![p] = "complete"]
        /\ state' = [state EXCEPT ![p] = "AUTHENTICATED"]
        /\ UNCHANGED <<failing, result, authState, peerShare, ctl>>
    BY <1>5, <2>1 DEF BecomeAuthenticated, Transition, Allowed, allowedTransitions
  <2>3. (\A q \in Peers : Calm(q))'
    BY SMTT(60), <1>0, <1>1, <2>1, <2>2 DEF TypeOK, Calm
  <2>4. AnswerFirst' /\ OneHello' /\ Shut'
    BY <1>0, <1>1, <2>2 DEF TypeOK, AnswerFirst, OneHello, Shut, signals, channels
  <2>5. Turn'
    BY <1>0, <1>1, <2>1, <2>2 DEF TypeOK, Turn, Keys
  <2> QED BY <2>3, <2>4, <2>5 DEF HonestBody
<1>6. CASE CompleteAuth(p)
  <2>1. /\ recv[p] = "complete" /\ recv' = [recv EXCEPT ![p] = "idle"]
        /\ UNCHANGED <<state, failing, authState, peerShare, ctl>>
    BY <1>6 DEF CompleteAuth
  <2>2. (\A q \in Peers : Calm(q))'
    BY SMTT(60), <1>0, <1>1, <1>6, <2>1 DEF TypeOK, Calm, CompleteAuth, Complete
  <2>3. AnswerFirst' /\ OneHello' /\ Shut'
    BY <1>0, <1>1, <2>1 DEF AnswerFirst, OneHello, Shut, signals, channels
  <2>4. Turn'
    BY <1>0, <1>1, <2>1 DEF TypeOK, Turn, Keys
  <2> QED BY <2>2, <2>3, <2>4 DEF HonestBody
<1> QED BY <1>2, <1>3, <1>4, <1>5, <1>6 DEF ControlStep

\* A payload channel, and every way to fail: none happens before connect has
\* opened its first channel.
LEMMA HonestRest ==
  ASSUME TypeOK, ResultInv, Honest, Honest', HonestBody,
         \/ OpenStreamChannel \/ CannotOpen \/ PayloadStep \/ UNCHANGED vars
         \/ \E p \in Peers : EndStep(p) \/ ConnectionLost(p) \/ AuthResult(p)
                             \/ Interrupt(p)
  PROVE  HonestBody'
<1> USE DEF Peers, Other
<1>0. (\A q \in Peers : Calm(q)) /\ Shut /\ AnswerFirst /\ OneHello /\ Turn
  BY DEF HonestBody
<1>1. ASSUME UNCHANGED <<main, state, result, failing, once, pcUp, signals, handshake,
                         payload, inbound>>,
             outbound' \in {"idle", "create"}
      PROVE  HonestBody'
  BY <1>0, <1>1
  DEF HonestBody, Calm, Shut, AnswerFirst, OneHello, Turn, Keys, signals, handshake, world
<1>2. CASE OpenStreamChannel
  BY <1>1, <1>2 DEF OpenStreamChannel, machine
<1>3. ~CannotOpen
  <2>1. verdict["connect"] = "ready" => MayStream("connect")
    BY <1>0 DEF ResultInv, StateMatchesResult, Calm, MayStream, IsAuthenticated
  <2> QED BY <2>1 DEF CannotOpen, Listening, Honest
<1>4. ~PayloadStep
  <2>1. opened' # opened + 1
    BY DEF Honest, TypeOK
  <2> QED BY <1>0, <2>1
          DEF PayloadStep, CreateChannel, ChannelOpened, ListenerResult, OnDataChannel,
              CheckInbound, AcceptInbound, Shut, Calm
<1>5. ASSUME NEW p \in Peers PROVE ~EndStep(p)
  BY <1>0 DEF EndStep, FailResult, FailOnce, FailClose, CloseSession, CloseResult,
              FinishClose, Calm
<1>6. ASSUME NEW p \in Peers PROVE ~ConnectionLost(p) /\ ~Interrupt(p)
  BY <1>0 DEF ConnectionLost, Interrupt, Honest, Calm
<1>7. ASSUME NEW p \in Peers, AuthResult(p) PROVE HonestBody'
  <2>1. UNCHANGED <<main, failing>>
    BY <1>0, <1>7 DEF AuthResult, Honest, Calm
  <2> QED BY <1>0, <1>1, <1>7, <2>1 DEF AuthResult, channels, Shut
<1>8. CASE UNCHANGED vars
  BY <1>0, <1>1, <1>8 DEF vars, machine, channels, Shut
<1> QED BY <1>2, <1>3, <1>4, <1>5, <1>6, <1>7, <1>8

\* No step of two ends that agree and are left alone goes wrong.
LEMMA NextHonest ==
  ASSUME Initiator = "connect", BaseInv, ResultInv, HonestInv, [Next]_vars
  PROVE  HonestInv'
<1>0. TypeOK /\ Room
  BY SMTT(60) DEF BaseInv
<1>1. UNCHANGED <<view, faults>> /\ (opened' = opened \/ opened' = opened + 1)
  BY DEF Next, vars, Settled, MainStep, Trickle, AuthStart, ControlStep, PayloadStep,
         EndStep, CreateOffer, SendOffer, ReadICE, ReadSDP, ApplyRemote, SetRemote,
         CreateAnswer, EnterAuthPending, SignalingFails, FlushFails, CandidateFails,
         SendAnswer, ControlOpens, OnOpen, CheckPending, CheckOpen, ClaimStart, SendHello,
         ReadControl, StepAuth, SendReply, BecomeAuthenticated, CompleteAuth,
         OpenStreamChannel, CannotOpen, CreateChannel, ChannelOpened, ListenerResult,
         OnDataChannel, CheckInbound, AcceptInbound, FailResult, FailOnce, FailClose,
         CloseSession, CloseResult, FinishClose, ConnectionLost, AuthResult, Interrupt,
         handshake, world, channels
<1>2. SUFFICES ASSUME Honest'
               PROVE  HonestBody'
  BY DEF HonestInv
<1>3. Honest
  BY <1>0, <1>1, <1>2 DEF Honest, Agree, TypeOK
<1>4. HonestBody
  BY <1>3 DEF HonestInv
<1>5. ASSUME NEW p \in Peers, MainStep(p) \/ Trickle(p) \/ ControlOpens(p) \/ OnOpen(p)
      PROVE  HonestBody'
  BY <1>0, <1>3, <1>4, <1>5, HonestMain
<1>6. ASSUME NEW p \in Peers, NEW t \in {"main", "open"}, AuthStart(p, t)
      PROVE  HonestBody'
  BY <1>0, <1>4, <1>6, HonestStart
<1>7. ASSUME NEW p \in Peers, ControlStep(p)
      PROVE  HonestBody'
  BY <1>0, <1>3, <1>4, <1>7, HonestControl DEF Honest
<1>8. CASE \/ OpenStreamChannel \/ CannotOpen \/ PayloadStep \/ UNCHANGED vars
           \/ \E p \in Peers : EndStep(p) \/ ConnectionLost(p) \/ AuthResult(p)
                               \/ Interrupt(p)
  BY <1>0, <1>2, <1>3, <1>4, <1>8, HonestRest
<1> QED BY <1>5, <1>6, <1>7, <1>8 DEF Next, Settled

\* Two ends that agree and are left alone do not fail before there is a payload
\* channel, whatever the order of the answer, OnOpen, the concurrent callers of
\* maybeSendAuth and the frames.  The broker makes the connect peer the
\* initiator; with the roles the other way round the hello could reach expose
\* before it has entered AUTH_PENDING.
THEOREM HonestNeverFailsAlways ==
  ASSUME Initiator = "connect"
  PROVE  Spec => []HonestNeverFails
<1>1. Init => HonestInv /\ ResultInv
  BY DEF Init, HonestInv, HonestBody, Honest, Calm, Shut, AnswerFirst, OneHello, Turn,
         Sender, ResultInv, StateMatchesResult, Promised, Checked, Peers
<1>2. BaseInv /\ ResultInv /\ HonestInv /\ [Next]_vars => ResultInv' /\ HonestInv'
  BY NextResult, NextHonest DEF BaseInv
<1>3. HonestInv => HonestNeverFails
  BY DEF HonestInv, HonestBody, Honest, HonestNeverFails, Calm
<1> QED BY <1>1, <1>2, <1>3, BaseHolds, PTL DEF Spec

=============================================================================

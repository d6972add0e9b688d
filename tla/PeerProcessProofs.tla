------------------------- MODULE PeerProcessProofs --------------------------
(***************************************************************************)
(* Proofs about module PeerProcess, for every value of its constants: type *)
(* correctness, the order of the broker's events on their way to the main  *)
(* loop, and what a process leaves behind.                                 *)
(*                                                                         *)
(* The inductive invariant PeerInv has two halves.  Control says which     *)
(* places of the main loop, the workers, the mutex and the session go      *)
(* together.  Letters, Holding and Ordered follow the messages: queue,     *)
(* hand and socket are one sequence, in which the events after `seen' and  *)
(* up to `told' follow each other.  They need Control: the reader only     *)
(* queues broker-read when nothing else is on its way, and the main loop   *)
(* takes events only while the client is open.                             *)
(***************************************************************************)
EXTENDS PeerProcess, FiniteSetTheorems, WellFoundedInduction, TLAPS

\* every message
Msgs == [type : Types, n : Nat]

\* a set of numbers that is not empty has a least one
LEMMA LeastNumber ==
  ASSUME NEW U, U \subseteq Nat, U # {}
  PROVE  \E m \in U : \A k \in U : m <= k
<1> DEFINE R == OpToRel(<, Nat)
<1>1. PICK m \in U : \A k \in U : ~(<<k, m>> \in R)
  <2> HIDE DEF R
  <2>1. IsWellFoundedOn(R, Nat)
    BY NatLessThanWellFounded DEF R
  <2> QED BY <2>1, WFMin
<1>2. \A k \in U : k < m => <<k, m>> \in R
  BY DEF OpToRel
<1> HIDE DEF R
<1>3. \A k \in U : ~(k < m)
  BY <1>1, <1>2
<1>4. m \in Nat /\ \A k \in U : k \in Nat
  BY <1>1
<1>5. \A k \in U : m <= k
  BY <1>3, <1>4
<1> QED BY <1>1, <1>5

\* the number of a message is a natural number
LEMMA MsgFields == \A m \in Msgs : m.n \in Nat
BY DEF Msgs

\* the places of a sequence and of the one with m at its end
LEMMA AppendPlaces ==
  ASSUME NEW S, NEW s \in Seq(S), NEW m \in S
  PROVE  /\ Append(s, m) \in Seq(S)
         /\ Len(s) \in Nat /\ DOMAIN s = 1..Len(s)
         /\ DOMAIN Append(s, m) = 1..(Len(s) + 1)
         /\ \A i \in DOMAIN s : Append(s, m)[i] = s[i] /\ s[i] \in S
         /\ Append(s, m)[Len(s) + 1] = m
OBVIOUS

\* the places of a sequence and of its tail
LEMMA TailPlaces ==
  ASSUME NEW S, NEW s \in Seq(S), s # <<>>
  PROVE  /\ Tail(s) \in Seq(S) /\ Head(s) = s[1] /\ Head(s) \in S
         /\ Len(s) \in Nat \ {0} /\ DOMAIN s = 1..Len(s)
         /\ DOMAIN Tail(s) = 1..(Len(s) - 1)
         /\ \A i \in DOMAIN s : s[i] \in S
         /\ \A i \in DOMAIN Tail(s) : Tail(s)[i] = s[i + 1]
OBVIOUS

\* the places of two sequences and of their concatenation
LEMMA ConcatPlaces ==
  ASSUME NEW S, NEW a \in Seq(S), NEW c \in Seq(S)
  PROVE  /\ a \o c \in Seq(S) /\ Len(a) \in Nat /\ Len(c) \in Nat
         /\ DOMAIN (a \o c) = 1..(Len(a) + Len(c))
         /\ \A i \in DOMAIN (a \o c) : (a \o c)[i] \in S
         /\ \A i \in 1..Len(a) : (a \o c)[i] = a[i]
         /\ \A i \in 1..Len(c) : (a \o c)[Len(a) + i] = c[i]
OBVIOUS

\* the next event, at the end, keeps the order
LEMMA SpeakLast ==
  ASSUME NEW s \in Seq(Msgs), NEW lo \in Nat, NEW hi \in Nat, lo <= hi,
         NEW m \in Msgs, m.n = hi + 1, InOrder(s, lo, hi)
  PROVE  InOrder(Append(s, m), lo, hi + 1)
<1> DEFINE t == Append(s, m)
<1>1. /\ DOMAIN t = 1..(Len(s) + 1) /\ DOMAIN s = 1..Len(s) /\ Len(s) \in Nat
      /\ \A i \in DOMAIN s : t[i] = s[i] /\ s[i].n \in Nat
      /\ t[Len(s) + 1] = m
  BY AppendPlaces, MsgFields
<1> HIDE DEF t
<1>2. \A i \in DOMAIN t : IsEvent(t[i]) => t[i].n \in (lo + 1)..(hi + 1)
  BY <1>1 DEF InOrder, IsEvent
<1>3. \A i, j \in DOMAIN t :
        i < j /\ IsEvent(t[i]) /\ IsEvent(t[j]) => t[i].n < t[j].n
  <2> SUFFICES ASSUME NEW i \in DOMAIN t, NEW j \in DOMAIN t, i < j,
                      IsEvent(t[i]), IsEvent(t[j])
               PROVE  t[i].n < t[j].n
    OBVIOUS
  <2>1. i \in DOMAIN s /\ (j \in DOMAIN s \/ j = Len(s) + 1)
    BY <1>1
  <2>2. CASE j \in DOMAIN s
    BY <1>1, <2>1, <2>2 DEF InOrder
  <2>3. CASE j = Len(s) + 1
    <3>1. s[i].n \in (lo + 1)..hi
      BY <1>1, <2>1 DEF InOrder
    <3> QED BY <1>1, <2>1, <2>3, <3>1
  <2> QED BY <2>1, <2>2, <2>3
<1>4. \A k \in (lo + 1)..(hi + 1) : \E i \in DOMAIN t : t[i].n = k
  BY SMTT(60), <1>1 DEF InOrder, IsEvent
<1>5. InOrder(t, lo, hi + 1)
  BY <1>2, <1>3, <1>4 DEF InOrder
<1> QED BY <1>5 DEF t

\* a message that is no event, at the end, keeps the order
LEMMA MuteLast ==
  ASSUME NEW s \in Seq(Msgs), NEW lo \in Nat, NEW hi \in Nat,
         NEW m \in Msgs, m.n = 0, InOrder(s, lo, hi)
  PROVE  InOrder(Append(s, m), lo, hi)
<1> DEFINE t == Append(s, m)
<1>1. /\ DOMAIN t = 1..(Len(s) + 1) /\ DOMAIN s = 1..Len(s) /\ Len(s) \in Nat
      /\ \A i \in DOMAIN s : t[i] = s[i] /\ s[i].n \in Nat
      /\ t[Len(s) + 1] = m
  BY AppendPlaces, MsgFields
<1> HIDE DEF t
<1>2. \A i \in DOMAIN t : t[i].n > 0 => i \in DOMAIN s
  BY <1>1
<1>3. \A i \in DOMAIN s : i \in DOMAIN t
  BY <1>1
<1>4. \A i \in DOMAIN t : IsEvent(t[i]) => t[i].n \in (lo + 1)..hi
  BY <1>1, <1>2 DEF InOrder, IsEvent
<1>5. \A i, j \in DOMAIN t :
        i < j /\ IsEvent(t[i]) /\ IsEvent(t[j]) => t[i].n < t[j].n
  BY <1>1, <1>2 DEF InOrder, IsEvent
<1>6. \A k \in (lo + 1)..hi : \E i \in DOMAIN t : t[i].n = k
  BY <1>1, <1>3 DEF InOrder
<1>7. InOrder(t, lo, hi)
  BY <1>4, <1>5, <1>6 DEF InOrder
<1> QED BY <1>7 DEF t

\* a message that is no event may be taken out of the middle
LEMMA TakeMute ==
  ASSUME NEW a \in Seq(Msgs), NEW c \in Seq(Msgs), NEW lo \in Nat, NEW hi \in Nat,
         c # <<>>, Head(c).n = 0, InOrder(a \o c, lo, hi)
  PROVE  InOrder(a \o Tail(c), lo, hi)
<1> DEFINE s == a \o c
           t == a \o Tail(c)
           la == Len(a)
           lc == Len(c)
           f == [i \in DOMAIN t |-> IF i <= la THEN i ELSE i + 1]
<1>1. /\ la \in Nat /\ lc \in Nat \ {0}
      /\ DOMAIN s = 1..(la + lc) /\ DOMAIN t = 1..(la + lc - 1)
      /\ \A i \in DOMAIN s : s[i].n \in Nat
      /\ \A i \in DOMAIN t : t[i] = s[IF i <= la THEN i ELSE i + 1]
      /\ s[la + 1].n = 0
  <2>1. /\ Tail(c) \in Seq(Msgs) /\ lc \in Nat \ {0} /\ Len(Tail(c)) = lc - 1
        /\ \A i \in 1..(lc - 1) : Tail(c)[i] = c[i + 1]
        /\ c[1].n = 0
    BY TailPlaces
  <2>2. /\ la \in Nat /\ DOMAIN s = 1..(la + lc)
        /\ \A i \in DOMAIN s : s[i] \in Msgs
        /\ \A i \in 1..la : s[i] = a[i]
        /\ \A i \in 1..lc : s[la + i] = c[i]
    BY ConcatPlaces
  <2>3. /\ DOMAIN t = 1..(la + (lc - 1))
        /\ \A i \in 1..la : t[i] = a[i]
        /\ \A i \in 1..(lc - 1) : t[la + i] = c[i + 1]
    BY <2>1, ConcatPlaces
  <2> HIDE DEF s, t, la, lc
  <2>4. ASSUME NEW i \in 1..(la + lc - 1), i > la
        PROVE  t[i] = s[i + 1]
    <3>1. i - la \in 1..(lc - 1) /\ (i - la) + 1 \in 1..lc
      BY <2>1, <2>2, <2>4
    <3>2. la + (i - la) = i /\ la + ((i - la) + 1) = i + 1
      BY <2>2, <2>4
    <3> QED BY <2>2, <2>3, <3>1, <3>2
  <2>5. \A i \in 1..la : t[i] = s[i]
    BY <2>2, <2>3
  <2>6. \A i \in DOMAIN t : t[i] = s[IF i <= la THEN i ELSE i + 1]
    BY SMTT(60), <2>1, <2>2, <2>3, <2>4, <2>5
  <2>7. 1 \in 1..lc /\ s[la + 1] = c[1]
    BY SMTT(60), <2>1, <2>2
  <2>8. \A i \in DOMAIN s : s[i].n \in Nat
    BY <2>2, MsgFields
  <2> QED BY <2>1, <2>2, <2>3, <2>6, <2>7, <2>8
<1>2. InOrder(s, lo, hi)
  OBVIOUS
<1> HIDE DEF s, t, la, lc
<1>3. /\ \A i \in DOMAIN t : f[i] \in DOMAIN s /\ t[i] = s[f[i]]
      /\ \A i, j \in DOMAIN t : i < j => f[i] < f[j]
      /\ \A i \in DOMAIN s : i # la + 1 => \E j \in DOMAIN t : f[j] = i
  <2>0. \A i \in DOMAIN t : f[i] = IF i <= la THEN i ELSE i + 1
    OBVIOUS
  <2>1. \A i \in DOMAIN s : i # la + 1 => \E j \in DOMAIN t : f[j] = i
    <3> HIDE DEF f
    <3> SUFFICES ASSUME NEW i \in DOMAIN s, i # la + 1
                 PROVE  \E j \in DOMAIN t : f[j] = i
      OBVIOUS
    <3>1. CASE i <= la
      <4>1. i \in DOMAIN t
        BY <1>1, <3>1
      <4> QED BY <2>0, <3>1, <4>1
    <3>2. CASE i > la + 1
      <4>1. i - 1 \in DOMAIN t /\ ~(i - 1 <= la) /\ (i - 1) + 1 = i
        BY SMTT(60), <1>1, <3>2
      <4> QED BY <2>0, <4>1
    <3> QED BY <1>1, <3>1, <3>2
  <2>2. \A i \in DOMAIN t : f[i] \in DOMAIN s /\ t[i] = s[f[i]]
    BY SMTT(60), <1>1
  <2>3. \A i, j \in DOMAIN t : i < j => f[i] < f[j]
    BY <1>1
  <2> HIDE DEF f
  <2> QED BY <2>1, <2>2, <2>3
<1> HIDE DEF f
<1>4. InOrder(t, lo, hi)
  <2>1. \A i \in DOMAIN t : IsEvent(t[i]) => t[i].n \in (lo + 1)..hi
    BY <1>2, <1>3 DEF InOrder
  <2>2. \A i, j \in DOMAIN t :
          i < j /\ IsEvent(t[i]) /\ IsEvent(t[j]) => t[i].n < t[j].n
    BY SMTT(60), <1>2, <1>3 DEF InOrder
  <2>3. \A k \in (lo + 1)..hi : \E i \in DOMAIN t : t[i].n = k
    <3> TAKE k \in (lo + 1)..hi
    <3>1. PICK i \in DOMAIN s : s[i].n = k
      BY <1>2 DEF InOrder
    <3>2. i # la + 1
      BY <1>1, <3>1
    <3>3. PICK j \in DOMAIN t : f[j] = i
      BY <1>3, <3>2
    <3> QED BY <1>3, <3>1, <3>3
  <2> QED BY <2>1, <2>2, <2>3 DEF InOrder
<1> QED BY <1>4 DEF t

\* an event at the front is the one after lo, and may be taken
LEMMA TakeEvent ==
  ASSUME NEW s \in Seq(Msgs), NEW lo \in Nat, NEW hi \in Nat,
         s # <<>>, IsEvent(Head(s)), InOrder(s, lo, hi)
  PROVE  /\ lo + 1 \in 0..hi
         /\ InOrder(Tail(s), lo + 1, hi)
<1> DEFINE t == Tail(s)
           l == Len(s)
<1>1. /\ l \in Nat \ {0} /\ DOMAIN s = 1..l /\ DOMAIN t = 1..(l - 1)
      /\ \A i \in DOMAIN s : s[i].n \in Nat
      /\ \A i \in DOMAIN t : t[i] = s[i + 1]
      /\ s[1].n > 0
  BY TailPlaces, MsgFields DEF IsEvent
<1> HIDE DEF t, l
<1>2. s[1].n = lo + 1 /\ s[1].n <= hi
  <2>1. s[1].n \in (lo + 1)..hi
    BY <1>1 DEF InOrder, IsEvent
  <2>2. PICK i \in DOMAIN s : s[i].n = lo + 1
    BY <2>1 DEF InOrder
  <2>3. i = 1 \/ 1 < i
    BY <1>1
  <2> QED BY SMTT(60), <1>1, <2>1, <2>2, <2>3 DEF InOrder, IsEvent
<1>3. \A i \in DOMAIN t : IsEvent(t[i]) => t[i].n \in (lo + 2)..hi
  <2> SUFFICES ASSUME NEW i \in DOMAIN t, t[i].n > 0 PROVE t[i].n \in (lo + 2)..hi
    BY DEF IsEvent
  <2>1. i + 1 \in DOMAIN s /\ 1 \in DOMAIN s /\ 1 < i + 1 /\ t[i] = s[i + 1]
    BY <1>1
  <2>2. s[i + 1].n \in (lo + 1)..hi /\ s[1].n < s[i + 1].n
    BY <1>1, <2>1 DEF InOrder, IsEvent
  <2> QED BY <1>2, <2>1, <2>2
<1>4. \A i, j \in DOMAIN t :
        i < j /\ IsEvent(t[i]) /\ IsEvent(t[j]) => t[i].n < t[j].n
  <2> SUFFICES ASSUME NEW i \in DOMAIN t, NEW j \in DOMAIN t, i < j,
                      IsEvent(t[i]), IsEvent(t[j])
               PROVE  t[i].n < t[j].n
    OBVIOUS
  <2>1. i + 1 \in DOMAIN s /\ j + 1 \in DOMAIN s /\ i + 1 < j + 1
    BY <1>1
  <2> QED BY <1>1, <2>1 DEF InOrder
<1>5. \A k \in (lo + 2)..hi : \E i \in DOMAIN t : t[i].n = k
  <2> TAKE k \in (lo + 2)..hi
  <2>1. PICK i \in DOMAIN s : s[i].n = k
    BY DEF InOrder
  <2>2. i # 1
    BY <1>2, <2>1
  <2>3. i - 1 \in DOMAIN t /\ t[i - 1] = s[i]
    BY <1>1, <2>2
  <2> QED BY <2>1, <2>3
<1>6. InOrder(t, lo + 1, hi)
  BY <1>3, <1>4, <1>5 DEF InOrder
<1> QED BY <1>2, <1>6 DEF t

\* s is p, whose length is d, followed by q
Cut(S, s, p, q, d) ==
  /\ d \in Nat /\ Len(q) \in Nat
  /\ DOMAIN p = 1..d /\ DOMAIN q = 1..Len(q)
  /\ DOMAIN s = 1..(d + Len(q))
  /\ \A i \in DOMAIN s : s[i] \in S
  /\ \A i \in 1..d : p[i] = s[i]
  /\ \A i \in 1..Len(q) : q[i] = s[d + i]

\* a \o c cut after the n-th element of c
LEMMA CutPlaces ==
  ASSUME NEW S, NEW a \in Seq(S), NEW c \in Seq(S), NEW n \in 0..Len(c)
  PROVE  Cut(S, a \o c, a \o SubSeq(c, 1, n), SubSeq(c, n + 1, Len(c)), Len(a) + n)
<1> DEFINE s == a \o c
           r == SubSeq(c, 1, n)
           p == a \o r
           q == SubSeq(c, n + 1, Len(c))
           la == Len(a)
           lc == Len(c)
<1>1. /\ r \in Seq(S) /\ Len(r) = n /\ n \in Nat /\ lc \in Nat /\ n <= lc
      /\ \A i \in 1..n : r[i] = c[i]
  OBVIOUS
<1>2. /\ Len(q) = lc - n /\ DOMAIN q = 1..(lc - n)
      /\ \A i \in 1..(lc - n) : q[i] = c[n + i]
  OBVIOUS
<1>3. /\ la \in Nat /\ DOMAIN s = 1..(la + lc)
      /\ \A i \in DOMAIN s : s[i] \in S
      /\ \A i \in 1..la : s[i] = a[i]
      /\ \A i \in 1..lc : s[la + i] = c[i]
  BY ConcatPlaces
<1>4. /\ DOMAIN p = 1..(la + n)
      /\ \A i \in 1..la : p[i] = a[i]
      /\ \A i \in 1..n : p[la + i] = r[i]
  BY SMTT(60), <1>1, ConcatPlaces
<1> HIDE DEF s, r, p, q, la, lc
<1>5. \A i \in 1..(la + n) : p[i] = s[i]
  <2> TAKE i \in 1..(la + n)
  <2>1. CASE i <= la
    BY <1>3, <1>4, <2>1
  <2>2. CASE i > la
    <3>1. i - la \in 1..n /\ i - la \in 1..lc /\ la + (i - la) = i
      BY <1>1, <1>3, <2>2
    <3> QED BY SMTT(60), <1>1, <1>3, <1>4, <3>1
  <2> QED BY <1>1, <1>3, <2>1, <2>2
<1>6. \A i \in 1..(lc - n) : q[i] = s[(la + n) + i]
  <2> TAKE i \in 1..(lc - n)
  <2>1. n + i \in 1..lc /\ la + (n + i) = (la + n) + i
    BY <1>1, <1>3
  <2> QED BY <1>2, <1>3, <2>1
<1>7. /\ la + n \in Nat /\ Len(q) \in Nat /\ DOMAIN q = 1..Len(q)
      /\ DOMAIN s = 1..((la + n) + Len(q))
  BY <1>1, <1>2, <1>3
<1>8. \A i \in 1..Len(q) : q[i] = s[(la + n) + i]
  BY <1>2, <1>6
<1>9. Cut(S, s, p, q, la + n)
  BY <1>3, <1>4, <1>5, <1>7, <1>8 DEF Cut
<1> QED BY <1>9 DEF s, r, p, q, la

\* what is left of a socket that loses its last messages is in order, up to the
\* last event that is not lost: the lost events are the highest numbers
LEMMA CutTail ==
  ASSUME NEW a \in Seq(Msgs), NEW c \in Seq(Msgs), NEW n \in 0..Len(c),
         NEW lo \in Nat, NEW hi \in Nat, lo <= hi, InOrder(a \o c, lo, hi)
  PROVE  LET h == hi - Count(SubSeq(c, n + 1, Len(c)))
         IN  h \in lo..hi /\ InOrder(a \o SubSeq(c, 1, n), lo, h)
<1> DEFINE s == a \o c
           p == a \o SubSeq(c, 1, n)
           q == SubSeq(c, n + 1, Len(c))
           d == Len(a) + n
<1>1. /\ d \in Nat /\ Len(q) \in Nat
      /\ DOMAIN p = 1..d /\ DOMAIN q = 1..Len(q)
      /\ DOMAIN s = 1..(d + Len(q))
      /\ \A i \in DOMAIN s : s[i] \in Msgs
      /\ \A i \in 1..d : p[i] = s[i]
      /\ \A i \in 1..Len(q) : q[i] = s[d + i]
  <2>1. Cut(Msgs, s, p, q, d)
    BY CutPlaces
  <2> HIDE DEF s, p, q, d
  <2> QED BY <2>1 DEF Cut
<1>3. InOrder(s, lo, hi)
  OBVIOUS
<1> HIDE DEF s, p, q, d
<1>2. /\ \A i \in DOMAIN s : s[i].n \in Nat
      /\ \A i \in DOMAIN p : i \in DOMAIN s /\ p[i] = s[i]
      /\ \A i \in DOMAIN q : d + i \in DOMAIN s /\ q[i] = s[d + i]
      /\ \A i \in DOMAIN s : i \in DOMAIN p \/ \E j \in DOMAIN q : i = d + j
  <2>1. \A i \in DOMAIN s : i \in DOMAIN p \/ (i - d \in DOMAIN q /\ i = d + (i - d))
    BY <1>1
  <2>2. \A i \in DOMAIN s : s[i].n \in Nat
    BY <1>1, MsgFields
  <2>3. \A i \in DOMAIN p : i \in DOMAIN s /\ p[i] = s[i]
    BY <1>1
  <2>4. \A i \in DOMAIN q : d + i \in DOMAIN s /\ q[i] = s[d + i]
    BY <1>1
  <2> QED BY <2>1, <2>2, <2>3, <2>4
<1> DEFINE K == {i \in DOMAIN q : IsEvent(q[i])}
           U == {q[i].n : i \in K}
           f == [i \in K |-> q[i].n]
<1>4. IsFiniteSet(K) /\ Count(q) = Cardinality(K)
  <2>1. IsFiniteSet(1..Len(q))
    BY <1>1, FS_Interval
  <2> QED BY <1>1, <2>1, FS_Subset DEF Count
<1>5. \A i, j \in K : i < j => q[i].n < q[j].n
  <2> SUFFICES ASSUME NEW i \in K, NEW j \in K, i < j PROVE q[i].n < q[j].n
    OBVIOUS
  <2>1. d + i \in DOMAIN s /\ d + j \in DOMAIN s /\ d + i < d + j
    BY <1>1, <1>2
  <2> QED BY <1>2, <1>3, <2>1 DEF InOrder
<1>6. /\ U \subseteq (lo + 1)..hi
      /\ \A i \in K : q[i].n \in Nat
  BY <1>2, <1>3 DEF InOrder
<1>7. Cardinality(U) = Count(q)
  <2>1. f \in Bijection(K, U)
    <3>1. \A i, j \in K : q[i].n = q[j].n => i = j
      <4> SUFFICES ASSUME NEW i \in K, NEW j \in K, q[i].n = q[j].n, i # j
                   PROVE  FALSE
        OBVIOUS
      <4>1. i < j \/ j < i
        BY <1>1
      <4> QED BY <1>5, <1>6, <4>1
    <3> QED BY <3>1, Zenon DEF Bijection, Injection, Surjection, IsInjective
  <2> HIDE DEF f, K, U
  <2> QED BY <1>4, <2>1, FS_Bijection DEF ExistsBijection
<1>8. \E h \in lo..hi : /\ U = (h + 1)..hi
                        /\ \A i \in DOMAIN p : IsEvent(p[i]) => p[i].n <= h
  <2>1. CASE U = {}
    <3>1. (hi + 1)..hi = {}
      OBVIOUS
    <3>2. \A i \in DOMAIN p : IsEvent(p[i]) => p[i].n <= hi
      BY <1>2, <1>3 DEF InOrder
    <3>3. U = (hi + 1)..hi
      BY <2>1, <3>1
    <3>4. hi \in lo..hi
      OBVIOUS
    <3> HIDE DEF U
    <3> QED BY <3>2, <3>3, <3>4
  <2>2. CASE U # {}
    <3>1. PICK m \in U : \A k \in U : m <= k
      <4> HIDE DEF U
      <4>1. U \subseteq Nat
        BY <1>6
      <4> QED BY <2>2, <4>1, LeastNumber
    <3>2. PICK j \in K : m = q[j].n
      BY <3>1
    <3>3. m \in (lo + 1)..hi
      BY <1>6, <3>1
    <3>4. \A i \in DOMAIN p : IsEvent(p[i]) => p[i].n < m
      <4> SUFFICES ASSUME NEW i \in DOMAIN p, IsEvent(p[i]) PROVE p[i].n < m
        OBVIOUS
      <4>1. i \in DOMAIN s /\ d + j \in DOMAIN s /\ i < d + j
        BY <1>1, <1>2, <3>2
      <4> QED BY <1>2, <1>3, <3>2, <4>1 DEF InOrder
    <3>5. \A k \in m..hi : k \in U
      <4> TAKE k \in m..hi
      <4>1. PICK i \in DOMAIN s : s[i].n = k
        BY <1>3, <3>3 DEF InOrder
      <4>2. k > 0
        BY <3>3
      <4>3. ~(i \in DOMAIN p)
        <5> SUFFICES ASSUME i \in DOMAIN p PROVE FALSE
          OBVIOUS
        <5>1. p[i].n = k /\ k < m
          BY <1>2, <3>4, <4>1, <4>2 DEF IsEvent
        <5> QED BY <3>3, <5>1
      <4>4. PICK l \in DOMAIN q : i = d + l
        BY <1>2, <4>3
      <4>5. l \in K /\ q[l].n = k
        BY <1>2, <4>1, <4>2, <4>4 DEF IsEvent
      <4> QED BY <4>5
    <3> HIDE DEF U
    <3>6. U = m..hi
      <4>1. \A k \in U : k \in m..hi
        BY <1>6, <3>1, <3>3
      <4> QED BY <3>5, <4>1
    <3>7. m - 1 \in lo..hi /\ (m - 1) + 1 = m
      BY <3>3
    <3>8. \A i \in DOMAIN p : IsEvent(p[i]) => p[i].n <= m - 1
      BY <1>2, <3>3, <3>4
    <3>9. U = ((m - 1) + 1)..hi
      BY <3>6, <3>7
    <3> QED BY <3>7, <3>8, <3>9
  <2> QED BY <2>1, <2>2
<1>9. PICK h \in lo..hi : /\ U = (h + 1)..hi
                          /\ \A i \in DOMAIN p : IsEvent(p[i]) => p[i].n <= h
  BY <1>8
<1>10. Count(q) = hi - h
  <2>1. Cardinality((h + 1)..hi) = IF h + 1 > hi THEN 0 ELSE hi - (h + 1) + 1
    BY FS_Interval
  <2> HIDE DEF U
  <2> QED BY <1>7, <1>9, <2>1
<1>11. InOrder(p, lo, h)
  <2>1. \A i \in DOMAIN p : IsEvent(p[i]) => p[i].n \in (lo + 1)..h
    BY <1>2, <1>3, <1>9 DEF InOrder
  <2>2. \A i, j \in DOMAIN p :
          i < j /\ IsEvent(p[i]) /\ IsEvent(p[j]) => p[i].n < p[j].n
    BY <1>2, <1>3 DEF InOrder
  <2>3. \A k \in (lo + 1)..h : \E i \in DOMAIN p : p[i].n = k
    <3> TAKE k \in (lo + 1)..h
    <3>1. PICK i \in DOMAIN s : s[i].n = k
      <4>1. k \in (lo + 1)..hi
        BY <1>9
      <4> QED BY <1>3, <4>1 DEF InOrder
    <3>2. ~(k \in U)
      <4>1. ~(k \in (h + 1)..hi)
        BY <1>9
      <4> HIDE DEF U
      <4> QED BY <1>9, <4>1
    <3>3. \A j \in DOMAIN q : i # d + j
      <4> SUFFICES ASSUME NEW j \in DOMAIN q, i = d + j PROVE FALSE
        OBVIOUS
      <4>1. q[j].n = k /\ k > 0
        BY <1>2, <3>1
      <4>2. j \in K
        BY <4>1 DEF IsEvent
      <4> QED BY <3>2, <4>1, <4>2
    <3> QED BY <1>2, <3>1, <3>3
  <2> QED BY <2>1, <2>2, <2>3 DEF InOrder
<1>12. hi - Count(q) = h
  BY <1>9, <1>10
<1> QED BY <1>9, <1>11, <1>12 DEF p, q

-----------------------------------------------------------------------------
(* The flow of the messages, as a function of its five parts. *)

\* what is on its way to the main loop: the queue, readLoop's message, the socket
Flow(e, h, b, lo, hi) ==
  /\ e \in Seq(Msgs) /\ h \in Seq(Msgs) /\ b \in Seq(Msgs)
  /\ lo \in Nat /\ hi \in Nat /\ lo <= hi
  /\ InOrder((e \o h) \o b, lo, hi)
  /\ \A i \in DOMAIN b : b[i].type = "ping" => b[i].n = 0

\* messages numbered up to hi
Bounded(s, hi) == s \in Seq(Msgs) /\ \A i \in DOMAIN s : s[i].n <= hi

\* an element at the end of b is at the end of a \o b
LEMMA ConcatAppend ==
  ASSUME NEW S, NEW a \in Seq(S), NEW b \in Seq(S), NEW m \in S
  PROVE  a \o Append(b, m) = Append(a \o b, m)
OBVIOUS

\* the head of the socket goes into readLoop's hand
LEMMA ConcatMove ==
  ASSUME NEW S, NEW e \in Seq(S), NEW b \in Seq(S), b # <<>>
  PROVE  (e \o <<Head(b)>>) \o Tail(b) = (e \o <<>>) \o b
OBVIOUS

\* nothing at the end
LEMMA ConcatEmpty ==
  ASSUME NEW S, NEW e \in Seq(S)
  PROVE  e \o <<>> = e
OBVIOUS

\* a sequence of length one
LEMMA Single ==
  ASSUME NEW S, NEW h \in Seq(S), Len(h) = 1
  PROVE  h = <<h[1]>> /\ h[1] \in S
<1>1. DOMAIN h = 1..1 /\ h \in [1..1 -> S]
  OBVIOUS
<1>2. h[1] \in S
  BY <1>1
<1>3. <<h[1]>> \in Seq(S) /\ Len(<<h[1]>>) = 1 /\ <<h[1]>>[1] = h[1]
  BY <1>2
<1>4. \A i \in 1..1 : i = 1
  OBVIOUS
<1> QED BY <1>1, <1>2, <1>3, <1>4

\* readLoop's message goes into the queue
LEMMA ConcatPut ==
  ASSUME NEW S, NEW e \in Seq(S), NEW h \in Seq(S), NEW b \in Seq(S), Len(h) = 1
  PROVE  (Append(e, h[1]) \o <<>>) \o b = (e \o h) \o b
<1>1. h = <<h[1]>> /\ h[1] \in S
  BY Single
<1>2. Append(e, h[1]) = e \o <<h[1]>> /\ Append(e, h[1]) \in Seq(S)
  BY <1>1
<1>3. Append(e, h[1]) \o <<>> = Append(e, h[1])
  BY <1>2, ConcatEmpty
<1> QED BY <1>1, <1>2, <1>3

\* the head of the queue is the head of everything
LEMMA ConcatTail ==
  ASSUME NEW S, NEW e \in Seq(S), NEW b \in Seq(S), e # <<>>
  PROVE  /\ Tail(e) \o b = Tail(e \o b)
         /\ Head(e \o b) = Head(e) /\ e \o b # <<>>
BY SMTT(60)

\* a concatenation has the elements of its parts
LEMMA ConcatIn ==
  ASSUME NEW S, NEW a \in Seq(S), NEW b \in Seq(S)
  PROVE  a \o b \in Seq(S)
OBVIOUS

\* no message on its way has a number above hi
LEMMA FlowBounded ==
  ASSUME NEW e, NEW h, NEW b, NEW lo, NEW hi, Flow(e, h, b, lo, hi)
  PROVE  Bounded(e, hi) /\ Bounded(h, hi) /\ Bounded(b, hi)
<1>1. /\ e \in Seq(Msgs) /\ h \in Seq(Msgs) /\ b \in Seq(Msgs) /\ e \o h \in Seq(Msgs)
      /\ hi \in Nat /\ lo \in Nat
  BY ConcatIn DEF Flow
<1>2. ASSUME NEW s \in Seq(Msgs), InOrder(s, lo, hi)
      PROVE  Bounded(s, hi)
  <2>1. \A i \in DOMAIN s : s[i].n \in Nat
    <3>1. \A i \in DOMAIN s : s[i] \in Msgs
      BY <1>2
    <3> QED BY <3>1, MsgFields
  <2> QED BY <1>1, <1>2, <2>1 DEF Bounded, InOrder, IsEvent
<1>3. ASSUME NEW p \in Seq(Msgs), NEW q \in Seq(Msgs), Bounded(p \o q, hi)
      PROVE  Bounded(p, hi) /\ Bounded(q, hi)
  <2>1. /\ DOMAIN p = 1..Len(p) /\ DOMAIN q = 1..Len(q)
        /\ Len(p) \in Nat /\ Len(q) \in Nat
        /\ DOMAIN (p \o q) = 1..(Len(p) + Len(q))
        /\ \A i \in 1..Len(p) : (p \o q)[i] = p[i]
        /\ \A i \in 1..Len(q) : (p \o q)[Len(p) + i] = q[i]
    BY ConcatPlaces
  <2> DEFINE s == p \o q
  <2>2. \A i \in DOMAIN s : s[i].n <= hi
    BY <1>3 DEF Bounded
  <2> HIDE DEF s
  <2>3. \A i \in DOMAIN p : i \in DOMAIN s /\ p[i] = s[i]
    BY <2>1 DEF s
  <2>4. \A i \in DOMAIN q : Len(p) + i \in DOMAIN s /\ q[i] = s[Len(p) + i]
    BY <2>1 DEF s
  <2> QED BY <2>2, <2>3, <2>4 DEF Bounded
<1>4. Bounded((e \o h) \o b, hi)
  <2>1. (e \o h) \o b \in Seq(Msgs)
    BY <1>1, ConcatIn
  <2> QED BY <1>2, <2>1 DEF Flow
<1> QED BY <1>1, <1>3, <1>4

\* the broker sends the next event (BrokerSends)
LEMMA FlowSpeak ==
  ASSUME NEW e, NEW h, NEW b, NEW lo, NEW hi, Flow(e, h, b, lo, hi),
         NEW m \in Msgs, m.n = hi + 1, m.type # "ping"
  PROVE  Flow(e, h, Append(b, m), lo, hi + 1)
<1>1. /\ e \in Seq(Msgs) /\ h \in Seq(Msgs) /\ b \in Seq(Msgs) /\ e \o h \in Seq(Msgs)
      /\ (e \o h) \o b \in Seq(Msgs) /\ hi \in Nat /\ lo \in Nat /\ lo <= hi
  BY ConcatIn DEF Flow
<1>2. InOrder((e \o h) \o Append(b, m), lo, hi + 1)
  <2>1. InOrder(Append((e \o h) \o b, m), lo, hi + 1)
    BY <1>1, SpeakLast DEF Flow
  <2>2. (e \o h) \o Append(b, m) = Append((e \o h) \o b, m)
    <3>1. PICK a \in Seq(Msgs) : a = e \o h
      BY <1>1
    <3>2. a \o Append(b, m) = Append(a \o b, m)
      BY SMTT(60), <1>1, ConcatAppend
    <3> QED BY <3>1, <3>2
  <2> QED BY <2>1, <2>2
<1>3. \A i \in DOMAIN Append(b, m) : Append(b, m)[i].type = "ping" => Append(b,
   m)[i].n = 0
  <2>1. \A i \in DOMAIN b : b[i].type = "ping" => b[i].n = 0
    BY DEF Flow
  <2> QED BY <1>1, <2>1, AppendPlaces
<1>4. Append(b, m) \in Seq(Msgs) /\ hi + 1 \in Nat /\ lo <= hi + 1
  BY <1>1, AppendPlaces
<1> QED BY <1>1, <1>2, <1>3, <1>4 DEF Flow

\* the broker sends a ping
LEMMA FlowPing ==
  ASSUME NEW e, NEW h, NEW b, NEW lo, NEW hi, Flow(e, h, b, lo, hi),
         NEW m \in Msgs, m.n = 0
  PROVE  Flow(e, h, Append(b, m), lo, hi)
<1>1. /\ e \in Seq(Msgs) /\ h \in Seq(Msgs) /\ b \in Seq(Msgs) /\ e \o h \in Seq(Msgs)
      /\ (e \o h) \o b \in Seq(Msgs) /\ hi \in Nat /\ lo \in Nat /\ lo <= hi
  BY ConcatIn DEF Flow
<1>2. InOrder((e \o h) \o Append(b, m), lo, hi)
  <2>1. InOrder(Append((e \o h) \o b, m), lo, hi)
    BY <1>1, MuteLast DEF Flow
  <2>2. (e \o h) \o Append(b, m) = Append((e \o h) \o b, m)
    <3>1. PICK a \in Seq(Msgs) : a = e \o h
      BY <1>1
    <3>2. a \o Append(b, m) = Append(a \o b, m)
      BY SMTT(60), <1>1, ConcatAppend
    <3> QED BY <3>1, <3>2
  <2> QED BY <2>1, <2>2
<1>3. \A i \in DOMAIN Append(b, m) : Append(b, m)[i].type = "ping" => Append(b,
   m)[i].n = 0
  <2>1. \A i \in DOMAIN b : b[i].type = "ping" => b[i].n = 0
    BY DEF Flow
  <2> QED BY <1>1, <2>1, AppendPlaces
<1>4. Append(b, m) \in Seq(Msgs)
  BY <1>1, AppendPlaces
<1> QED BY <1>1, <1>2, <1>3, <1>4 DEF Flow

\* readLoop takes a message from the socket: a ping disappears, another one is held
LEMMA FlowRead ==
  ASSUME NEW e, NEW b, NEW lo, NEW hi, Flow(e, <<>>, b, lo, hi), b # <<>>
  PROVE  IF Head(b).type = "ping" THEN Flow(e, <<>>, Tail(b), lo, hi)
                                  ELSE Flow(e, <<Head(b)>>, Tail(b), lo, hi)
<1>1. /\ e \in Seq(Msgs) /\ b \in Seq(Msgs) /\ e \o <<>> \in Seq(Msgs)
      /\ <<>> \in Seq(Msgs)
      /\ hi \in Nat /\ lo \in Nat /\ lo <= hi
  BY ConcatIn DEF Flow
<1>2. /\ Tail(b) \in Seq(Msgs) /\ <<Head(b)>> \in Seq(Msgs)
      /\ Head(b) = b[1] /\ 1 \in DOMAIN b
  BY <1>1
<1>3. \A i \in DOMAIN Tail(b) : Tail(b)[i].type = "ping" => Tail(b)[i].n = 0
  <2>1. \A i \in DOMAIN b : b[i].type = "ping" => b[i].n = 0
    BY DEF Flow
  <2>2. \A i \in DOMAIN Tail(b) : i + 1 \in DOMAIN b /\ Tail(b)[i] = b[i + 1]
    BY <1>1
  <2> QED BY <2>1, <2>2
<1>4. CASE Head(b).type = "ping"
  <2>1. Head(b).n = 0
    BY <1>2, <1>4 DEF Flow
  <2>2. InOrder((e \o <<>>) \o Tail(b), lo, hi)
    BY <1>1, <2>1, TakeMute DEF Flow
  <2> QED BY <1>1, <1>2, <1>3, <1>4, <2>2 DEF Flow
<1>5. CASE Head(b).type # "ping"
  <2>1. InOrder((e \o <<Head(b)>>) \o Tail(b), lo, hi)
    BY <1>1, ConcatMove DEF Flow
  <2> QED BY <1>1, <1>2, <1>3, <1>5, <2>1 DEF Flow
<1> QED BY <1>4, <1>5

\* readLoop puts its message into the queue
LEMMA FlowPut ==
  ASSUME NEW e, NEW h, NEW b, NEW lo, NEW hi, Flow(e, h, b, lo, hi), Len(h) = 1
  PROVE  Flow(Append(e, h[1]), <<>>, b, lo, hi)
<1>1. e \in Seq(Msgs) /\ h \in Seq(Msgs) /\ b \in Seq(Msgs)
  BY DEF Flow
<1>2. h[1] \in Msgs
  BY <1>1, Single
<1>3. Append(e, h[1]) \in Seq(Msgs) /\ <<>> \in Seq(Msgs)
  BY <1>1, <1>2
<1>4. (Append(e, h[1]) \o <<>>) \o b = (e \o h) \o b
  BY SMTT(60), <1>1, ConcatPut
<1> QED BY <1>3, <1>4 DEF Flow

\* the main loop takes the head of the queue
LEMMA FlowTake ==
  ASSUME NEW e, NEW h, NEW b, NEW lo, NEW hi, Flow(e, h, b, lo, hi), e # <<>>
  PROVE  Flow(Tail(e), h, b, IF IsEvent(Head(e)) THEN lo + 1 ELSE lo, hi)
<1>1. /\ e \in Seq(Msgs) /\ h \in Seq(Msgs) /\ b \in Seq(Msgs) /\ e \o h \in Seq(Msgs)
      /\ (e \o h) \o b \in Seq(Msgs) /\ hi \in Nat /\ lo \in Nat /\ lo <= hi
      /\ <<>> \in Seq(Msgs)
  BY ConcatIn DEF Flow
<1> DEFINE s == (e \o h) \o b
<1>2. /\ (Tail(e) \o h) \o b = Tail(s) /\ s # <<>> /\ Head(s) = Head(e)
      /\ Head(e) \in Msgs /\ Tail(e) \in Seq(Msgs)
  <2>1. Tail(e) \o h = Tail(e \o h) /\ Head(e \o h) = Head(e) /\ e \o h # <<>>
    BY <1>1, ConcatTail
  <2>2. Tail(e \o h) \o b = Tail(s) /\ Head(s) = Head(e \o h) /\ s # <<>>
    BY <1>1, <2>1, ConcatTail
  <2> QED BY <1>1, <2>1, <2>2, TailPlaces
<1>3. s \in Seq(Msgs) /\ InOrder(s, lo, hi)
  BY <1>1 DEF Flow
<1> HIDE DEF s
<1>4. CASE IsEvent(Head(e))
  <2>1. lo + 1 \in 0..hi /\ InOrder(Tail(s), lo + 1, hi)
    BY <1>1, <1>2, <1>3, <1>4, TakeEvent
  <2>2. InOrder((Tail(e) \o h) \o b, lo + 1, hi)
    BY <1>2, <2>1
  <2>3. lo + 1 \in Nat /\ lo + 1 <= hi
    BY <1>1, <2>1
  <2>4. Flow(Tail(e), h, b, lo + 1, hi)
    BY <1>1, <1>2, <2>2, <2>3 DEF Flow
  <2> QED BY <1>4, <2>4
<1>5. CASE ~IsEvent(Head(e))
  <2>1. Head(s).n = 0
    BY <1>2, <1>5, MsgFields DEF IsEvent
  <2>2. <<>> \o s = s /\ <<>> \o Tail(s) = Tail(s)
    BY <1>1, <1>3
  <2>3. InOrder(Tail(s), lo, hi)
    BY <1>1, <1>2, <1>3, <2>1, <2>2, TakeMute
  <2>4. InOrder((Tail(e) \o h) \o b, lo, hi)
    BY <1>2, <2>3
  <2>5. Flow(Tail(e), h, b, lo, hi)
    BY <1>1, <1>2, <2>4 DEF Flow
  <2> QED BY <1>5, <2>5
<1> QED BY <1>4, <1>5

\* readLoop queues broker-read: nothing is held, the socket is empty
LEMMA FlowReadEnds ==
  ASSUME NEW e, NEW lo, NEW hi, Flow(e, <<>>, <<>>, lo, hi),
         NEW m \in Msgs, m.n = 0
  PROVE  Flow(Append(e, m), <<>>, <<>>, lo, hi)
<1>1. e \in Seq(Msgs) /\ hi \in Nat /\ lo \in Nat /\ Append(e, m) \in Seq(Msgs)
  BY DEF Flow
<1>2. (e \o <<>>) \o <<>> = e /\ (Append(e, m) \o <<>>) \o <<>> = Append(e, m)
  BY <1>1, ConcatEmpty
<1>3. InOrder(Append(e, m), lo, hi)
  BY <1>1, <1>2, MuteLast DEF Flow
<1> QED BY <1>1, <1>2, <1>3 DEF Flow

\* the socket is cut and its last messages are lost
LEMMA FlowCut ==
  ASSUME NEW e, NEW h, NEW b, NEW lo, NEW hi, Flow(e, h, b, lo, hi),
     NEW n \in 0..Len(b)
  PROVE  Flow(e, h, SubSeq(b, 1, n), lo, hi - Count(SubSeq(b, n + 1, Len(b))))
<1>1. /\ e \in Seq(Msgs) /\ h \in Seq(Msgs) /\ b \in Seq(Msgs) /\ e \o h \in Seq(Msgs)
      /\ hi \in Nat /\ lo \in Nat /\ lo <= hi /\ InOrder((e \o h) \o b, lo, hi)
  BY ConcatIn DEF Flow
<1>2. PICK k : k = hi - Count(SubSeq(b, n + 1, Len(b)))
  OBVIOUS
<1>3. k \in lo..hi /\ InOrder((e \o h) \o SubSeq(b, 1, n), lo, k)
  BY <1>1, <1>2, CutTail
<1>4. k \in Nat /\ lo <= k
  BY <1>1, <1>3
<1>5. /\ SubSeq(b, 1, n) \in Seq(Msgs)
      /\ \A i \in DOMAIN SubSeq(b, 1, n) : i \in DOMAIN b /\ SubSeq(b, 1,
         n)[i] = b[i]
  BY <1>1
<1>6. \A i \in DOMAIN SubSeq(b, 1, n) :
        SubSeq(b, 1, n)[i].type = "ping" => SubSeq(b, 1, n)[i].n = 0
  BY SMTT(60), <1>5 DEF Flow
<1>7. Flow(e, h, SubSeq(b, 1, n), lo, k)
  BY <1>1, <1>3, <1>4, <1>5, <1>6 DEF Flow
<1> QED BY <1>2, <1>7

-----------------------------------------------------------------------------
(* Control. *)

\* the Boolean variables
Flags ==
  /\ attached \in BOOLEAN /\ exchanged \in BOOLEAN /\ listener \in BOOLEAN
  /\ evClosed \in BOOLEAN /\ done \in BOOLEAN /\ owed \in BOOLEAN

\* the other variables without a message
Scalars ==
  /\ mode \in {"connect", "expose"}
  /\ main \in {"register", "select", "offer", "answer", "closeSession",
               "closeClient", "wait", "exited"}
  /\ sess \in {"none", "signaling", "ready", "failed", "closed"}
  /\ authCh \in {"none", "waiting", "ok", "error", "taken"}
  /\ reader \in {"read", "pong", "put", "exit"}
  /\ writer \in [Tickers -> {"idle", "write", "exit"}]
  /\ sock \in {"up", "cut", "closed"}
  /\ mu \in Tickers \cup {"free", "main", "reader"}
  /\ broker \in {"dialled", "waiting", "paired", "over"}
  /\ nsig \in 0..MaxSignals /\ nping \in 0..MaxPings
  /\ remote \in {"up", "gone", "detached"}

\* Client.Close is the only one to close done, and it closes the socket with it;
\* runPeer calls it on its way out
Closed == /\ done <=> sock = "closed"
          /\ done <=> main \in {"wait", "exited"}

\* who has the mutex is about to write
Mutex ==
  /\ \A w \in Tickers : mu = w => writer[w] = "write"
  /\ mu = "reader" => reader = "pong"
  /\ mu = "main" => main \in {"register", "offer", "answer"}

\* the session is closed before the client
Ended ==
  main \in {"closeClient", "wait", "exited"} =>
    sess \notin {"signaling", "ready"} /\ authCh # "waiting"

\* wg.Wait has seen every worker end, and none starts again
Exited == main = "exited" => WorkersExited

Control == Flags /\ Scalars /\ Closed /\ Mutex /\ Ended /\ Exited

\* every step of the process keeps Control
LEMMA ControlStep == Control /\ [Next]_vars => Control'
<1> SUFFICES ASSUME Control, [Next]_vars PROVE Control'
  OBVIOUS
<1> USE PeerBoundsAssumption, TickersAssumption
<1> USE DEF Control, Flags, Scalars, Closed, Mutex, Ended, Exited, WorkersExited,
            peer, tunnel, queue, worker, client, env
<1>1. CASE Sent
  <2>0. Flags'
    BY <1>1 DEF Sent, Unlock, WriteOK, ReturnFailed, Return, FailSession
  <2>1. Scalars'
    BY <1>1 DEF Sent, Unlock, WriteOK, ReturnFailed, Return, FailSession
  <2>2. Closed'
    BY <1>1 DEF Sent, Unlock, WriteOK, ReturnFailed, Return, FailSession
  <2>3. Mutex'
    BY <1>1 DEF Sent, Unlock, WriteOK, ReturnFailed, Return, FailSession
  <2>4. Ended'
    BY <1>1 DEF Sent, Unlock, WriteOK, ReturnFailed, Return, FailSession
  <2>5. Exited'
    BY <1>1 DEF Sent, Unlock, WriteOK, ReturnFailed, Return, FailSession
  <2> QED BY <2>0, <2>1, <2>2, <2>3, <2>4, <2>5
<1>2. CASE AuthResult
  <2>0. Flags'
    BY <1>2 DEF AuthResult, StartListener, Return
  <2>1. Scalars'
    BY <1>2 DEF AuthResult, StartListener, Return
  <2>2. Closed'
    BY <1>2 DEF AuthResult, StartListener, Return
  <2>3. Mutex'
    BY <1>2 DEF AuthResult, StartListener, Return
  <2>4. Ended'
    BY <1>2 DEF AuthResult, StartListener, Return
  <2>5. Exited'
    BY <1>2 DEF AuthResult, StartListener, Return
  <2> QED BY <2>0, <2>1, <2>2, <2>3, <2>4, <2>5
<1>3. CASE EventsClosed
  <2>0. Flags'
    BY <1>3 DEF EventsClosed, BrokerLost, OnBrokerLoss, postAuth, ReturnFailed,
       Return, FailSession
  <2>1. Scalars'
    <3>1. main' \in {"select", "offer", "answer", "closeSession"}
      BY <1>3 DEF EventsClosed, BrokerLost, OnBrokerLoss, postAuth, ReturnFailed,
         Return, FailSession
    <3>2. sess' \in {"none", "signaling", "ready", "failed", "closed"}
      BY <1>3 DEF EventsClosed, BrokerLost, OnBrokerLoss, postAuth, ReturnFailed,
         Return, FailSession
    <3>3. authCh' \in {"none", "waiting", "ok", "error", "taken"}
      BY <1>3 DEF EventsClosed, BrokerLost, OnBrokerLoss, postAuth, ReturnFailed,
         Return, FailSession
    <3>4. UNCHANGED <<mode, reader, writer, sock, mu, broker, nsig, nping, remote>>
      BY <1>3 DEF EventsClosed
    <3> QED BY <3>1, <3>2, <3>3, <3>4
  <2>2. Closed'
    BY <1>3 DEF EventsClosed, BrokerLost, OnBrokerLoss, postAuth, ReturnFailed,
       Return, FailSession
  <2>3. Mutex'
    BY <1>3 DEF EventsClosed, BrokerLost, OnBrokerLoss, postAuth, ReturnFailed,
       Return, FailSession
  <2>4. Ended'
    BY <1>3 DEF EventsClosed, BrokerLost, OnBrokerLoss, postAuth, ReturnFailed,
       Return, FailSession
  <2>5. Exited'
    BY <1>3 DEF EventsClosed, BrokerLost, OnBrokerLoss, postAuth, ReturnFailed,
       Return, FailSession
  <2> QED BY <2>0, <2>1, <2>2, <2>3, <2>4, <2>5
<1>4. CASE HandleEvent
  <2>0. Flags'
    BY <1>4 DEF HandleEvent, OnPaired, NewSession, OnSignal, OnPeerLeft,
       BrokerLost, OnBrokerLoss, postAuth, ReturnFailed, Return, FailSession
  <2>1. Scalars'
    <3>1. main' \in {"select", "offer", "answer", "closeSession"}
      BY <1>4 DEF HandleEvent, OnPaired, NewSession, OnSignal, OnPeerLeft,
         BrokerLost, OnBrokerLoss, postAuth, ReturnFailed, Return, FailSession
    <3>2. sess' \in {"none", "signaling", "ready", "failed", "closed"}
      BY <1>4 DEF HandleEvent, OnPaired, NewSession, OnSignal, OnPeerLeft,
         BrokerLost, OnBrokerLoss, postAuth, ReturnFailed, Return, FailSession
    <3>3. authCh' \in {"none", "waiting", "ok", "error", "taken"}
      BY <1>4 DEF HandleEvent, OnPaired, NewSession, OnSignal, OnPeerLeft,
         BrokerLost, OnBrokerLoss, postAuth, ReturnFailed, Return, FailSession
    <3>4. UNCHANGED <<mode, reader, writer, sock, mu, broker, nsig, nping, remote>>
      BY <1>4 DEF HandleEvent
    <3> QED BY <3>1, <3>2, <3>3, <3>4
  <2>2. Closed'
    BY <1>4 DEF HandleEvent, OnPaired, NewSession, OnSignal, OnPeerLeft,
       BrokerLost, OnBrokerLoss, postAuth, ReturnFailed, Return, FailSession
  <2>3. Mutex'
    BY <1>4 DEF HandleEvent, OnPaired, NewSession, OnSignal, OnPeerLeft,
       BrokerLost, OnBrokerLoss, postAuth, ReturnFailed, Return, FailSession
  <2>4. Ended'
    BY <1>4 DEF HandleEvent, OnPaired, NewSession, OnSignal, OnPeerLeft,
       BrokerLost, OnBrokerLoss, postAuth, ReturnFailed, Return, FailSession
  <2>5. Exited'
    BY <1>4 DEF HandleEvent, OnPaired, NewSession, OnSignal, OnPeerLeft,
       BrokerLost, OnBrokerLoss, postAuth, ReturnFailed, Return, FailSession
  <2> QED BY <2>0, <2>1, <2>2, <2>3, <2>4, <2>5
<1>5. CASE CloseSession
  BY <1>5 DEF CloseSession
<1>6. CASE CloseClient
  BY <1>6 DEF CloseClient
<1>7. CASE CloseWait
  BY <1>7 DEF CloseWait
<1>8. CASE Interrupted
  BY <1>8 DEF Interrupted, Return
<1>9. CASE ListenerResult
  BY <1>9 DEF ListenerResult, ReturnFailed, Return, FailSession
<1>10. CASE ReadEnds
  BY <1>10 DEF ReadEnds
<1>11. CASE ReadMessage
  BY <1>11 DEF ReadMessage
<1>12. CASE PongWritten
  BY <1>12 DEF PongWritten, Unlock
<1>13. CASE Put
  <2>0. Flags'
    BY <1>13 DEF Put
  <2>1. Scalars'
    BY <1>13 DEF Put
  <2>2. Closed'
    BY <1>13 DEF Put
  <2>3. Mutex'
    BY <1>13 DEF Put
  <2>4. Ended'
    BY <1>13 DEF Put
  <2>5. Exited'
    BY <1>13 DEF Put
  <2> QED BY <2>0, <2>1, <2>2, <2>3, <2>4, <2>5
<1>14. ASSUME NEW w \in Tickers \cup {"main", "reader"}, Lock(w) PROVE Control'
  BY <1>14 DEF Lock, WantsLock
<1>15. ASSUME NEW w \in Tickers, Tick(w) PROVE Control'
  BY <1>15 DEF Tick
<1>16. ASSUME NEW w \in Tickers, Written(w) PROVE Control'
  BY <1>16 DEF Written, Unlock, WriteOK
<1>17. ASSUME NEW w \in Tickers, TickerDone(w) PROVE Control'
  BY <1>17 DEF TickerDone
<1>18. CASE SessionReady
  BY <1>18 DEF SessionReady
<1>19. CASE AuthCompletes
  BY <1>19 DEF AuthCompletes
<1>20. CASE AuthTimeout
  BY <1>20 DEF AuthTimeout
<1>21. CASE SessionFails
  BY <1>21 DEF SessionFails, FailSession
<1>22. CASE BrokerPairs
  BY <1>22 DEF BrokerPairs
<1>23. CASE DeliverPaired
  <2>0. Flags'
    BY <1>23 DEF DeliverPaired, BrokerSends
  <2>1. Scalars'
    BY <1>23 DEF DeliverPaired, BrokerSends
  <2>2. Closed'
    BY <1>23 DEF DeliverPaired, BrokerSends
  <2>3. Mutex'
    BY <1>23 DEF DeliverPaired, BrokerSends
  <2>4. Ended'
    BY <1>23 DEF DeliverPaired, BrokerSends
  <2>5. Exited'
    BY <1>23 DEF DeliverPaired, BrokerSends
  <2> QED BY <2>0, <2>1, <2>2, <2>3, <2>4, <2>5
<1>24. CASE RemoteSignal
  BY <1>24 DEF RemoteSignal, BrokerSends
<1>25. CASE BrokerPing
  BY <1>25 DEF BrokerPing
<1>26. CASE RemoteGone
  BY <1>26 DEF RemoteGone
<1>27. CASE RemoteDetached
  BY <1>27 DEF RemoteDetached
<1>28. CASE PeerLeft
  BY <1>28 DEF PeerLeft, BrokerSends
<1>29. CASE Expire
  BY <1>29 DEF Expire, BrokerSends
<1>30. CASE SocketCut
  BY <1>30 DEF SocketCut
<1>31. CASE UNCHANGED vars
  BY <1>31 DEF vars
<1> QED BY <1>1, <1>2, <1>3, <1>4, <1>5, <1>6, <1>7, <1>8, <1>9, <1>10, <1>11,
   <1>12, <1>13, <1>14, <1>15, <1>16, <1>17, <1>18, <1>19, <1>20, <1>21, <1>22,
   <1>23, <1>24, <1>25, <1>26, <1>27, <1>28, <1>29, <1>30, <1>31 DEF Next,
   MainStep, ReaderStep

-----------------------------------------------------------------------------
(* Messages and their order. *)

\* the rest of the type invariant
Letters ==
  /\ Bounded(events, told) /\ Bounded(held, told) /\ Bounded(inbox, told)
  /\ Len(events) <= QueueSize /\ told \in Nat /\ seen \in 0..told

\* readLoop holds a message exactly while it waits for room in the queue
Holding == IF reader = "put" THEN Len(held) = 1 ELSE held = <<>>

\* what is on its way is in order, until Close gives it up
Ordered == ~done => Flow(events, held, inbox, seen, told)

\* readLoop keeps the pings to itself
NoPing == /\ \A i \in DOMAIN events : events[i].type # "ping"
          /\ \A i \in DOMAIN held : held[i].type # "ping"

PeerInv == Control /\ Letters /\ Holding /\ Ordered /\ NoPing

\* a step after which the flow is in order keeps Letters and Ordered
LEMMA Settled ==
  ASSUME NEW e, NEW h, NEW b, NEW lo, NEW hi, Flow(e, h, b, lo, hi),
         events' = e, held' = h, inbox' = b, seen' = lo, told' = hi,
         Len(e) <= QueueSize
  PROVE  Letters' /\ Ordered'
<1>1. Bounded(e, hi) /\ Bounded(h, hi) /\ Bounded(b, hi)
  BY FlowBounded
<1>2. hi \in Nat /\ lo \in 0..hi
  BY DEF Flow
<1> QED BY <1>1, <1>2 DEF Letters, Ordered

\* a step that touches no message keeps Letters and Ordered
LEMMA Standstill ==
  ASSUME Letters, Ordered, UNCHANGED <<events, held, inbox, seen, told>>,
         done => done'
  PROVE  Letters' /\ Ordered'
BY DEF Letters, Ordered

\* a step that sends the next event on a socket that is up
LEMMA SpeakStep ==
  ASSUME PeerInv, sock = "up", NEW t \in Types, t # "ping",
         told' = told + 1, inbox' = Append(inbox, Message(t, told + 1)),
         UNCHANGED <<events, held, seen>>
  PROVE  Letters' /\ Ordered'
<1>1. ~done
  BY DEF PeerInv, Control, Closed
<1>2. Flow(events, held, inbox, seen, told)
  BY <1>1 DEF PeerInv, Ordered
<1>3. told \in Nat /\ Len(events) <= QueueSize
  BY DEF PeerInv, Letters
<1>4. PICK m : m = Message(t, told + 1)
  OBVIOUS
<1>5. m \in Msgs /\ m.n = told + 1 /\ m.type # "ping"
  BY <1>3, <1>4 DEF Message, Msgs
<1>6. Flow(events, held, Append(inbox, m), seen, told + 1)
  BY <1>2, <1>5, FlowSpeak
<1> QED BY <1>3, <1>4, <1>6, Settled

\* readLoop's end: broker-read is queued only when socket and hand are empty
LEMMA ReadEndsStep ==
  ASSUME PeerInv, ReadEnds
  PROVE  Letters' /\ Ordered'
<1>1. /\ held = <<>> /\ UNCHANGED <<held, inbox, seen, told, done>>
  BY DEF PeerInv, Holding, ReadEnds, client, env
<1>2. CASE UNCHANGED events
  BY <1>1, <1>2, Standstill DEF PeerInv
<1>3. CASE ~done /\ Len(events) < QueueSize /\ events' = Append(events, BrokerRead)
  <2>1. inbox = <<>>
    BY <1>3 DEF PeerInv, Control, Closed, ReadEnds
  <2>2. Flow(events, <<>>, <<>>, seen, told)
    BY <1>1, <1>3, <2>1 DEF PeerInv, Ordered
  <2>3. BrokerRead \in Msgs /\ BrokerRead.n = 0
    BY DEF BrokerRead, Message, Msgs, Types
  <2>4. Flow(Append(events, BrokerRead), <<>>, <<>>, seen, told)
    BY <2>2, <2>3, FlowReadEnds
  <2>5. Len(Append(events, BrokerRead)) <= QueueSize
    BY <1>3, <2>2, <2>3, QueueAssumption DEF Flow
  <2> QED BY <1>1, <1>3, <2>1, <2>4, <2>5, Settled
<1> QED BY <1>2, <1>3 DEF ReadEnds

\* readLoop's read: with a closed socket there is none, so done is not closed
LEMMA ReadMessageStep ==
  ASSUME PeerInv, ReadMessage
  PROVE  Letters' /\ Ordered'
<1>1. /\ held = <<>> /\ ~done /\ inbox # <<>> /\ inbox' = Tail(inbox)
      /\ held' = IF Head(inbox).type = "ping" THEN <<>> ELSE <<Head(inbox)>>
      /\ UNCHANGED <<events, seen, told>>
  BY DEF PeerInv, Holding, Control, Closed, ReadMessage, queue
<1>2. Flow(events, <<>>, inbox, seen, told)
  BY <1>1 DEF PeerInv, Ordered
<1>3. Flow(events, IF Head(inbox).type = "ping" THEN <<>> ELSE <<Head(inbox)>>,
           Tail(inbox), seen, told)
  <2>1. CASE Head(inbox).type = "ping"
    BY <1>1, <1>2, <2>1, FlowRead
  <2>2. CASE Head(inbox).type # "ping"
    BY <1>1, <1>2, <2>2, FlowRead
  <2> QED BY <2>1, <2>2
<1>4. Len(events) <= QueueSize
  BY DEF PeerInv, Letters
<1> QED BY <1>1, <1>3, <1>4, Settled

\* readLoop's put, also the one that races the close of done
LEMMA PutStep ==
  ASSUME PeerInv, Put
  PROVE  Letters' /\ Ordered'
<1>1. Len(held) = 1 /\ held' = <<>> /\ UNCHANGED <<inbox, seen, told, done>>
  BY DEF PeerInv, Holding, Put, client, env
<1>2. /\ events \in Seq(Msgs) /\ held[1] \in Msgs /\ held[1].n <= told
      /\ Len(events) <= QueueSize /\ told \in Nat
  <2>1. held \in Seq(Msgs) /\ events \in Seq(Msgs) /\ 1 \in DOMAIN held
    BY <1>1 DEF PeerInv, Letters, Bounded
  <2> QED BY <1>1, <2>1, Single DEF PeerInv, Letters, Bounded
<1>3. CASE Len(events) < QueueSize /\ events' = Append(events, held[1])
  <2>1. Len(Append(events, held[1])) <= QueueSize /\ Append(events,
     held[1]) \in Seq(Msgs)
    BY <1>2, <1>3, QueueAssumption
  <2>2. CASE ~done
    <3>1. Flow(Append(events, held[1]), <<>>, inbox, seen, told)
      BY <1>1, <2>2, FlowPut DEF PeerInv, Ordered
    <3> QED BY <1>1, <1>3, <2>1, <3>1, Settled
  <2>3. CASE done
    <3>1. \A i \in DOMAIN events : events[i].n <= told
      BY DEF PeerInv, Letters, Bounded
    <3>2. \A i \in DOMAIN Append(events, held[1]) : Append(events,
       held[1])[i].n <= told
      BY <1>2, <3>1, AppendPlaces
    <3>3. Bounded(Append(events, held[1]), told) /\ Bounded(<<>>, told)
      BY <2>1, <3>2 DEF Bounded
    <3>4. Bounded(inbox, told) /\ seen \in 0..told
      BY DEF PeerInv, Letters
    <3>5. Letters'
      BY <1>1, <1>2, <1>3, <2>1, <3>3, <3>4 DEF Letters
    <3> QED BY <1>1, <2>3, <3>5 DEF Ordered
  <2> QED BY <2>2, <2>3
<1>4. CASE done /\ UNCHANGED events
  <2>1. Bounded(<<>>, told)
    BY DEF Bounded
  <2>2. Letters'
    BY <1>1, <1>4, <2>1 DEF PeerInv, Letters
  <2> QED BY <1>1, <1>4, <2>2 DEF Ordered
<1> QED BY <1>3, <1>4 DEF Put

\* the main loop takes an event: in select the client is not closed
LEMMA HandleEventStep ==
  ASSUME PeerInv, HandleEvent
  PROVE  Letters' /\ Ordered'
<1>1. /\ ~done /\ events # <<>> /\ events' = Tail(events)
      /\ seen' = IF IsEvent(Head(events)) THEN seen + 1 ELSE seen
      /\ UNCHANGED <<held, inbox, told>>
  BY DEF PeerInv, Control, Closed, HandleEvent, worker, env
<1>2. Flow(events, held, inbox, seen, told)
  BY <1>1 DEF PeerInv, Ordered
<1>3. Flow(Tail(events), held, inbox,
   IF IsEvent(Head(events)) THEN seen + 1 ELSE seen, told)
  BY <1>1, <1>2, FlowTake
<1>4. Len(Tail(events)) <= QueueSize
  <2>1. Len(events) <= QueueSize
    BY DEF PeerInv, Letters
  <2>2. events \in Seq(Msgs)
    BY <1>2 DEF Flow
  <2> QED BY <1>1, <2>1, <2>2, QueueAssumption
<1> QED BY <1>1, <1>3, <1>4, Settled

\* Register is answered by the first event
LEMMA SentStep ==
  ASSUME PeerInv, Sent
  PROVE  Letters' /\ Ordered'
<1>1. UNCHANGED <<events, held, seen, done>>
  BY DEF Sent, queue, worker
<1>2. CASE /\ sock = "up" /\ main = "register" /\ told' = told + 1
           /\ inbox' = Append(inbox, Message("registered", told + 1))
  BY <1>1, <1>2, SpeakStep DEF Types
<1>3. CASE UNCHANGED <<told, inbox>>
  BY <1>1, <1>3, Standstill DEF PeerInv
<1> QED BY <1>2, <1>3 DEF Sent, WriteOK

\* a ping is no event
LEMMA BrokerPingStep ==
  ASSUME PeerInv, BrokerPing
  PROVE  Letters' /\ Ordered'
<1>1. /\ ~done /\ inbox' = Append(inbox, Message("ping", 0))
      /\ UNCHANGED <<events, held, seen, told>>
  BY DEF PeerInv, Control, Closed, BrokerPing, queue, worker
<1>2. Flow(events, held, inbox, seen, told) /\ Len(events) <= QueueSize
  BY <1>1 DEF PeerInv, Ordered, Letters
<1>3. Message("ping", 0) \in Msgs /\ Message("ping", 0).n = 0
  BY DEF Message, Msgs, Types
<1>4. Flow(events, held, Append(inbox, Message("ping", 0)), seen, told)
  BY <1>2, <1>3, FlowPing
<1> QED BY <1>1, <1>2, <1>4, Settled

\* a socket that is cut loses the highest numbers
LEMMA SocketCutStep ==
  ASSUME PeerInv, SocketCut
  PROVE  Letters' /\ Ordered'
<1>1. ~done /\ UNCHANGED <<events, held, seen>>
  BY DEF PeerInv, Control, Closed, SocketCut, queue, worker
<1>2. PICK n \in 0..Len(inbox) :
        /\ inbox' = SubSeq(inbox, 1, n)
        /\ told' = told - Count(SubSeq(inbox, n + 1, Len(inbox)))
  BY DEF SocketCut
<1>3. Flow(events, held, inbox, seen, told) /\ Len(events) <= QueueSize
  BY <1>1 DEF PeerInv, Ordered, Letters
<1>4. Flow(events, held, SubSeq(inbox, 1, n), seen,
           told - Count(SubSeq(inbox, n + 1, Len(inbox))))
  BY <1>3, FlowCut
<1> QED BY <1>1, <1>2, <1>3, <1>4, Settled

\* readLoop holds a message exactly while it puts it
LEMMA HoldingStep == PeerInv /\ [Next]_vars => Holding'
<1> SUFFICES ASSUME PeerInv, [Next]_vars PROVE Holding'
  OBVIOUS
<1> DEFINE Kept == UNCHANGED <<reader, held>>
<1> USE DEF Holding, peer, tunnel, queue, worker, client, env
<1>1. CASE ReadEnds
  BY <1>1 DEF ReadEnds, PeerInv
<1>2. CASE ReadMessage
  BY <1>2 DEF ReadMessage, PeerInv
<1>3. CASE PongWritten
  BY <1>3 DEF PongWritten, PeerInv
<1>4. CASE Put
  BY <1>4 DEF Put, PeerInv
<1>5. CASE Kept
  BY <1>5 DEF PeerInv
<1>6. MainStep => Kept
  BY DEF MainStep, Sent, AuthResult, EventsClosed, HandleEvent, CloseSession,
     CloseClient, CloseWait
<1>7. Interrupted \/ ListenerResult => Kept
  BY DEF Interrupted, ListenerResult
<1>8. \A w : Lock(w) \/ Tick(w) \/ Written(w) \/ TickerDone(w) => Kept
  BY DEF Lock, Tick, Written, TickerDone
<1>9. SessionReady \/ AuthCompletes \/ AuthTimeout \/ SessionFails => Kept
  BY DEF SessionReady, AuthCompletes, AuthTimeout, SessionFails
<1>10. BrokerPairs \/ DeliverPaired \/ RemoteSignal \/ BrokerPing \/ RemoteGone
         \/ RemoteDetached \/ PeerLeft \/ Expire \/ SocketCut => Kept
  BY DEF BrokerPairs, DeliverPaired, RemoteSignal, BrokerPing, RemoteGone,
     RemoteDetached, PeerLeft, Expire, SocketCut
<1>11. UNCHANGED vars => Kept
  BY DEF vars
<1> HIDE DEF Kept
<1> QED BY <1>1, <1>2, <1>3, <1>4, <1>5, <1>6, <1>7, <1>8, <1>9, <1>10,
   <1>11 DEF Next, ReaderStep

\* no step hands a ping on
LEMMA NoPingStep == PeerInv /\ [Next]_vars => NoPing'
<1> SUFFICES ASSUME PeerInv, [Next]_vars PROVE NoPing'
  OBVIOUS
<1>0. /\ NoPing /\ Holding /\ events \in Seq(Msgs) /\ held \in Seq(Msgs)
      /\ inbox \in Seq(Msgs)
  BY DEF PeerInv, Letters, Bounded
<1> DEFINE Kept == UNCHANGED <<events, held>>
<1> USE DEF peer, tunnel, queue, worker, client, env
<1>1. CASE ReadEnds
  <2>1. BrokerRead \in Msgs /\ BrokerRead.type # "ping"
    BY DEF BrokerRead, Message, Msgs, Types
  <2>2. \A i \in DOMAIN Append(events, BrokerRead) :
          Append(events, BrokerRead)[i].type # "ping"
    BY <1>0, <2>1, AppendPlaces DEF NoPing
  <2> QED BY <1>0, <1>1, <2>2 DEF ReadEnds, NoPing
<1>2. CASE ReadMessage
  <2>1. CASE Head(inbox).type = "ping"
    BY <1>0, <1>2, <2>1 DEF ReadMessage, NoPing
  <2>2. CASE Head(inbox).type # "ping"
    <3>1. held' = <<Head(inbox)>> /\ UNCHANGED events
      BY <1>2, <2>2 DEF ReadMessage
    <3> QED BY <1>0, <2>2, <3>1 DEF NoPing
  <2> QED BY <2>1, <2>2
<1>3. CASE Put
  <2>1. 1 \in DOMAIN held
    BY <1>0, <1>3 DEF Put, Holding
  <2>3. held[1] \in Msgs /\ held[1].type # "ping"
    BY <1>0, <2>1 DEF NoPing
  <2>2. \A i \in DOMAIN Append(events, held[1]) :
          Append(events, held[1])[i].type # "ping"
    BY <1>0, <2>3, AppendPlaces DEF NoPing
  <2>4. held' = <<>> /\ (UNCHANGED events \/ events' = Append(events, held[1]))
    BY <1>3 DEF Put
  <2>5. \A i \in DOMAIN <<>> : <<>>[i].type # "ping"
    OBVIOUS
  <2> QED BY <1>0, <2>2, <2>4, <2>5 DEF NoPing
<1>4. CASE HandleEvent
  <2>1. /\ events # <<>> /\ events' = Tail(events) /\ UNCHANGED held
    BY <1>4 DEF HandleEvent
  <2>2. \A i \in DOMAIN Tail(events) :
          i + 1 \in DOMAIN events /\ Tail(events)[i] = events[i + 1]
    BY <1>0, <2>1, TailPlaces
  <2> QED BY <1>0, <2>1, <2>2 DEF NoPing
<1>5. CASE Kept
  BY <1>0, <1>5 DEF NoPing
<1>6. Sent \/ AuthResult \/ EventsClosed \/ CloseSession \/ CloseClient \/ CloseWait => Kept
  BY DEF Sent, AuthResult, EventsClosed, CloseSession, CloseClient, CloseWait
<1>7. Interrupted \/ ListenerResult \/ PongWritten => Kept
  BY DEF Interrupted, ListenerResult, PongWritten
<1>8. \A w : Lock(w) \/ Tick(w) \/ Written(w) \/ TickerDone(w) => Kept
  BY DEF Lock, Tick, Written, TickerDone
<1>9. SessionReady \/ AuthCompletes \/ AuthTimeout \/ SessionFails => Kept
  BY DEF SessionReady, AuthCompletes, AuthTimeout, SessionFails
<1>10. BrokerPairs \/ DeliverPaired \/ RemoteSignal \/ BrokerPing \/ RemoteGone
         \/ RemoteDetached \/ PeerLeft \/ Expire \/ SocketCut => Kept
  BY DEF BrokerPairs, DeliverPaired, RemoteSignal, BrokerPing, RemoteGone,
     RemoteDetached, PeerLeft, Expire, SocketCut
<1>11. UNCHANGED vars => Kept
  BY DEF vars
<1> HIDE DEF Kept
<1> QED BY <1>1, <1>2, <1>3, <1>4, <1>5, <1>6, <1>7, <1>8, <1>9, <1>10, <1>11
        DEF Next, MainStep, ReaderStep

\* every step keeps the messages and their order
LEMMA OrderStep == PeerInv /\ [Next]_vars => Letters' /\ Ordered'
<1> SUFFICES ASSUME PeerInv, [Next]_vars PROVE Letters' /\ Ordered'
  OBVIOUS
<1> DEFINE Still == UNCHANGED <<events, held, inbox, seen, told>> /\ (done => done')
<1>1. CASE Still
  BY <1>1, Standstill DEF PeerInv
<1>2. CASE \/ ReadEnds \/ ReadMessage \/ Put \/ HandleEvent
           \/ Sent \/ BrokerPing \/ SocketCut
  BY <1>2, ReadEndsStep, ReadMessageStep, PutStep, HandleEventStep, SentStep,
     BrokerPingStep,
     SocketCutStep
<1>3. CASE DeliverPaired
  BY <1>3, SpeakStep DEF DeliverPaired, BrokerSends, Types, queue, worker
<1>4. CASE RemoteSignal
  BY <1>4, SpeakStep DEF RemoteSignal, BrokerSends, Types, queue, worker
<1>5. CASE PeerLeft
  BY <1>5, SpeakStep DEF PeerLeft, BrokerSends, Types, queue, worker
<1>6. CASE Expire
  <2>1. PICK t \in Types : t # "ping" /\ BrokerSends(t)
    BY <1>6 DEF Expire, Types, Expired
  <2> QED BY <1>6, <2>1, SpeakStep DEF Expire, BrokerSends, queue, worker
<1> USE DEF peer, tunnel, queue, worker, client, env
<1>7. AuthResult \/ EventsClosed \/ CloseSession \/ CloseClient \/ CloseWait => Still
  BY DEF AuthResult, EventsClosed, CloseSession, CloseClient, CloseWait
<1>8. Interrupted \/ ListenerResult \/ PongWritten => Still
  BY DEF Interrupted, ListenerResult, PongWritten
<1>9. \A w : Lock(w) \/ Tick(w) \/ Written(w) \/ TickerDone(w) => Still
  BY DEF Lock, Tick, Written, TickerDone
<1>10. SessionReady \/ AuthCompletes \/ AuthTimeout \/ SessionFails => Still
  BY DEF SessionReady, AuthCompletes, AuthTimeout, SessionFails
<1>11. BrokerPairs \/ RemoteGone \/ RemoteDetached => Still
  BY DEF BrokerPairs, RemoteGone, RemoteDetached
<1>12. UNCHANGED vars => Still
  BY DEF vars
<1> HIDE DEF Still
<1> QED BY <1>1, <1>2, <1>3, <1>4, <1>5, <1>6, <1>7, <1>8, <1>9, <1>10, <1>11, <1>12
        DEF Next, MainStep, ReaderStep

\* a client that has just been dialled
LEMMA InitPeerInv == Init => PeerInv
<1> SUFFICES ASSUME Init PROVE PeerInv
  OBVIOUS
<1>1. Control
  <2>1. Flags
    BY DEF Init, Flags
  <2>2. Scalars
    BY PeerBoundsAssumption DEF Init, Scalars
  <2>3. Closed /\ Ended /\ Exited
    BY DEF Init, Closed, Ended, Exited
  <2>4. Mutex
    BY TickersAssumption DEF Init, Mutex
  <2> QED BY <2>1, <2>2, <2>3, <2>4 DEF Control
<1>2. Flow(<<>>, <<>>, <<>>, 0, 0)
  <2>1. <<>> \in Seq(Msgs) /\ (<<>> \o <<>>) \o <<>> = <<>> /\ DOMAIN <<>> = {}
    OBVIOUS
  <2>2. InOrder(<<>>, 0, 0)
    BY <2>1 DEF InOrder
  <2> QED BY <2>1, <2>2 DEF Flow
<1>3. Letters
  <2>1. Bounded(<<>>, 0)
    BY <1>2, FlowBounded
  <2> QED BY <2>1, QueueAssumption DEF Init, Letters
<1>4. NoPing
  BY DEF Init, NoPing
<1> QED BY <1>1, <1>2, <1>3, <1>4 DEF Init, PeerInv, Holding, Ordered

\* PeerInv is inductive
LEMMA PeerInvStep == PeerInv /\ [Next]_vars => PeerInv'
<1> SUFFICES ASSUME PeerInv, [Next]_vars PROVE PeerInv'
  OBVIOUS
<1>1. Control'
  BY ControlStep DEF PeerInv
<1>2. Holding'
  BY HoldingStep
<1>3. Letters' /\ Ordered'
  BY OrderStep
<1>4. NoPing'
  BY NoPingStep
<1> QED BY <1>1, <1>2, <1>3, <1>4 DEF PeerInv

-----------------------------------------------------------------------------
(***************************************************************************)
(* The inductive invariant of runPeer and its client holds in every        *)
(* reachable state, for every queue size, every set of ticker loops and    *)
(* any number of signals and pings.                                        *)
(***************************************************************************)
THEOREM PeerInvAlways == Spec => []PeerInv
BY InitPeerInv, PeerInvStep, PTL DEF Spec

(***************************************************************************)
(* Type correctness: no message has a number that the broker has not       *)
(* given, and a ping, which readLoop answers itself, never gets into the   *)
(* queue of the main loop, which would not know it.                        *)
(***************************************************************************)
THEOREM TypeCorrect == Spec => []TypeOK
<1>1. PeerInv => TypeOK
  BY DEF PeerInv, Control, Flags, Scalars, Letters, Bounded, Msgs, NoPing, TypeOK,
         Messages, Queued
<1> QED BY <1>1, PeerInvAlways, PTL

(***************************************************************************)
(* As long as the client is not closed, what the main loop has not taken   *)
(* yet is in the queue, in readLoop's hand or in the socket: no event is   *)
(* lost, repeated or overtaken between conn.Read and the select of         *)
(* runPeer, whatever the capacity of Client.events.                        *)
(***************************************************************************)
THEOREM EventsInOrderAlways == Spec => []EventsInOrder
<1>1. PeerInv => EventsInOrder
  BY DEF PeerInv, Ordered, Flow, EventsInOrder
<1> QED BY <1>1, PeerInvAlways, PTL

(***************************************************************************)
(* When runPeer has returned, readLoop and the ticker loops have ended,    *)
(* nobody has writeMu, and the session is neither signaling nor ready.     *)
(***************************************************************************)
THEOREM NothingLeftBehindAlways == Spec => []NothingLeftBehind
<1>1. PeerInv => NothingLeftBehind
  BY TickersAssumption DEF PeerInv, Control, Scalars, Mutex, Ended, Exited,
     WorkersExited, NothingLeftBehind
<1> QED BY <1>1, PeerInvAlways, PTL

=============================================================================

-------------------------- MODULE AdmissionProofs ---------------------------
(***************************************************************************)
(* Admission for any number of clients, proxies and handlers, any rate and *)
(* burst, any skew up to the time of a token and any list of claimed       *)
(* addresses.                                                              *)
(***************************************************************************)
EXTENDS Admission, SequenceTheorems, TLAPS

-----------------------------------------------------------------------------
(* clientIP. *)

\* Each entry a proxy appends is the address of what is behind it: the client
\* first, then proxies; so the client is the rightmost address of the list
\* that is no proxy, whatever the request claimed.
LEMMA RightmostIsClient ==
  ASSUME NEW c \in Clients, NEW trusted \in SUBSET Proxies,
         NEW m \in Nat, NEW claimed \in [1..m -> Entries],
         NEW n \in Nat, NEW hops \in [1..n -> Entries], NEW direct,
         n > 0, hops[1] = c, \A i \in 2..n : hops[i] \in trusted
  PROVE  Rightmost(claimed \o hops, trusted, direct) = c
<1> DEFINE parts == claimed \o hops
           good  == Untrusted(parts, trusted)
<1>1. /\ claimed \in Seq(Entries) /\ Len(claimed) = m
      /\ hops \in Seq(Entries) /\ Len(hops) = n
  BY DEF Entries, Addresses
<1>2. /\ DOMAIN parts = 1..(m + n)
      /\ \A i \in 1..n : parts[m + i] = hops[i]
  <2>1. /\ parts \in Seq(Entries) /\ Len(parts) = Len(claimed) + Len(hops)
        /\ \A i \in 1..(Len(claimed) + Len(hops)) :
             parts[i] = IF i <= Len(claimed) THEN claimed[i]
                        ELSE hops[i - Len(claimed)]
    BY <1>1, ConcatProperties, Zenon
  <2> HIDE DEF parts
  <2>2. DOMAIN parts = 1..(m + n)
    BY <1>1, <2>1
  <2>3. ASSUME NEW i \in 1..n PROVE parts[m + i] = hops[i]
    <3>1. m + i \in 1..(m + n) /\ ~(m + i <= m) /\ (m + i) - m = i
      OBVIOUS
    <3> QED BY <1>1, <2>1, <3>1
  <2> QED BY <2>2, <2>3
<1>3. parts[m + 1] = c /\ m + 1 \in 1..(m + n)
  BY <1>2
<1>4. m + 1 \in good
  BY <1>2, <1>3, AddressAssumption DEF Untrusted, Addresses, isTrusted
<1>5. ASSUME NEW j \in good PROVE j <= m + 1
  <2>1. j \in 1..(m + n) /\ parts[j] \notin trusted
    BY <1>2 DEF Untrusted, isTrusted
  <2>2. ASSUME j > m + 1 PROVE FALSE
    <3>1. j - m \in 2..n /\ parts[m + (j - m)] = hops[j - m] /\ m + (j - m) = j
      BY <1>2, <2>1, <2>2
    <3> QED BY <2>1, <3>1
  <2> QED BY <2>1, <2>2
<1>6. (CHOOSE i \in good : \A j \in good : j <= i) = m + 1
  <2>1. good \subseteq Nat
    BY <1>2 DEF Untrusted
  <2>2. \A i \in good : (\A j \in good : j <= i) <=> i = m + 1
    BY <1>4, <1>5, <2>1
  <2> QED BY <1>4, <2>2
<1> QED BY <1>3, <1>4, <1>6 DEF Rightmost

\* the address that stands for a client behind n proxies
KeyBehind(c, header, n, path) ==
  IF header = Real /\ n > 1 THEN path[n - 1] ELSE c

\* What clientIP makes of a request that came through n proxies, the last one
\* trusted and, but for CF-Connecting-IP, the others too: the client's address
\* in every case but one, a chain of proxies that each overwrite X-Real-IP,
\* where it is the address of the last proxy but one.  It is never an address
\* the request claimed.
THEOREM KeyOfRequest ==
  ASSUME NEW c \in Clients, NEW trusted \in SUBSET Proxies,
         NEW header \in {XFF, Real, Edge},
         NEW m \in Nat, NEW claimed \in [1..m -> Entries], NEW single \in Entries,
         NEW n \in Nat, NEW path \in [1..n -> Proxies],
         Known(path, trusted, header)
  PROVE  clientIP(Request(c, claimed, single, path), trusted, header)
           = KeyBehind(c, header, n, path)
<1> USE DEF KeyBehind
<1> DEFINE hops == [i \in DOMAIN path |-> Seen(c, path, i)]
           r    == Request(c, claimed, single, path)
<1>1. c \notin trusted /\ c \in Addresses /\ Proxies \subseteq Addresses
  BY AddressAssumption DEF Addresses
<1>0. \A i \in 1..n : i = n \/ header # Edge => path[i] \in trusted
  <2>1. DOMAIN path = 1..n /\ Len(path) = n
    OBVIOUS
  <2> QED BY <2>1 DEF Known
<1>2. CASE n = 0
  <2>1. path = <<>>
    BY <1>2
  <2>2. r.remote = c
    BY <2>1 DEF Request
  <2> QED BY <1>1, <1>2, <2>2 DEF clientIP, isTrusted
<1>3. CASE n # 0
  <2>1. path # <<>> /\ Len(path) = n /\ DOMAIN path = 1..n /\ path[n] \in trusted
    BY <1>0, <1>3
  <2>2. /\ r.remote \in trusted /\ r.xff = claimed \o hops
        /\ r.real = Seen(c, path, n) /\ r.edge = c
    BY <2>1 DEF Request
  <2>3. CASE header = XFF
    <3>1. PICK h, direct : h = hops /\ direct = r.remote
      OBVIOUS
    <3>2. n > 0 /\ h \in [1..n -> Entries] /\ h[1] = c
      BY <1>1, <1>3, <2>1, <3>1 DEF Entries, Seen
    <3>3. \A i \in 2..n : h[i] \in trusted
      BY <1>0, <2>1, <2>3, <3>1 DEF Seen, XFF, Edge
    <3>4. Rightmost(claimed \o h, trusted, direct) = c
      BY <3>2, <3>3, RightmostIsClient
    <3> QED BY <2>2, <2>3, <3>1, <3>4 DEF clientIP, isTrusted, XFF, Real, Off
  <2>4. CASE header = Real
    <3>1. r.real = (IF n > 1 THEN path[n - 1] ELSE c) /\ r.real \in Addresses
      BY <1>1, <1>3, <2>1, <2>2 DEF Seen
    <3> QED BY <2>2, <2>4, <3>1 DEF clientIP, Single, isTrusted, XFF, Real, Off
  <2>5. CASE header = Edge
    BY <1>1, <2>2, <2>5 DEF clientIP, Single, isTrusted, XFF, Real, Edge, Off
  <2> QED BY <2>3, <2>4, <2>5
<1> QED BY <1>2, <1>3

\* clientIP finds the client of every request, directly or through the proxies
\* of a set-up that the options fit.
LEMMA ClientIPIsClient ==
  ASSUME NEW cfg \in Configs, NEW c \in Clients, NEW k \in KeysOf[cfg][c]
  PROVE  k = c
<1>1. PICK claimed \in Claims, single \in Entries, path \in Paths(cfg) :
        k = clientIP(Request(c, claimed, single, path), cfg.trusted, cfg.header)
  BY DEF KeysOf
<1>2. /\ cfg.trusted \in SUBSET Proxies /\ cfg.hops \in Nat
      /\ cfg.trusted # {} => cfg.header \in {XFF, Real, Edge}
      /\ cfg.header = Real => cfg.hops <= 1
  BY ConfigsAssumption
<1>3. PICK m \in Nat : claimed \in [1..m -> Entries]
  BY AdmissionBoundsAssumption DEF Claims
<1>4. PICK n \in 0..cfg.hops : path \in [1..n -> Proxies]
  BY <1>2 DEF Paths
<1>5. n \in Nat /\ (cfg.header = Real => n <= 1)
  BY <1>2, <1>4
<1>6. Known(path, cfg.trusted, cfg.header)
  BY DEF Paths
<1>7. CASE cfg.trusted = {}
  <2>1. path = <<>>
    <3>1. DOMAIN path = 1..n /\ Len(path) = n
      BY <1>4, <1>5
    <3>2. n = 0
      BY <1>5, <1>6, <1>7, <3>1 DEF Known
    <3> QED BY <1>4, <3>2
  <2>2. Request(c, claimed, single, path).remote = c
    BY <2>1 DEF Request
  <2>3. \A r, header : clientIP(r, {}, header) = r.remote
    BY DEF clientIP
  <2> QED BY <1>1, <1>7, <2>2, <2>3, Zenon
<1>8. CASE cfg.trusted # {}
  <2>1. cfg.header \in {XFF, Real, Edge}
    BY <1>2, <1>8
  <2>2. clientIP(Request(c, claimed, single, path), cfg.trusted, cfg.header)
          = KeyBehind(c, cfg.header, n, path)
    <3>1. n \in Nat
      BY <1>5
    <3>2. path \in [1..n -> Proxies]
      BY <1>4
    <3>3. claimed \in [1..m -> Entries]
      BY <1>3
    <3>4. cfg.trusted \in SUBSET Proxies
      BY <1>2
    <3>5. c \in Clients /\ single \in Entries /\ m \in Nat
      OBVIOUS
    <3> QED BY <3>1, <3>2, <3>3, <3>4, <3>5, <1>6, <2>1, KeyOfRequest, ZenonT(60)
  <2>3. ~(cfg.header = Real /\ n > 1)
    BY <1>5
  <2> QED BY <1>1, <2>2, <2>3 DEF KeyBehind
<1> QED BY <1>7, <1>8

-----------------------------------------------------------------------------
(* Types. *)

\* A bucket holds at least one token.
LEMMA FullBounds == Full \in Nat /\ Period <= Full
<1>1. PICK more \in Nat : Burst = more + 1
  <2>1. Burst - 1 \in Nat /\ Burst = (Burst - 1) + 1
    BY LimiterAssumption
  <2> QED BY <2>1
<1>2. more * Period \in Nat /\ Full = more * Period + Period
  BY <1>1, LimiterAssumption DEF Full
<1> QED BY <1>2, LimiterAssumption

\* What advance computes.
LEMMA CreditBounds ==
  ASSUME NEW b, b.last \in Nat, b.credit \in 0..Full, NEW s \in Nat
  PROVE  /\ Credit(b, s) \in 0..Full /\ b.credit <= Credit(b, s)
         /\ s < b.last => Credit(b, s) = b.credit
         /\ s >= b.last => \/ Credit(b, s) = b.credit + (s - b.last)
                           \/ Credit(b, s) = Full /\ Full <= b.credit + (s - b.last)
BY FullBounds DEF Credit, Lesser

\* AllowN leaves a bucket.
LEMMA ChargeType ==
  ASSUME NEW b \in Buckets, NEW s \in 0..MaxTime
  PROVE  Charge(b, s) \in Buckets
<1>1. Credit(b, s) \in 0..Full
  BY CreditBounds, AdmissionBoundsAssumption DEF Buckets
<1>2. CASE Allowed(b, s)
  BY <1>1, <1>2, FullBounds, LimiterAssumption DEF Charge, Allowed, Buckets
<1>3. CASE ~Allowed(b, s)
  BY <1>3 DEF Charge, Buckets
<1> QED BY <1>2, <1>3

\* The bucket a request meets, kept or new.
LEMMA BucketType ==
  ASSUME TypeOK, NEW k \in Addresses, NEW s \in 0..MaxTime
  PROVE  Bucket(k, s) \in Buckets
BY FullBounds DEF TypeOK, Bucket, NewLimiter, Buckets

\* A request that is being handled is no Idle.
LEMMA IdleIsNoRequest == \A t : Idle \notin Requests(t)
BY DEF Idle, Requests

\* Every step of the broker's admission path keeps the types.
LEMMA NextTypeOK == TypeOK /\ [Next]_vars => TypeOK'
<1> SUFFICES ASSUME TypeOK, [Next]_vars PROVE TypeOK'
  OBVIOUS
<1> USE AdmissionBoundsAssumption, IdleIsNoRequest DEF ledgers
<1>1. ASSUME NEW h \in Handlers, Arrive(h) PROVE TypeOK'
  <2>1. PICK c, k : c \in Clients /\ k \in KeysOf[config][c] /\
          handling' = [handling EXCEPT ![h] =
            [busy |-> TRUE, client |-> c, key |-> k, stamp |-> now]]
    BY <1>1 DEF Arrive
  <2>2. k \in Addresses
    BY <2>1, ClientIPIsClient DEF TypeOK, Addresses
  <2>3. [busy |-> TRUE, client |-> c, key |-> k, stamp |-> now] \in Requests(now)
    BY <2>1, <2>2 DEF Requests, TypeOK
  <2>4. handling' \in [Handlers -> {Idle} \cup Requests(now)]
    BY <2>1, <2>3 DEF TypeOK
  <2> QED BY <1>1, <2>4 DEF Arrive, TypeOK
<1>2. ASSUME NEW h \in Handlers, Decide(h) PROVE TypeOK'
  <2> DEFINE r == handling[h]
  <2>1. r \in Requests(now)
    BY <1>2 DEF Decide, TypeOK
  <2>2. r.client \in Clients /\ r.key \in Addresses /\ r.stamp \in 0..MaxTime
    BY <2>1 DEF Requests, TypeOK
  <2>3. /\ keys' = With(keys, r.key, Charge(Bucket(r.key, r.stamp), r.stamp))
        /\ handling' = [handling EXCEPT ![h] = Idle]
        /\ UNCHANGED <<config, now, sweep>>
    BY <1>2 DEF Decide, Allow
  <2>4. Charge(Bucket(r.key, r.stamp), r.stamp) \in Buckets
    BY <2>2, BucketType, ChargeType
  <2>5. DOMAIN keys' \subseteq Addresses /\ \A k \in DOMAIN keys' : keys'[k] \in Buckets
    BY <2>2, <2>3, <2>4 DEF With, TypeOK
  <2>6. spent' \in [Clients -> Nat] /\ lenient' \in [Clients -> Nat]
    BY <1>2, <2>2, LimiterAssumption DEF Decide, TypeOK
  <2>7. handling' \in [Handlers -> {Idle} \cup Requests(now)]
    BY <2>3 DEF TypeOK
  <2> QED BY <2>3, <2>5, <2>6, <2>7 DEF TypeOK
<1>3. CASE StartCleanup
  BY <1>3 DEF StartCleanup, TypeOK
<1>4. CASE Cleanup
  BY <1>4 DEF Cleanup, TypeOK
<1>5. CASE Tick
  <2>1. now' \in 0..MaxTime /\ 0..now \subseteq 0..now'
    BY <1>5 DEF Tick, TypeOK
  <2>2. Requests(now) \subseteq Requests(now')
    BY <2>1 DEF Requests
  <2>3. spent' \in [Clients -> Nat] /\ lenient' \in [Clients -> Nat]
    BY <1>5 DEF Tick, Drain, TypeOK
  <2> QED BY <1>5, <2>1, <2>2, <2>3 DEF Tick, TypeOK
<1>6. CASE UNCHANGED vars
  BY <1>6 DEF vars, TypeOK
<1> QED BY <1>1, <1>2, <1>3, <1>4, <1>5, <1>6 DEF Next

\* Every bucket holds between nothing and the burst, and no stamp is from the
\* future.
THEOREM TypeCorrect == Spec => []TypeOK
<1>1. Init => TypeOK
  BY AdmissionBoundsAssumption DEF Init, TypeOK
<1> QED BY <1>1, NextTypeOK, PTL DEF Spec

\* A request is charged to the client that sent it, whatever its headers
\* claimed, through every proxy set-up that ConfigsAssumption admits: none, any
\* number of trusted ones with X-Forwarded-For, one with X-Real-IP, an edge
\* network before a trusted one with CF-Connecting-IP (clientIP).
THEOREM KeyIsClientAlways == Spec => []KeyIsClient
<1>1. Init => KeyIsClient
  BY DEF Init, KeyIsClient
<1>2. TypeOK /\ KeyIsClient /\ [Next]_vars => KeyIsClient'
  <2> SUFFICES ASSUME TypeOK, KeyIsClient, [Next]_vars PROVE KeyIsClient'
    OBVIOUS
  <2>1. ASSUME NEW h \in Handlers, Arrive(h) PROVE KeyIsClient'
    <3>1. PICK c, k : c \in Clients /\ k \in KeysOf[config][c] /\
            handling' = [handling EXCEPT ![h] =
              [busy |-> TRUE, client |-> c, key |-> k, stamp |-> now]]
      BY <2>1 DEF Arrive
    <3>2. k = c
      BY <3>1, ClientIPIsClient DEF TypeOK
    <3> QED BY <3>1, <3>2 DEF KeyIsClient, TypeOK
  <2>2. ASSUME NEW h \in Handlers, Decide(h) PROVE KeyIsClient'
    BY <2>2 DEF Decide, KeyIsClient, TypeOK
  <2>3. CASE UNCHANGED handling
    BY <2>3 DEF KeyIsClient
  <2> QED BY <2>1, <2>2, <2>3 DEF Next, StartCleanup, Cleanup, Tick, vars
<1> QED BY <1>1, <1>2, TypeCorrect, PTL DEF Spec

-----------------------------------------------------------------------------
(* The ledgers. *)

\* Whoever has read the clock applies it within MaxSkew.
Fresh ==
  \A h \in Handlers : handling[h] # Idle => now <= handling[h].stamp + MaxSkew

\* A bucket's stamps are of the past; a refusal may set lastSeen back, behind
\* the last admission, but not by more than the skew.
StampsOK ==
  \A k \in DOMAIN keys : /\ keys[k].last <= now
                         /\ keys[k].last <= keys[k].lastSeen + MaxSkew

\* What a client has used and what its bucket will hold by now, were it not
\* capped, make up one burst: at most, if the skew is forgiven, unless all has
\* been drained; at least, if it is not.  A client without a bucket has drained
\* all.
Held(k) == keys[k].credit + (now - keys[k].last)

AtMost ==
  \A c \in Clients : lenient[c] > 0 =>
    c \in DOMAIN keys /\ lenient[c] + Held(c) <= Full

AtLeast ==
  \A c \in Clients : c \in DOMAIN keys => spent[c] + Held(c) >= Full

LedgerInv == Fresh /\ StampsOK /\ AtMost /\ AtLeast

\* What Decide does to the bucket and to the ledgers of the request's client.
LEMMA DecideFacts ==
  ASSUME TypeOK, KeyIsClient, Fresh, NEW h \in Handlers, Decide(h)
  PROVE  \E c \in Clients, s \in 0..now :
           LET b == Bucket(c, s) IN
           /\ handling[h].client = c /\ handling[h].stamp = s
           /\ now <= s + MaxSkew
           /\ b \in Buckets
           /\ keys' = With(keys, c, Charge(b, s))
           /\ \/ /\ Allowed(b, s)
                 /\ spent' = [spent EXCEPT ![c] = @ + Period]
                 /\ lenient' = [lenient EXCEPT ![c] = @ + Period - MaxSkew]
              \/ ~Allowed(b, s) /\ UNCHANGED ledgers
           /\ handling' = [handling EXCEPT ![h] = Idle]
           /\ UNCHANGED <<config, now, sweep>>
<1> DEFINE r == handling[h]
<1>1. r \in Requests(now) /\ r # Idle
  BY DEF Decide, TypeOK
<1>2. r.client \in Clients /\ r.stamp \in 0..now /\ r.key = r.client
      /\ now <= r.stamp + MaxSkew
  BY <1>1 DEF Requests, KeyIsClient, Fresh
<1>3. Bucket(r.client, r.stamp) \in Buckets
  <2>1. r.stamp \in 0..MaxTime
    BY <1>2, AdmissionBoundsAssumption DEF TypeOK
  <2> QED BY <1>2, <2>1, BucketType DEF Addresses
<1>4. /\ keys' = With(keys, r.client, Charge(Bucket(r.client, r.stamp), r.stamp))
      /\ \/ /\ Allowed(Bucket(r.client, r.stamp), r.stamp)
            /\ spent' = [spent EXCEPT ![r.client] = @ + Period]
            /\ lenient' = [lenient EXCEPT ![r.client] = @ + Period - MaxSkew]
         \/ ~Allowed(Bucket(r.client, r.stamp), r.stamp) /\ UNCHANGED ledgers
      /\ handling' = [handling EXCEPT ![h] = Idle]
      /\ UNCHANGED <<config, now, sweep>>
  BY <1>2 DEF Decide, Allow
<1>5. PICK c \in Clients, s \in 0..now : c = r.client /\ s = r.stamp
  BY <1>2
<1>6. /\ handling[h].client = c /\ handling[h].stamp = s
      /\ now <= s + MaxSkew /\ Bucket(c, s) \in Buckets
      /\ keys' = With(keys, c, Charge(Bucket(c, s), s))
      /\ \/ /\ Allowed(Bucket(c, s), s)
            /\ spent' = [spent EXCEPT ![c] = @ + Period]
            /\ lenient' = [lenient EXCEPT ![c] = @ + Period - MaxSkew]
         \/ ~Allowed(Bucket(c, s), s) /\ UNCHANGED ledgers
      /\ handling' = [handling EXCEPT ![h] = Idle]
      /\ UNCHANGED <<config, now, sweep>>
  BY <1>2, <1>3, <1>4, <1>5
<1> QED BY <1>6

\* The bucket a request meets holds what the ledgers leave, one that has just
\* been made too.
LEMMA MetBucket ==
  ASSUME TypeOK, LedgerInv, NEW c \in Clients, NEW s \in 0..now,
         now <= s + MaxSkew, NEW b, b = Bucket(c, s)
  PROVE  /\ b.last <= now
         /\ lenient[c] > 0 => lenient[c] + (b.credit + (now - b.last)) <= Full
         /\ spent[c] + (b.credit + (now - b.last)) >= Full
<1>1. CASE c \in DOMAIN keys
  <2>1. b = keys[c] /\ b \in Buckets
    BY <1>1 DEF Bucket, TypeOK
  <2> QED BY <1>1, <2>1, FullBounds
          DEF LedgerInv, StampsOK, AtMost, AtLeast, Held, TypeOK, Buckets
<1>2. CASE c \notin DOMAIN keys
  <2>1. b.last = s /\ b.credit = Full /\ ~(lenient[c] > 0)
    BY <1>2 DEF Bucket, NewLimiter, LedgerInv, AtMost
  <2> QED BY <2>1, FullBounds DEF TypeOK
<1> QED BY <1>1, <1>2

\* An admission moves credit to the ledgers; the refusal of a request moves
\* nothing, and means that the client has no room.
LEMMA DecideLedger ==
  ASSUME TypeOK, KeyIsClient, LedgerInv, NEW h \in Handlers, Decide(h)
  PROVE  LedgerInv'
<1>1. PICK c \in Clients, s \in 0..now :
           /\ now <= s + MaxSkew
           /\ Bucket(c, s) \in Buckets
           /\ keys' = With(keys, c, Charge(Bucket(c, s), s))
           /\ \/ /\ Allowed(Bucket(c, s), s)
                 /\ spent' = [spent EXCEPT ![c] = @ + Period]
                 /\ lenient' = [lenient EXCEPT ![c] = @ + Period - MaxSkew]
              \/ ~Allowed(Bucket(c, s), s) /\ UNCHANGED ledgers
           /\ handling' = [handling EXCEPT ![h] = Idle]
           /\ UNCHANGED <<config, now, sweep>>
  BY DecideFacts DEF LedgerInv
<1>2. PICK b : b = Bucket(c, s)
  OBVIOUS
<1>3. /\ b.last \in Nat /\ b.credit \in 0..Full /\ b.last <= now /\ now \in Nat
      /\ b.lastSeen \in Nat
      /\ lenient[c] > 0 => lenient[c] + (b.credit + (now - b.last)) <= Full
      /\ spent[c] + (b.credit + (now - b.last)) >= Full
  <2>1. b \in Buckets /\ now \in Nat
    BY <1>1, <1>2, AdmissionBoundsAssumption DEF TypeOK
  <2>2. b.last \in Nat /\ b.credit \in 0..Full /\ b.lastSeen \in Nat
    BY <2>1, AdmissionBoundsAssumption DEF Buckets
  <2>3. /\ b.last <= now
        /\ lenient[c] > 0 => lenient[c] + (b.credit + (now - b.last)) <= Full
        /\ spent[c] + (b.credit + (now - b.last)) >= Full
    BY <1>1, <1>2, MetBucket
  <2> QED BY <2>1, <2>2, <2>3
<1>4. /\ DOMAIN keys' = DOMAIN keys \cup {c} /\ keys'[c] = Charge(b, s)
      /\ \A k \in DOMAIN keys \ {c} : keys'[k] = keys[k]
  BY <1>1, <1>2 DEF With
<1>5. \A d \in Clients \ {c} : spent'[d] = spent[d] /\ lenient'[d] = lenient[d]
  BY <1>1 DEF ledgers, TypeOK
<1> DEFINE x == keys'[c]
<1>6. /\ x.last \in Nat /\ x.credit \in Nat /\ x.last <= now
      /\ x.last <= x.lastSeen + MaxSkew
      /\ lenient'[c] > 0 => lenient'[c] + (x.credit + (now - x.last)) <= Full
      /\ spent'[c] + (x.credit + (now - x.last)) >= Full
  <2>1. lenient[c] \in Nat /\ spent[c] \in Nat
    BY DEF TypeOK
  <2>2. /\ Credit(b, s) \in 0..Full /\ b.credit <= Credit(b, s)
        /\ s < b.last => Credit(b, s) = b.credit
        /\ s >= b.last => \/ Credit(b, s) = b.credit + (s - b.last)
                          \/ Credit(b, s) = Full /\ Full <= b.credit + (s - b.last)
    BY <1>3, CreditBounds
  <2>3. CASE Allowed(b, s)
    <3>1. x.last = s /\ x.lastSeen = s /\ x.credit = Credit(b, s) - Period
      BY <1>4, <2>3 DEF Charge
    <3>2. spent'[c] = spent[c] + Period /\ lenient'[c] = lenient[c] + Period - MaxSkew
      BY <1>1, <1>2, <2>3 DEF TypeOK
    <3>3. Credit(b, s) >= Period
      BY <2>3 DEF Allowed
    <3> HIDE DEF x
    <3> QED BY <1>1, <1>3, <2>1, <2>2, <3>1, <3>2, <3>3, FullBounds,
               LimiterAssumption
  <2>4. CASE ~Allowed(b, s)
    <3>1. x.last = b.last /\ x.lastSeen = s /\ x.credit = b.credit
      BY <1>1, <1>2, <1>4, <2>4 DEF Charge, Buckets
    <3>2. spent'[c] = spent[c] /\ lenient'[c] = lenient[c]
      BY <1>1, <1>2, <2>4 DEF ledgers
    <3> HIDE DEF x
    <3> QED BY <1>1, <1>3, <2>1, <3>1, <3>2, FullBounds, LimiterAssumption
  <2> QED BY <2>3, <2>4
<1>7. Fresh'
  BY <1>1 DEF LedgerInv, Fresh, TypeOK
<1>8. StampsOK'
  BY <1>1, <1>4, <1>6 DEF LedgerInv, StampsOK
<1>9. AtMost'
  BY <1>1, <1>4, <1>5, <1>6 DEF LedgerInv, AtMost, Held
<1>10. AtLeast'
  BY <1>1, <1>4, <1>5, <1>6 DEF LedgerInv, AtLeast, Held
<1> QED BY <1>7, <1>8, <1>9, <1>10 DEF LedgerInv

\* A key the sweep forgets has been idle for so long that its client has
\* drained its ledger.
LEMMA CleanupLedger ==
  ASSUME TypeOK, LedgerInv, Cleanup
  PROVE  LedgerInv'
<1>1. /\ sweep.stamp \in 0..now /\ now \in Nat
      /\ keys' = [k \in {x \in DOMAIN keys : ~Stale(keys[x], sweep.stamp)} |-> keys[k]]
      /\ UNCHANGED <<config, now, handling, ledgers>>
  <2>1. sweep # Idle
    BY DEF Cleanup
  <2>2. sweep \in [busy : {TRUE}, stamp : 0..now]
    BY <2>1, Zenon DEF TypeOK
  <2>3. sweep.stamp \in 0..now
    BY <2>2
  <2>4. now \in Nat
    BY AdmissionBoundsAssumption DEF TypeOK
  <2> QED BY <2>3, <2>4 DEF Cleanup
<1>2. \A k \in DOMAIN keys' : k \in DOMAIN keys /\ keys'[k] = keys[k]
  BY <1>1
<1>3. Fresh' /\ StampsOK' /\ AtLeast'
  BY <1>1, <1>2 DEF LedgerInv, Fresh, StampsOK, AtLeast, Held, ledgers
<1>4. ASSUME NEW c \in Clients, lenient[c] > 0
      PROVE  c \in DOMAIN keys'
  <2>1. c \in DOMAIN keys /\ lenient[c] + Held(c) <= Full
    BY <1>4 DEF LedgerInv, AtMost
  <2>2. /\ keys[c].last \in Nat /\ keys[c].lastSeen \in Nat /\ keys[c].credit \in Nat
        /\ keys[c].last <= keys[c].lastSeen + MaxSkew
    BY <2>1, FullBounds DEF LedgerInv, StampsOK, TypeOK, Buckets
  <2>3. ~Stale(keys[c], sweep.stamp)
    BY <1>1, <1>4, <2>1, <2>2, FullBounds, LimiterAssumption
       DEF Stale, Held, TypeOK
  <2> QED BY <1>1, <2>1, <2>3
<1>5. AtMost'
  BY <1>1, <1>2, <1>4 DEF LedgerInv, AtMost, Held, ledgers
<1> QED BY <1>3, <1>5 DEF LedgerInv

\* The clock drains the ledgers as fast as it fills the buckets.
LEMMA TickLedger ==
  ASSUME TypeOK, LedgerInv, Tick
  PROVE  LedgerInv'
<1>1. now \in Nat /\ now' = now + 1 /\ UNCHANGED <<keys, handling>>
  BY AdmissionBoundsAssumption DEF Tick, TypeOK
<1>2. Fresh'
  <2>1. \A h \in Handlers : handling[h] # Idle =>
          handling[h].stamp \in Nat /\ now < handling[h].stamp + MaxSkew
    <3>1. \A h \in Handlers : handling[h] # Idle => handling[h] \in Requests(now)
      BY DEF TypeOK
    <3>2. \A r \in Requests(now) : r.stamp \in Nat
      BY <1>1 DEF Requests
    <3>3. \A h \in Handlers : handling[h] # Idle => now < handling[h].stamp + MaxSkew
      BY DEF Tick
    <3> QED BY <3>1, <3>2, <3>3
  <2> QED BY <1>1, <2>1, LimiterAssumption DEF Fresh
<1>3. \A k \in DOMAIN keys : keys[k].last \in Nat /\ keys[k].credit \in Nat
  BY FullBounds DEF TypeOK, Buckets
<1>4. StampsOK'
  BY <1>1, <1>3 DEF LedgerInv, StampsOK
<1>5. \A c \in Clients :
        /\ lenient[c] \in Nat /\ spent[c] \in Nat
        /\ lenient'[c] = Drain(lenient[c]) /\ spent'[c] = Drain(spent[c])
  BY DEF Tick, TypeOK
<1>6. AtMost'
  BY <1>1, <1>3, <1>5, FullBounds DEF LedgerInv, AtMost, Held, Drain
<1>7. AtLeast'
  BY <1>1, <1>3, <1>5, FullBounds DEF LedgerInv, AtLeast, Held, Drain
<1> QED BY <1>2, <1>4, <1>6, <1>7 DEF LedgerInv

\* The steps above, and those that touch neither buckets nor ledgers.
LEMMA NextLedger ==
  ASSUME TypeOK, KeyIsClient, LedgerInv, [Next]_vars
  PROVE  LedgerInv'
<1>1. ASSUME NEW h \in Handlers, Arrive(h) PROVE LedgerInv'
  <2>1. UNCHANGED <<now, keys, ledgers>>
    BY <1>1 DEF Arrive
  <2>2. Fresh'
    <3>1. PICK c, k : handling' = [handling EXCEPT ![h] =
                        [busy |-> TRUE, client |-> c, key |-> k, stamp |-> now]]
      BY <1>1 DEF Arrive
    <3>2. now \in Nat /\ now <= now + MaxSkew
      BY LimiterAssumption, AdmissionBoundsAssumption DEF TypeOK
    <3> QED BY <2>1, <3>1, <3>2 DEF LedgerInv, Fresh, TypeOK
  <2> QED BY <2>1, <2>2 DEF LedgerInv, StampsOK, AtMost, AtLeast, Held, ledgers
<1>2. CASE StartCleanup \/ UNCHANGED vars
  BY <1>2 DEF StartCleanup, vars, LedgerInv, Fresh, StampsOK, AtMost, AtLeast,
              Held, ledgers
<1> QED BY <1>1, <1>2, DecideLedger, CleanupLedger, TickLedger DEF Next

\* The invariant of the ledgers.
LEMMA LedgerInvHolds == Spec => []LedgerInv
<1>1. Init => LedgerInv
  BY DEF Init, LedgerInv, Fresh, StampsOK, AtMost, AtLeast
<1> QED BY <1>1, NextLedger, TypeCorrect, KeyIsClientAlways, PTL DEF Spec

\* No client is admitted beyond its burst and its rate, up to the skew of each
\* stamp, whatever the order in which stamps are applied and whichever keys
\* the sweep forgets.
THEOREM RateBoundAlways == Spec => []RateBound
<1>1. TypeOK /\ LedgerInv => RateBound
  <2> SUFFICES ASSUME TypeOK, LedgerInv, NEW c \in Clients, lenient[c] > 0
               PROVE  lenient[c] <= Full
    <3>1. TypeOK => \A c \in Clients : lenient[c] \in Nat
      BY DEF TypeOK
    <3>2. \A n \in Nat : n > 0 \/ n <= Full
      BY FullBounds
    <3> QED BY <3>1, <3>2 DEF RateBound
  <2>1. c \in DOMAIN keys /\ lenient[c] + Held(c) <= Full
    BY DEF LedgerInv, AtMost
  <2>2. /\ now \in Nat /\ keys[c].last \in Nat /\ keys[c].credit \in Nat
        /\ keys[c].last <= now /\ lenient[c] \in Nat
    BY <2>1, FullBounds, AdmissionBoundsAssumption
       DEF TypeOK, Buckets, LedgerInv, StampsOK
  <2> QED BY <2>1, <2>2, FullBounds DEF Held
<1> QED BY <1>1, TypeCorrect, LedgerInvHolds, PTL

\* A client is refused only when its own admissions leave no room for another.
THEOREM RefusedOnlyOverRateAlways == Spec => RefusedOnlyOverRate
<1> DEFINE Over == \A h \in Handlers : Refused(h) =>
                     spent[handling[h].client] + Period + (now - handling[h].stamp) > Full
<1>1. TypeOK /\ KeyIsClient /\ LedgerInv /\ [Next]_vars => Over
  <2> SUFFICES ASSUME TypeOK, KeyIsClient, LedgerInv, [Next]_vars,
                      NEW h \in Handlers, Refused(h)
               PROVE  spent[handling[h].client] + Period + (now - handling[h].stamp) > Full
    OBVIOUS
  <2>1. Decide(h)
    <3>1. handling[h] # Idle /\ handling'[h] = Idle
      BY DEF Refused
    <3>2. PICK g \in Handlers : Arrive(g) \/ Decide(g)
      BY <3>1 DEF Next, StartCleanup, Cleanup, Tick, vars
    <3>3. ~Arrive(g)
      BY <3>1 DEF Arrive, TypeOK
    <3>4. g = h
      BY <3>1, <3>2, <3>3 DEF Decide, TypeOK
    <3> QED BY <3>2, <3>3, <3>4
  <2>2. PICK c \in Clients, s \in 0..now :
           /\ handling[h].client = c /\ handling[h].stamp = s
           /\ now <= s + MaxSkew
           /\ Bucket(c, s) \in Buckets
           /\ \/ spent' = [spent EXCEPT ![c] = @ + Period]
              \/ ~Allowed(Bucket(c, s), s)
    BY <2>1, DecideFacts DEF LedgerInv
  <2>3. PICK b : b = Bucket(c, s)
    OBVIOUS
  <2>4. ~Allowed(b, s)
    <3>1. spent' = spent /\ spent[c] \in Nat /\ spent \in [Clients -> Nat]
      BY DEF Refused, TypeOK
    <3>2. spent[c] + Period # spent[c]
      BY <3>1, LimiterAssumption
    <3> QED BY <2>2, <2>3, <3>1, <3>2
  <2>5. /\ b.last \in Nat /\ b.credit \in 0..Full /\ b.last <= now /\ now \in Nat
        /\ spent[c] + (b.credit + (now - b.last)) >= Full
    <3>1. b \in Buckets /\ now \in Nat
      BY <2>2, <2>3, AdmissionBoundsAssumption DEF TypeOK
    <3>2. b.last \in Nat /\ b.credit \in 0..Full
      BY <3>1, AdmissionBoundsAssumption DEF Buckets
    <3>3. b.last <= now /\ spent[c] + (b.credit + (now - b.last)) >= Full
      BY <2>2, <2>3, MetBucket
    <3> QED BY <3>1, <3>2, <3>3
  <2>6. /\ s < b.last => Credit(b, s) = b.credit
        /\ s >= b.last => \/ Credit(b, s) = b.credit + (s - b.last)
                          \/ Credit(b, s) = Full
    BY <2>5, CreditBounds
  <2>7. ~(Credit(b, s) >= Period)
    BY <2>4 DEF Allowed
  <2>8. spent[c] \in Nat
    BY DEF TypeOK
  <2> QED BY <2>2, <2>5, <2>6, <2>7, <2>8, FullBounds, LimiterAssumption
<1> QED BY <1>1, TypeCorrect, KeyIsClientAlways, LedgerInvHolds, PTL
        DEF Spec, RefusedOnlyOverRate

=============================================================================

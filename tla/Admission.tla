----------------------------- MODULE Admission ------------------------------
(***************************************************************************)
(* Who gets to open a socket at the broker: the front of handleWebSocket,  *)
(* keyedLimiter (internal/rendezvous/ratelimit.go) and the sweep that      *)
(* evictStale makes of it.                                                 *)
(*                                                                         *)
(* Time is counted in ticks.  A token takes Period ticks; a bucket holds   *)
(* its tokens as ticks of credit, at most Full.  handleWebSocket and the   *)
(* janitor read the clock before they have the limiter's lock, so what     *)
(* they apply may be up to MaxSkew ticks old and applied out of order.     *)
(* golang.org/x/time/rate is modelled by AllowN: no credit for a stamp     *)
(* before the last one, the last one set back by an older admission, and   *)
(* nothing recorded for a refusal.  What a client has really used is kept  *)
(* in two ledgers that the limiter does not see.                           *)
(***************************************************************************)
EXTENDS ClientIP

CONSTANTS
  Handlers,   \* requests handled at one time
  Period, Burst,
  MaxSkew,    \* how old a stamp may be when it is applied
  IdleTTL,    \* limiterIdleTTL
  MaxTime,    \* bound: the clock
  MaxClaimed, \* bound: entries a request has before the first proxy
  Configs     \* the broker's options trusted and header, and the proxies in
              \* front of it: hops, how many a request passes at most

Full == Burst * Period

\* an idle bucket is full before it is forgotten
ASSUME LimiterAssumption ==
  /\ Period \in Nat \ {0} /\ Burst \in Nat \ {0}
  /\ MaxSkew \in 0..Period /\ IdleTTL \in Nat /\ IdleTTL >= Full + MaxSkew
ASSUME AdmissionBoundsAssumption == MaxTime \in Nat /\ MaxClaimed \in Nat
\* clients are not trusted; a broker that trusts proxies has a header, since
\* New sets the default one; X-Real-IP is for a single proxy, because the last
\* of several overwrites it with the address of the one before
ASSUME ConfigsAssumption ==
  \A cfg \in Configs : /\ cfg.trusted \subseteq Proxies
                       /\ cfg.trusted # {} => cfg.header \in {XFF, Real, Edge}
                       /\ cfg.hops \in Nat
                       /\ cfg.header = Real => cfg.hops <= 1

VARIABLES
  config,     \* trustedProxies and trustedProxyHeader
  now,
  keys,       \* keyedLimiter.keys: the buckets of the keys in its domain
  handling,   \* what a handler has: client, key, stamp; or Idle
  sweep,      \* the clock as the janitor read it for Cleanup; or Idle
  spent,      \* per client: Period for each admission, drained by the clock
  lenient     \* the same at Period - MaxSkew for each admission

ledgers == <<spent, lenient>>
vars == <<config, now, keys, handling, sweep, ledgers>>

Idle == [busy |-> FALSE]

Buckets == [last : 0..MaxTime, credit : 0..Full, lastSeen : 0..MaxTime]

Requests(t) ==
  [busy : {TRUE}, client : Clients, key : Addresses, stamp : 0..t]

TypeOK ==
  /\ config \in Configs /\ now \in 0..MaxTime
  /\ DOMAIN keys \subseteq Addresses
  /\ \A k \in DOMAIN keys : keys[k] \in Buckets
  /\ handling \in [Handlers -> {Idle} \cup Requests(now)]
  /\ sweep = Idle \/ sweep \in [busy : {TRUE}, stamp : 0..now]
  /\ spent \in [Clients -> Nat] /\ lenient \in [Clients -> Nat]

Init ==
  /\ config \in Configs /\ now = 0
  /\ keys = [k \in {} |-> Idle]
  /\ handling = [h \in Handlers |-> Idle]
  /\ sweep = Idle
  /\ spent = [c \in Clients |-> 0] /\ lenient = [c \in Clients |-> 0]

-----------------------------------------------------------------------------
(* The limiter. *)

NewLimiter(s) == [last |-> s, credit |-> Full, lastSeen |-> s]

Lesser(a, b) == IF a < b THEN a ELSE b

\* faulty variant: credit grows without limit
CreditUncapped(b, s) == b.credit + (IF s < b.last THEN 0 ELSE s - b.last)

\* rate.Limiter.advance
Credit(b, s) == Lesser(Full, b.credit + (IF s < b.last THEN 0 ELSE s - b.last))

Allowed(b, s) == Credit(b, s) >= Period

\* faulty variant: a refusal uses up what there is
ChargeAlways(b, s) ==
  [last |-> s, credit |-> IF Allowed(b, s) THEN Credit(b, s) - Period ELSE 0,
   lastSeen |-> s]

\* rate.Limiter.AllowN
Charge(b, s) ==
  IF Allowed(b, s)
  THEN [last |-> s, credit |-> Credit(b, s) - Period, lastSeen |-> s]
  ELSE [b EXCEPT !.lastSeen = s]

Bucket(k, s) == IF k \in DOMAIN keys THEN keys[k] ELSE NewLimiter(s)

With(f, k, v) == [x \in DOMAIN f \cup {k} |-> IF x = k THEN v ELSE f[x]]

\* keyedLimiter.Allow
Allow(k, s) == keys' = With(keys, k, Charge(Bucket(k, s), s))

-----------------------------------------------------------------------------

\* the broker trusts the proxies of a path; with CF-Connecting-IP it need only
\* trust the last one, which passes on what the edge has set
Known(path, trusted, header) ==
  \A i \in DOMAIN path : i = Len(path) \/ header # Edge => path[i] \in trusted

\* the ways to the broker, the one through no proxy included
Paths(cfg) ==
  {path \in UNION {[1..n -> Proxies] : n \in 0..cfg.hops} :
     Known(path, cfg.trusted, cfg.header)}

Claims == UNION {[1..n -> Entries] : n \in 0..MaxClaimed}

\* the addresses clientIP may find for the requests of a client
KeysOf ==
  [cfg \in Configs |-> [c \in Clients |->
    {clientIP(Request(c, claimed, single, path), cfg.trusted, cfg.header) :
       claimed \in Claims, single \in Entries, path \in Paths(cfg)}]]

\* handleWebSocket finds the client's address and reads the clock
Arrive(h) ==
  /\ handling[h] = Idle
  /\ \E c \in Clients : \E k \in KeysOf[config][c] :
       handling' = [handling EXCEPT ![h] =
         [busy |-> TRUE, client |-> c, key |-> k, stamp |-> now]]
  /\ UNCHANGED <<config, now, keys, sweep, ledgers>>

\* it asks the limiter, and answers 429 or goes on to the upgrade
Decide(h) ==
  /\ handling[h] # Idle
  /\ LET r == handling[h] IN
       /\ Allow(r.key, r.stamp)
       /\ IF Allowed(Bucket(r.key, r.stamp), r.stamp)
          THEN /\ spent' = [spent EXCEPT ![r.client] = @ + Period]
               /\ lenient' = [lenient EXCEPT ![r.client] = @ + Period - MaxSkew]
          ELSE UNCHANGED ledgers
  /\ handling' = [handling EXCEPT ![h] = Idle]
  /\ UNCHANGED <<config, now, sweep>>

\* evictStale computes the cutoff
StartCleanup ==
  /\ sweep = Idle /\ sweep' = [busy |-> TRUE, stamp |-> now]
  /\ UNCHANGED <<config, now, keys, handling, ledgers>>

\* faulty variant: the sweep compares with the clock, not with the cutoff
StaleEarly(b, s) == b.lastSeen < s

\* the key has not been seen since the cutoff
Stale(b, s) == b.lastSeen + IdleTTL < s

\* keyedLimiter.Cleanup
Cleanup ==
  /\ sweep # Idle /\ sweep' = Idle
  /\ keys' = [k \in {x \in DOMAIN keys : ~Stale(keys[x], sweep.stamp)} |-> keys[k]]
  /\ UNCHANGED <<config, now, handling, ledgers>>

Drain(x) == IF x = 0 THEN 0 ELSE x - 1

\* time passes; whoever has read the clock gets the lock within MaxSkew
Tick ==
  /\ now < MaxTime /\ now' = now + 1
  /\ \A h \in Handlers : handling[h] # Idle => now < handling[h].stamp + MaxSkew
  /\ sweep # Idle => now < sweep.stamp + MaxSkew
  /\ spent' = [c \in Clients |-> Drain(spent[c])]
  /\ lenient' = [c \in Clients |-> Drain(lenient[c])]
  /\ UNCHANGED <<config, keys, handling, sweep>>

Next ==
  \/ \E h \in Handlers : Arrive(h) \/ Decide(h)
  \/ StartCleanup \/ Cleanup \/ Tick

Spec == Init /\ [][Next]_vars

-----------------------------------------------------------------------------

(***************************************************************************)
(* A request counts for the client that sent it, whatever its headers hold *)
(* when it leaves the client, and through every proxy set-up that          *)
(* docs/reverse-proxy.md describes: none, a chain of trusted proxies with  *)
(* X-Forwarded-For, one with X-Real-IP, or an edge network in front of a   *)
(* trusted one with CF-Connecting-IP.                                      *)
(***************************************************************************)
KeyIsClient ==
  \A h \in Handlers : handling[h] # Idle => handling[h].key = handling[h].client

(***************************************************************************)
(* No client gets more than its burst and its rate, over any stretch of    *)
(* time: a ledger that never forgets, is charged at the true time of every *)
(* admission and drained by the true clock, stays within the burst, up to  *)
(* the skew of each stamp.  Forgetting an idle key gives nothing back, and *)
(* handlers that apply their stamps in the wrong order gain no more than   *)
(* the skew.                                                               *)
(***************************************************************************)
RateBound == \A c \in Clients : lenient[c] <= Full

Refused(h) ==
  handling[h] # Idle /\ handling'[h] = Idle /\ UNCHANGED spent

(***************************************************************************)
(* A client is refused only when it has used its own burst and rate: the   *)
(* ledger of its own admissions has no room for another one.  Requests of  *)
(* other clients, its own refused ones and the sweep cost it nothing.      *)
(***************************************************************************)
RefusedOnlyOverRate ==
  [][\A h \in Handlers : Refused(h) =>
       spent[handling[h].client] + Period + (now - handling[h].stamp) > Full]_vars

=============================================================================

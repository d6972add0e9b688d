------------------------------ MODULE ClientIP ------------------------------
(***************************************************************************)
(* The address the broker takes for a request's client: clientIP and       *)
(* isTrusted of internal/rendezvous/proxy.go, remoteIP of broker.go.  A    *)
(* request is the address of the socket, the entries of X-Forwarded-For    *)
(* from left to right and the values of X-Real-IP and CF-Connecting-IP; an *)
(* entry that is not an address is one net.ParseIP refuses, the empty one  *)
(* too.                                                                    *)
(***************************************************************************)
EXTENDS Naturals, Sequences

CONSTANTS
  Clients,    \* addresses clients have
  Proxies,    \* addresses of proxies, the ones a broker may trust
  Junk        \* entries that are not an address

Addresses == Clients \cup Proxies
Entries   == Addresses \cup Junk

XFF  == "X-Forwarded-For"
Real == "X-Real-IP"
Edge == "CF-Connecting-IP"
Off  == ""

ASSUME AddressAssumption == Clients \cap Proxies = {} /\ Junk \cap Addresses = {}

isTrusted(ip, trusted) == ip \in trusted

\* the rightmost address of the list that is no proxy
Untrusted(parts, trusted) ==
  {i \in DOMAIN parts : parts[i] \in Addresses /\ ~isTrusted(parts[i], trusted)}

Rightmost(parts, trusted, direct) ==
  LET good == Untrusted(parts, trusted)
  IN  IF good = {} THEN direct
      ELSE parts[CHOOSE i \in good : \A j \in good : j <= i]

\* the header a broker without list walking reads
Single(r, header) == IF header = Real THEN r.real ELSE r.edge

\* faulty variant: the headers of every peer are believed
clientIPAlways(r, trusted, header) ==
  IF header = Off THEN r.remote
  ELSE IF header = XFF THEN Rightmost(r.xff, trusted, r.remote)
  ELSE IF Single(r, header) \in Addresses THEN Single(r, header)
  ELSE r.remote

clientIP(r, trusted, header) ==
  IF trusted = {} \/ header = Off \/ ~isTrusted(r.remote, trusted)
    THEN r.remote
  ELSE IF header = XFF
    THEN Rightmost(r.xff, trusted, r.remote)
  ELSE IF Single(r, header) \in Addresses THEN Single(r, header)
  ELSE r.remote

(***************************************************************************)
(* How a request gets its headers, as docs/reverse-proxy.md sets proxies   *)
(* up: it leaves the client with whatever they hold already; each proxy on *)
(* the way appends the address it sees to X-Forwarded-For and overwrites   *)
(* X-Real-IP with it, and the first one, the network's edge, sets          *)
(* CF-Connecting-IP, which the others pass on.  The address a proxy sees   *)
(* is that of what is behind it: the client's, or the proxy's before it.   *)
(***************************************************************************)
Seen(client, path, i) == IF i = 1 THEN client ELSE path[i - 1]

Request(client, claimed, single, path) ==
  [remote |-> IF path = <<>> THEN client ELSE path[Len(path)],
   xff    |-> claimed \o [i \in DOMAIN path |-> Seen(client, path, i)],
   real   |-> IF path = <<>> THEN single ELSE Seen(client, path, Len(path)),
   edge   |-> IF path = <<>> THEN single ELSE client]

=============================================================================

--------------------------- MODULE ForwardedSource ---------------------------
(***************************************************************************)
(* Which address a connection is charged to: Admission::source and the     *)
(* address conversions of connection_guard.rs.                             *)
(*                                                                         *)
(* An IPv6 address is a network (its upper 64 bits) and a host in it; an   *)
(* IPv4 address is both parts together, and may also appear as an IPv4-    *)
(* mapped IPv6 address.  An error is None: its wording only goes into the  *)
(* body of the 429.                                                        *)
(***************************************************************************)
EXTENDS Naturals, Sequences

CONSTANTS
  Addresses,       \* addresses of peers and in headers
  TrustedProxies,  \* TRUSTED_PROXIES, in canonical form
  ChainLimit,      \* longest X-Forwarded-For chain, 16 in the code
  Bad,             \* text that does not parse as an address
  None

Address == [family: {"v4", "v6", "mapped"}, net: Nat, host: Nat]

canonical(ip) == IF ip.family = "mapped" THEN [ip EXCEPT !.family = "v4"] ELSE ip

\* All addresses of one IPv6 /64 are one source.
quota_source(ip) ==
  LET address == canonical(ip)
  IN IF address.family = "v6" THEN [address EXCEPT !.host = 0] ELSE address

ASSUME AddressesAssumption ==
  /\ Addresses \subseteq Address
  /\ TrustedProxies \subseteq {canonical(ip) : ip \in Addresses}
  /\ ChainLimit \in Nat
  /\ Bad \notin Addresses
  /\ None \notin Address

IsTrusted(ip) == canonical(ip) \in TrustedProxies

\* The headers of a request: the values of each header with that name.  The
\* value of X-Forwarded-For is the chain it lists; one that is unreadable or
\* longer than 1024 characters is <<Bad>>, which has the same outcome.
Headers == [xff: Seq(Seq(Addresses \cup {Bad})), real: Seq(Addresses \cup {Bad})]

-----------------------------------------------------------------------------
\* MUTANT of NearestClient: the client of the chain is its first entry.
FirstEntry(chain) ==
  LET strangers == {i \in DOMAIN chain : ~IsTrusted(chain[i])}
  IN IF strangers = {} THEN None
     ELSE canonical(chain[CHOOSE i \in strangers : \A j \in strangers : i <= j])

\* The walk from the nearest proxy: the last entry that is not a trusted proxy.
NearestClient(chain) ==
  LET strangers == {i \in DOMAIN chain : ~IsTrusted(chain[i])}
  IN IF strangers = {} THEN None
     ELSE canonical(chain[CHOOSE i \in strangers : \A j \in strangers : j <= i])

\* X-Real-IP beside a chain must be a proxy or the client of the chain.
RealAgrees(real, client) ==
  \/ real = <<>>
  \/ /\ Len(real) = 1
     /\ real[1] # Bad
     /\ IsTrusted(real[1]) \/ canonical(real[1]) = client

FromChain(headers) ==
  IF /\ Len(headers.xff) = 1
     /\ \A i \in DOMAIN headers.xff[1] : headers.xff[1][i] # Bad
     /\ Len(headers.xff[1]) <= ChainLimit
     /\ NearestClient(headers.xff[1]) # None
     /\ RealAgrees(headers.real, NearestClient(headers.xff[1]))
  THEN NearestClient(headers.xff[1])
  ELSE None

FromReal(headers) ==
  IF Len(headers.real) = 1 /\ headers.real[1] # Bad /\ ~IsTrusted(headers.real[1])
  THEN canonical(headers.real[1])
  ELSE None

\* Admission::source: the address, or None for a refusal.
Source(peer, headers) ==
  IF ~IsTrusted(peer) THEN canonical(peer)
  ELSE IF headers.xff # <<>> THEN FromChain(headers)
  ELSE FromReal(headers)
=============================================================================

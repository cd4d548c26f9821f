------------------------------ MODULE Admission ------------------------------
(***************************************************************************)
(* Connection admission: the accept loop of main.rs, the handshake of      *)
(* connection.rs and the two pools of connection_guard.rs.                 *)
(*                                                                         *)
(* A connection takes a lease on the pending pool when it is accepted.     *)
(* The callback of the handshake finds out who the client is, moves the    *)
(* pending lease to that source and takes a lease on the active pool.      *)
(* Each of these is one critical section of a pool's mutex; the handshake  *)
(* may time out or fail around them.  A lease gives its place back when it *)
(* is dropped.                                                             *)
(***************************************************************************)
EXTENDS ForwardedSource, FiniteSets

CONSTANTS
  Conns,              \* slots for TCP connections, used again after a close
  Clients,            \* addresses of clients
  Routes,             \* ways from a client to the server: [hops, style]
  Claims,             \* headers clients put into their requests
  MaxConnectionsEnv,  \* MAX_CONNECTIONS as text: a number, or None (unset, malformed)
  PerSourceEnv        \* MAX_CONNECTIONS_PER_SOURCE, likewise

RouteStyles == {"append", "both", "real"}

ASSUME AdmissionAssumption ==
  /\ IsFiniteSet(Conns)
  /\ Clients \subseteq {ip \in Addresses : ~IsTrusted(ip)}
  /\ Routes \subseteq [hops: Seq({ip \in Addresses : IsTrusted(ip)}), style: RouteStyles]
  /\ Claims \subseteq Headers
  /\ MaxConnectionsEnv \in Nat \cup {None}
  /\ PerSourceEnv \in Nat \cup {None}
  /\ None \notin Nat

\* A proxy that only sets X-Real-IP is alone on the way: behind another proxy it
\* would name that one, and any X-Forwarded-For would agree with it.
ASSUME RealAssumption == \A r \in Routes : r.style = "real" => Len(r.hops) <= 1

-----------------------------------------------------------------------------
\* Configuration.

positive_limit_from_env(value) == IF value \in Nat \ {0} THEN value ELSE None

DefaultMaxConnections == 4096

MaxConnections ==
  IF positive_limit_from_env(MaxConnectionsEnv) = None THEN DefaultMaxConnections
  ELSE MaxConnectionsEnv

PerSource == positive_limit_from_env(PerSourceEnv)

DefaultPendingSourceLimit == 16

AtMost(n, bound) == IF n < bound THEN n ELSE bound
AtLeast(n, bound) == IF n > bound THEN n ELSE bound

PendingLimit == AtMost(AtLeast(MaxConnections, 1), 128)

PendingSourceLimit ==
  AtMost(IF PerSource = None THEN DefaultPendingSourceLimit ELSE AtLeast(PerSource, 1),
         DefaultPendingSourceLimit)

ActiveLimit == AtLeast(MaxConnections, 1)

\* A source never gets the whole active pool, unless the pool is one place.
ActiveSourceLimit ==
  IF PerSource = None THEN None
  ELSE AtMost(AtLeast(PerSource, 1), AtLeast(MaxConnections - 1, 1))

-----------------------------------------------------------------------------
\* Pools.  The counts per source are a table without entries of zero.

QuotaSources == {quota_source(ip) : ip \in Addresses}

Lease == [source: QuotaSources \cup {None}]

\* An absent lease is not a lease.
ASSUME LeaseAssumption == None \notin Lease

Count(counts, s) == IF s \in DOMAIN counts THEN counts[s] ELSE 0

Increment(counts, s) ==
  [x \in DOMAIN counts \cup {s} |->
     IF x = s THEN Count(counts, s) + 1 ELSE counts[x]]

Decrement(counts, s) ==
  [x \in {y \in DOMAIN counts : y # s \/ counts[y] # 1} |->
     IF x = s THEN counts[x] - 1 ELSE counts[x]]

EmptyPool == [total |-> 0, counts |-> [s \in {} |-> 0]]

\* Pool::acquire, which counts the source only where there is a source limit.
CountedSource(source, source_limit) == IF source_limit = None THEN None ELSE source

CanAcquire(pool, limit, source_limit, source) ==
  /\ pool.total < limit
  /\ CountedSource(source, source_limit) # None =>
       Count(pool.counts, source) < source_limit

Acquired(pool, counted) ==
  [total |-> pool.total + 1,
   counts |-> IF counted = None THEN pool.counts ELSE Increment(pool.counts, counted)]

\* MUTANT of Released: the source keeps its count.
ReleasedInTotal(pool, lease) == [pool EXCEPT !.total = @ - 1]

\* Drop for Lease.
Released(pool, lease) ==
  [total |-> pool.total - 1,
   counts |-> IF lease.source \in DOMAIN pool.counts
              THEN Decrement(pool.counts, lease.source) ELSE pool.counts]

\* MUTANT of CanResolve: the limit is checked for the source the lease leaves.
ResolvesFromUnderLimit(pool, lease, source) ==
  lease.source = source \/ Count(pool.counts, lease.source) < PendingSourceLimit

\* Lease::resolve_source.  The pending pool always has a source limit.
CanResolve(pool, lease, source) ==
  lease.source = source \/ Count(pool.counts, source) < PendingSourceLimit

Resolved(pool, lease, source) ==
  IF lease.source = source THEN pool
  ELSE [pool EXCEPT !.counts =
          IF lease.source \in DOMAIN pool.counts
          THEN Decrement(Increment(@, source), lease.source)
          ELSE Increment(@, source)]

-----------------------------------------------------------------------------
VARIABLES
  pending,        \* the pending pool
  active,         \* the active pool
  phase,          \* where each connection stands
  route,          \* who is at the other end and by which way: [client, hops, style]
  source_ip,      \* what the handshake takes the client's address to be
  pending_lease,  \* the lease each connection holds on the pending pool, or None
  active_lease    \* and on the active pool

vars == <<pending, active, phase, route, source_ip, pending_lease, active_lease>>

\* closed: no connection.  handshake: waiting for the request.  resolved: in
\* the callback, between its two critical sections.  refused: the 429 is being
\* sent.  admitted: the 101 is being sent.  open: a WebSocket.  closing: the
\* handshake failed and the active lease is still to be dropped.
Phases == {"closed", "handshake", "resolved", "refused", "admitted", "open", "closing"}

Way == [client: Clients, hops: {r.hops : r \in Routes}, style: RouteStyles]

CanonicalAddresses == {canonical(ip) : ip \in Addresses}

\* One type invariant for the pools, the leases and the connections: counts are
\* positive and leases name quota sources.
TypeOK ==
  /\ \A pool \in {pending, active} :
       /\ DOMAIN pool = {"total", "counts"}
       /\ pool.total \in Nat
       /\ DOMAIN pool.counts \subseteq QuotaSources
       /\ \A s \in DOMAIN pool.counts : pool.counts[s] \in Nat \ {0}
  /\ phase \in [Conns -> Phases]
  /\ route \in [Conns -> Way \cup {None}]
  /\ source_ip \in [Conns -> CanonicalAddresses \cup {None}]
  /\ pending_lease \in [Conns -> Lease \cup {None}]
  /\ active_lease \in [Conns -> Lease \cup {None}]

Init ==
  /\ pending = EmptyPool
  /\ active = EmptyPool
  /\ phase = [c \in Conns |-> "closed"]
  /\ route = [c \in Conns |-> None]
  /\ source_ip = [c \in Conns |-> None]
  /\ pending_lease = [c \in Conns |-> None]
  /\ active_lease = [c \in Conns |-> None]

\* The TCP peer of a connection: its client or the last proxy on the way.
Peer(way) == IF way.hops = <<>> THEN way.client ELSE way.hops[Len(way.hops)]

\* What reaches the server of a request: a proxy appends the address it was
\* reached from to X-Forwarded-For (style append), sets X-Real-IP to it (real),
\* or does both; what else the client claims passes through.
Forwarded(way, claim) ==
  LET seen == <<way.client>> \o SubSeq(way.hops, 1, Len(way.hops) - 1)
      n == Len(claim.xff)
  IN IF way.hops = <<>> THEN claim
     ELSE [xff |-> IF way.style = "real" THEN claim.xff
                   ELSE IF n = 0 THEN <<seen>>
                   ELSE [claim.xff EXCEPT ![n] = @ \o seen],
           real |-> IF way.style = "append" THEN claim.real ELSE <<seen[Len(seen)]>>]

-----------------------------------------------------------------------------
\* The accept loop and Admission::pending.

PendingSource(peer) == IF IsTrusted(peer) THEN None ELSE quota_source(peer)

\* A pending lease for the peer, counted for it unless it is a proxy.
Accept(c) ==
  \E client \in Clients, r \in Routes :
    LET way == [client |-> client, hops |-> r.hops, style |-> r.style]
        source == PendingSource(Peer(way))
    IN /\ phase[c] = "closed"
       /\ CanAcquire(pending, PendingLimit, PendingSourceLimit, source)
       /\ pending' = Acquired(pending, CountedSource(source, PendingSourceLimit))
       /\ pending_lease' = [pending_lease EXCEPT ![c] =
                              [source |-> CountedSource(source, PendingSourceLimit)]]
       /\ phase' = [phase EXCEPT ![c] = "handshake"]
       /\ route' = [route EXCEPT ![c] = way]
       /\ source_ip' = [source_ip EXCEPT ![c] = canonical(Peer(way))]
       /\ UNCHANGED <<active, active_lease>>

MayResolve(c, ip) == ip # None /\ CanResolve(pending, pending_lease[c], quota_source(ip))

\* The request arrives: the client's address and the move of the pending lease.
ResolveSource(c) ==
  \E claim \in Claims :
    LET ip == Source(Peer(route[c]), Forwarded(route[c], claim))
        source == quota_source(ip)
    IN /\ phase[c] = "handshake"
       /\ MayResolve(c, ip)
       /\ pending' = Resolved(pending, pending_lease[c], source)
       /\ pending_lease' = [pending_lease EXCEPT ![c].source = source]
       /\ source_ip' = [source_ip EXCEPT ![c] = ip]
       /\ phase' = [phase EXCEPT ![c] = "resolved"]
       /\ UNCHANGED <<active, active_lease, route>>

\* The address is missing or ambiguous, or its source has too many handshakes.
RefuseSource(c) ==
  \E claim \in Claims :
    LET ip == Source(Peer(route[c]), Forwarded(route[c], claim))
    IN /\ phase[c] = "handshake"
       /\ ~MayResolve(c, ip)
       /\ source_ip' = [source_ip EXCEPT ![c] = IF ip = None THEN @ ELSE ip]
       /\ phase' = [phase EXCEPT ![c] = "refused"]
       /\ UNCHANGED <<pending, pending_lease, active, active_lease, route>>

\* Admission::active.
Admit(c) ==
  LET source == quota_source(source_ip[c])
  IN /\ phase[c] = "resolved"
     /\ CanAcquire(active, ActiveLimit, ActiveSourceLimit, source)
     /\ active' = Acquired(active, CountedSource(source, ActiveSourceLimit))
     /\ active_lease' = [active_lease EXCEPT ![c] =
                           [source |-> CountedSource(source, ActiveSourceLimit)]]
     /\ phase' = [phase EXCEPT ![c] = "admitted"]
     /\ UNCHANGED <<pending, pending_lease, route, source_ip>>

RefuseActive(c) ==
  /\ phase[c] = "resolved"
  /\ ~CanAcquire(active, ActiveLimit, ActiveSourceLimit, quota_source(source_ip[c]))
  /\ phase' = [phase EXCEPT ![c] = "refused"]
  /\ UNCHANGED <<pending, pending_lease, active, active_lease, route, source_ip>>

DropPending(c) ==
  /\ pending' = Released(pending, pending_lease[c])
  /\ pending_lease' = [pending_lease EXCEPT ![c] = None]

\* Whether the end of the handshake leaves an active lease to drop.
KeepsActive(c) == active_lease[c] # None

\* The 101 is sent: the pending lease is dropped.
Upgrade(c) ==
  /\ phase[c] = "admitted"
  /\ DropPending(c)
  /\ phase' = [phase EXCEPT ![c] = "open"]
  /\ UNCHANGED <<active, active_lease, route, source_ip>>

\* MUTANT of MayFail: a handshake that says nothing is waited for.
FailsWhenAnswered(c) == phase[c] \in {"refused", "admitted"}

MayFail(c) == phase[c] \in {"handshake", "refused", "admitted"}

\* The handshake fails: the 429 is out, the peer went away, or time is up.
HandshakeFails(c) ==
  /\ MayFail(c)
  /\ DropPending(c)
  /\ phase' = [phase EXCEPT ![c] = IF KeepsActive(c) THEN "closing" ELSE "closed"]
  /\ route' = [route EXCEPT ![c] = IF KeepsActive(c) THEN @ ELSE None]
  /\ source_ip' = [source_ip EXCEPT ![c] = IF KeepsActive(c) THEN @ ELSE None]
  /\ UNCHANGED <<active, active_lease>>

\* The connection's task returns.
Close(c) ==
  /\ phase[c] \in {"open", "closing"}
  /\ active' = Released(active, active_lease[c])
  /\ active_lease' = [active_lease EXCEPT ![c] = None]
  /\ phase' = [phase EXCEPT ![c] = "closed"]
  /\ route' = [route EXCEPT ![c] = None]
  /\ source_ip' = [source_ip EXCEPT ![c] = None]
  /\ UNCHANGED <<pending, pending_lease>>

Next ==
  \E c \in Conns :
    \/ Accept(c) \/ ResolveSource(c) \/ RefuseSource(c) \/ Admit(c)
    \/ RefuseActive(c) \/ Upgrade(c) \/ HandshakeFails(c) \/ Close(c)

Spec == Init /\ [][Next]_vars

\* The callback runs without waiting and the handshake has a timeout; nothing
\* makes the peer send its request.
HandshakeStep(c) == Admit(c) \/ RefuseActive(c) \/ Upgrade(c) \/ HandshakeFails(c)

Fairness == \A c \in Conns : WF_vars(HandshakeStep(c))

FairSpec == Spec /\ Fairness

-----------------------------------------------------------------------------
PendingHolders == {c \in Conns : pending_lease[c] # None}
ActiveHolders == {c \in Conns : active_lease[c] # None}
PendingOf(s) == {c \in PendingHolders : pending_lease[c].source = s}
ActiveOf(s) == {c \in ActiveHolders : active_lease[c].source = s}

\* The counters of both pools are the leases that exist, in total and for each
\* source, whatever was moved, refused, timed out or dropped; a source without
\* leases has no entry.  A count that does not come back would lock its source
\* out or let the tables grow.
CountsMatchLeases ==
  /\ pending.total = Cardinality(PendingHolders)
  /\ active.total = Cardinality(ActiveHolders)
  /\ \A s \in QuotaSources : /\ Count(pending.counts, s) = Cardinality(PendingOf(s))
                        /\ Count(active.counts, s) = Cardinality(ActiveOf(s))
  /\ \A s \in DOMAIN pending.counts : PendingOf(s) # {}
  /\ \A s \in DOMAIN active.counts : ActiveOf(s) # {}

\* Leases belong to live connections: a pending one lasts as long as the
\* handshake, and a WebSocket is held by an active one for its whole life.
LeasesFollowPhases ==
  \A c \in Conns :
    /\ pending_lease[c] # None <=> phase[c] \in {"handshake", "resolved", "refused", "admitted"}
    /\ active_lease[c] # None <=> phase[c] \in {"admitted", "open", "closing"}

\* Both, with the types: no order of accepting, resolving, refusing, failing and
\* closing loses a place of a pool or gives one back twice.
LeasesAreExact == TypeOK /\ CountsMatchLeases /\ LeasesFollowPhases

\* Neither pool, nor the share of a source in it, is ever exceeded.  With a source
\* limit no source holds all places of the active pool, unless that is one place.
\* For the pending pool the code takes no such care, although the comment on
\* DEFAULT_PENDING_SOURCE_LIMIT says that one source must not consume all of it: it
\* cannot only where its limit is below the pool's, and with MAX_CONNECTIONS at
\* most 16 and no lower limit per source it is not.
WithinLimits ==
  /\ Cardinality(PendingHolders) <= PendingLimit
  /\ Cardinality(ActiveHolders) <= ActiveLimit
  /\ \A s \in QuotaSources :
       /\ Cardinality(PendingOf(s)) <= PendingSourceLimit
       /\ PendingSourceLimit < PendingLimit => Cardinality(PendingOf(s)) < PendingLimit
       /\ ActiveSourceLimit # None => Cardinality(ActiveOf(s)) <= ActiveSourceLimit
       /\ PerSource # None /\ MaxConnections > 1 => Cardinality(ActiveOf(s)) < ActiveLimit

\* Past the resolution a connection is charged to the client at the far end,
\* whatever headers the client sent and however many proxies are between.
ChargedToClient ==
  \A c \in Conns :
    phase[c] \in {"resolved", "admitted", "open", "closing"} =>
      quota_source(source_ip[c]) = quota_source(route[c].client)

\* Every handshake ends and gives its pending place back, although its peer
\* may never say a word.
PendingPlacesReturn ==
  \A c \in Conns : pending_lease[c] # None ~> pending_lease[c] = None
=============================================================================

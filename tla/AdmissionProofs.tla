--------------------------- MODULE AdmissionProofs ---------------------------
(***************************************************************************)
(* Proofs about Admission, for any finite set of connection slots, any     *)
(* addresses, proxies, routes and headers, and any configured limits.      *)
(***************************************************************************)
EXTENDS Admission, FiniteSetTheorems, SequenceTheorems,
        WellFoundedInduction, TLAPS

-----------------------------------------------------------------------------
\* The inductive invariant.  Both pools are accounts of a table of leases.

PoolOK(pool) ==
  /\ DOMAIN pool = {"total", "counts"}
  /\ pool.total \in Nat
  /\ DOMAIN pool.counts \subseteq QuotaSources
  /\ \A s \in DOMAIN pool.counts : pool.counts[s] \in Nat \ {0}

Holders(lease) == {c \in Conns : lease[c] # None}

HoldersOf(lease, s) == {c \in Holders(lease) : lease[c].source = s}

\* The tables after c got a lease, gave it back, or moved it.
Granted(lease, c, source) == [lease EXCEPT ![c] = [source |-> source]]
Returned(lease, c) == [lease EXCEPT ![c] = None]
Moved(lease, c, source) == [lease EXCEPT ![c].source = source]

\* The pool counts the leases, in total and by source.
Exact(pool, lease) ==
  /\ pool.total = Cardinality(Holders(lease))
  /\ \A s \in QuotaSources : Count(pool.counts, s) = Cardinality(HoldersOf(lease, s))

\* What acquire and resolve_source keep of the limits.
Bounded ==
  /\ pending.total <= PendingLimit
  /\ active.total <= ActiveLimit
  /\ \A s \in QuotaSources :
       /\ Count(pending.counts, s) <= PendingSourceLimit
       /\ ActiveSourceLimit # None => Count(active.counts, s) <= ActiveSourceLimit

\* A connection came by one of the routes, and has an address to charge.
WaysKnown ==
  \A c \in Conns : phase[c] # "closed" =>
    /\ \E client \in Clients, r \in Routes :
         route[c] = [client |-> client, hops |-> r.hops, style |-> r.style]
    /\ source_ip[c] # None

IndInv ==
  /\ TypeOK
  /\ Exact(pending, pending_lease) /\ Exact(active, active_lease)
  /\ LeasesFollowPhases /\ Bounded /\ WaysKnown

-----------------------------------------------------------------------------
\* The counts of a table.

LEMMA CountOfIncrement ==
  ASSUME NEW counts, NEW s, NEW x
  PROVE  Count(Increment(counts, s), x) = IF x = s THEN Count(counts, s) + 1 ELSE Count(counts, x)
BY DEF Count, Increment

LEMMA CountOfDecrement ==
  ASSUME NEW counts, NEW s \in DOMAIN counts, counts[s] \in Nat \ {0}, NEW x
  PROVE  Count(Decrement(counts, s), x) = IF x = s THEN Count(counts, s) - 1 ELSE Count(counts, x)
BY DEF Count, Decrement

\* Increments and decrements leave no entry of zero.
LEMMA EntriesArePositive ==
  ASSUME NEW counts, DOMAIN counts \subseteq QuotaSources, NEW s \in QuotaSources,
         \A x \in DOMAIN counts : counts[x] \in Nat \ {0}
  PROVE  /\ DOMAIN Increment(counts, s) = DOMAIN counts \cup {s}
         /\ \A x \in DOMAIN Increment(counts, s) : Increment(counts, s)[x] \in Nat \ {0}
         /\ DOMAIN Decrement(counts, s) \subseteq DOMAIN counts
         /\ \A x \in DOMAIN Decrement(counts, s) : Decrement(counts, s)[x] \in Nat \ {0}
BY DEF Count, Increment, Decrement

LEMMA HoldersAreFinite ==
  ASSUME NEW lease
  PROVE  /\ IsFiniteSet(Holders(lease))
         /\ \A s : IsFiniteSet(HoldersOf(lease, s))
<1>1. Holders(lease) \in SUBSET Conns /\ \A s : HoldersOf(lease, s) \in SUBSET Conns
  BY DEF Holders, HoldersOf
<1> QED
  BY <1>1, FS_Subset, AdmissionAssumption

\* A lease with a source in the table of sources is counted under it.
LEMMA LeaseIsCounted ==
  ASSUME NEW pool, NEW lease, PoolOK(pool), Exact(pool, lease),
         NEW c \in Conns, lease[c] \in Lease, lease[c] # None
  PROVE  /\ pool.total \in Nat \ {0}
         /\ lease[c].source \in QuotaSources => lease[c].source \in DOMAIN pool.counts
<1>1. Cardinality(Holders(lease)) # 0
  BY HoldersAreFinite, FS_EmptySet DEF Holders
<1>2. ASSUME lease[c].source \in QuotaSources
      PROVE  Cardinality(HoldersOf(lease, lease[c].source)) # 0
  <2>1. c \in HoldersOf(lease, lease[c].source)
    BY DEF Holders, HoldersOf
  <2> QED
    BY <2>1, HoldersAreFinite, FS_EmptySet
<1> QED
  BY <1>1, <1>2 DEF PoolOK, Exact, Count

-----------------------------------------------------------------------------
\* What the operations of a pool do to its account.

LEMMA NoneIsNoSource == None \notin QuotaSources /\ QuotaSources \subseteq Address
<1>1. ASSUME NEW ip \in Addresses
      PROVE  quota_source(ip) \in Address
  <2>1. ip \in Address
    BY AddressesAssumption
  <2>2. canonical(ip) \in Address
    BY <2>1 DEF canonical, Address
  <2> QED
    BY <2>2 DEF quota_source, Address
<1> QED
  BY <1>1, AddressesAssumption DEF QuotaSources

LEMMA PoolOfParts ==
  ASSUME NEW n \in Nat, NEW counts, DOMAIN counts \subseteq QuotaSources,
         \A x \in DOMAIN counts : counts[x] \in Nat \ {0},
         NEW pool, pool = [total |-> n, counts |-> counts]
  PROVE  PoolOK(pool) /\ pool.total = n /\ pool.counts = counts
BY DEF PoolOK

LEMMA AcquireKeepsAccount ==
  ASSUME NEW pool, NEW lease \in [Conns -> Lease \cup {None}],
         PoolOK(pool), Exact(pool, lease),
         NEW c \in Conns, lease[c] = None, NEW counted \in QuotaSources \cup {None}
  PROVE  /\ PoolOK(Acquired(pool, counted))
         /\ Exact(Acquired(pool, counted), Granted(lease, c, counted))
         /\ Granted(lease, c, counted) \in [Conns -> Lease \cup {None}]
         /\ Granted(lease, c, counted)[c] # None
         /\ Acquired(pool, counted).total = pool.total + 1
         /\ \A s \in QuotaSources :
              Count(Acquired(pool, counted).counts, s) =
                IF s = counted THEN Count(pool.counts, s) + 1 ELSE Count(pool.counts, s)
<1> DEFINE new == Granted(lease, c, counted)
<1>0. new = [lease EXCEPT ![c] = [source |-> counted]]
  BY DEF Granted
<1>1. [source |-> counted] # None /\ [source |-> counted] \in Lease
  BY LeaseAssumption DEF Lease
<1> HIDE DEF new
<1>2. Holders(new) = Holders(lease) \cup {c} /\ c \notin Holders(lease)
  BY <1>0, <1>1 DEF Holders
<1>3. \A s \in QuotaSources :
        HoldersOf(new, s) = IF s = counted THEN HoldersOf(lease, s) \cup {c}
                            ELSE HoldersOf(lease, s)
  BY <1>0, <1>1 DEF Holders, HoldersOf
<1>4. \A s : c \notin HoldersOf(lease, s)
  BY DEF Holders, HoldersOf
<1> DEFINE counts == IF counted = None THEN pool.counts ELSE Increment(pool.counts, counted)
<1>t. DOMAIN counts \subseteq QuotaSources /\ \A x \in DOMAIN counts : counts[x] \in Nat \ {0}
  <2>1. CASE counted = None
    BY <2>1 DEF PoolOK
  <2>2. CASE counted # None
    <3>1. counts = Increment(pool.counts, counted) /\ counted \in QuotaSources
      BY <2>2
    <3>2. /\ DOMAIN Increment(pool.counts, counted) = DOMAIN pool.counts \cup {counted}
          /\ \A x \in DOMAIN Increment(pool.counts, counted) :
               Increment(pool.counts, counted)[x] \in Nat \ {0}
      BY <3>1, EntriesArePositive DEF PoolOK
    <3> QED
      BY <3>1, <3>2 DEF PoolOK
  <2> QED
    BY <2>1, <2>2
<1>a. Acquired(pool, counted) = [total |-> pool.total + 1, counts |-> counts]
  BY DEF Acquired
<1>n. \A s \in QuotaSources : Count(counts, s) = IF s = counted THEN Count(pool.counts, s) + 1
                                           ELSE Count(pool.counts, s)
  BY CountOfIncrement, NoneIsNoSource
<1> HIDE DEF counts
<1>5. /\ PoolOK(Acquired(pool, counted))
      /\ Acquired(pool, counted).total = pool.total + 1
      /\ Acquired(pool, counted).counts = counts
  <2>1. pool.total + 1 \in Nat
    BY DEF PoolOK
  <2> QED
    BY <2>1, <1>t, <1>a, PoolOfParts
<1>6. Cardinality(Holders(new)) = pool.total + 1
  BY <1>2, HoldersAreFinite, FS_AddElement DEF Exact
<1>7. ASSUME NEW s \in QuotaSources
      PROVE  Count(Acquired(pool, counted).counts, s) = Cardinality(HoldersOf(new, s))
  <2>1. Count(pool.counts, s) = Cardinality(HoldersOf(lease, s))
    BY DEF Exact
  <2>2. CASE s = counted
    <3>1. HoldersOf(new, s) = HoldersOf(lease, s) \cup {c} /\ c \notin HoldersOf(lease, s)
      BY <2>2, <1>3, <1>4
    <3>2. Cardinality(HoldersOf(new, s)) = Cardinality(HoldersOf(lease, s)) + 1
      BY <3>1, HoldersAreFinite, FS_AddElement
    <3> QED
      BY <2>1, <2>2, <3>2, <1>n, <1>5
  <2>3. CASE s # counted
    BY <2>1, <2>3, <1>3, <1>n, <1>5
  <2> QED
    BY <2>2, <2>3
<1>8. new \in [Conns -> Lease \cup {None}] /\ new[c] # None
  BY <1>0, <1>1
<1>9. Exact(Acquired(pool, counted), new)
  BY <1>5, <1>6, <1>7 DEF Exact
<1> QED
  BY <1>5, <1>8, <1>9, <1>n DEF new

LEMMA ReleaseKeepsAccount ==
  ASSUME NEW pool, NEW lease \in [Conns -> Lease \cup {None}],
         PoolOK(pool), Exact(pool, lease),
         NEW c \in Conns, lease[c] # None
  PROVE  /\ PoolOK(Released(pool, lease[c]))
         /\ Exact(Released(pool, lease[c]), Returned(lease, c))
         /\ Returned(lease, c) \in [Conns -> Lease \cup {None}] /\ Returned(lease, c)[c] = None
         /\ Released(pool, lease[c]).total = pool.total - 1
         /\ \A s \in QuotaSources :
              Count(Released(pool, lease[c]).counts, s) <= Count(pool.counts, s)
<1> DEFINE new == Returned(lease, c)
           src == lease[c].source
<1>0. new = [lease EXCEPT ![c] = None]
  BY DEF Returned
<1> HIDE DEF new
<1>1. lease[c] \in Lease /\ src \in QuotaSources \cup {None}
  BY DEF Lease
<1>2. pool.total \in Nat \ {0} /\ (src \in QuotaSources => src \in DOMAIN pool.counts)
  BY <1>1, LeaseIsCounted
<1>3. Holders(new) = Holders(lease) \ {c} /\ c \in Holders(lease)
  BY <1>0 DEF Holders
<1>4. \A s \in QuotaSources :
        HoldersOf(new, s) = IF s = src THEN HoldersOf(lease, s) \ {c} ELSE HoldersOf(lease, s)
  BY <1>0 DEF Holders, HoldersOf
<1>5. c \in HoldersOf(lease, src)
  BY DEF Holders, HoldersOf
<1>c. src \in DOMAIN pool.counts <=> src \in QuotaSources
  BY <1>2 DEF PoolOK
<1> HIDE DEF src
<1> DEFINE counts == IF src \in QuotaSources THEN Decrement(pool.counts, src) ELSE pool.counts
<1>d. Released(pool, lease[c]) = [total |-> pool.total - 1, counts |-> counts]
  BY <1>c DEF Released, src
<1>t. DOMAIN counts \subseteq QuotaSources /\ \A x \in DOMAIN counts : counts[x] \in Nat \ {0}
  BY EntriesArePositive DEF PoolOK
<1>n. \A s \in QuotaSources : Count(counts, s) = IF s = src THEN Count(pool.counts, s) - 1
                                           ELSE Count(pool.counts, s)
  <2>1. src \in QuotaSources => src \in DOMAIN pool.counts /\ pool.counts[src] \in Nat \ {0}
    BY <1>2 DEF PoolOK
  <2> QED
    BY <2>1, CountOfDecrement
<1> HIDE DEF counts
<1>6. /\ PoolOK(Released(pool, lease[c]))
      /\ Released(pool, lease[c]).total = pool.total - 1
      /\ Released(pool, lease[c]).counts = counts
  <2>1. pool.total - 1 \in Nat
    BY <1>2
  <2> QED
    BY <2>1, <1>t, <1>d, PoolOfParts
<1>7. Cardinality(Holders(new)) = pool.total - 1
  BY <1>3, HoldersAreFinite, FS_RemoveElement DEF Exact
<1>8. ASSUME NEW s \in QuotaSources
      PROVE  Count(Released(pool, lease[c]).counts, s) = Cardinality(HoldersOf(new, s))
  <2>1. Count(pool.counts, s) = Cardinality(HoldersOf(lease, s))
    BY DEF Exact
  <2>2. CASE s = src
    <3>1. Cardinality(HoldersOf(new, s)) = Cardinality(HoldersOf(lease, s)) - 1
      BY <2>2, <1>4, <1>5, HoldersAreFinite, FS_RemoveElement
    <3> QED
      BY <2>1, <2>2, <3>1, <1>n, <1>6
  <2>3. CASE s # src
    BY <2>1, <2>3, <1>4, <1>n, <1>6
  <2> QED
    BY <2>2, <2>3
<1>9. \A s \in QuotaSources : Count(counts, s) <= Count(pool.counts, s)
  <2>1. \A s \in QuotaSources : Count(pool.counts, s) \in Nat
    BY DEF PoolOK, Count
  <2> QED
    BY <2>1, <1>n
<1>10. new \in [Conns -> Lease \cup {None}] /\ new[c] = None
  BY <1>0
<1>11. Exact(Released(pool, lease[c]), new)
  BY <1>6, <1>7, <1>8 DEF Exact
<1> QED
  BY <1>6, <1>9, <1>10, <1>11 DEF new

\* The lease moves to source; the count of no other source grows.
LEMMA ResolveKeepsAccount ==
  ASSUME NEW pool, NEW lease \in [Conns -> Lease \cup {None}],
         PoolOK(pool), Exact(pool, lease),
         NEW c \in Conns, lease[c] # None, NEW source \in QuotaSources
  PROVE  /\ PoolOK(Resolved(pool, lease[c], source))
         /\ Exact(Resolved(pool, lease[c], source), Moved(lease, c, source))
         /\ Moved(lease, c, source) \in [Conns -> Lease \cup {None}]
         /\ Moved(lease, c, source)[c] # None
         /\ Resolved(pool, lease[c], source).total = pool.total
         /\ \A s \in QuotaSources :
              \/ Count(Resolved(pool, lease[c], source).counts, s) <= Count(pool.counts, s)
              \/ /\ s = source /\ lease[c].source # source
                 /\ Count(Resolved(pool, lease[c], source).counts, s) = Count(pool.counts, s) + 1
<1> DEFINE new == Moved(lease, c, source)
           src == lease[c].source
           after == Resolved(pool, lease[c], source)
<1>1. lease[c] \in Lease /\ src \in QuotaSources \cup {None}
  BY DEF Lease
<1>2. src \in DOMAIN pool.counts <=> src \in QuotaSources
  BY <1>1, LeaseIsCounted DEF PoolOK
<1>3. new = [lease EXCEPT ![c] = [source |-> source]] /\ [source |-> source] \in Lease
  <2>1. [lease[c] EXCEPT !.source = source] = [source |-> source]
    BY <1>1 DEF Lease
  <2> QED
    BY <2>1 DEF Lease, Moved
<1> HIDE DEF new
<1>4. new \in [Conns -> Lease \cup {None}] /\ new[c] = [source |-> source] /\ new[c] # None
  BY <1>3, LeaseAssumption
<1>5. Holders(new) = Holders(lease)
  BY <1>3, <1>4 DEF Holders
<1>6. \A s \in QuotaSources : Count(pool.counts, s) \in Nat
  BY DEF PoolOK, Count
<1>7. CASE src = source
  <2>1. new = lease
    BY <1>1, <1>3, <1>7 DEF Lease
  <2>2. after = pool
    BY <1>7 DEF Resolved
  <2> QED
    BY <2>1, <2>2, <1>4, <1>6 DEF new
<1>8. CASE src # source
  <2> DEFINE more == Increment(pool.counts, source)
             counts == IF src \in QuotaSources THEN Decrement(more, src) ELSE more
  <2>1. /\ DOMAIN more = DOMAIN pool.counts \cup {source}
        /\ \A x \in DOMAIN more : more[x] \in Nat \ {0}
    BY EntriesArePositive DEF PoolOK
  <2>2. src \in QuotaSources => src \in DOMAIN more /\ more[src] \in Nat \ {0}
    BY <2>1, <1>2
  <2>3. \A s : Count(more, s) = IF s = source THEN Count(pool.counts, s) + 1
                               ELSE Count(pool.counts, s)
    BY CountOfIncrement
  <2>4. after = [total |-> pool.total, counts |-> counts]
    BY <1>2, <1>8 DEF Resolved, PoolOK
  <2> HIDE DEF more
  <2>5. \A s \in QuotaSources : Count(counts, s) = IF s = src THEN Count(more, s) - 1
                                             ELSE Count(more, s)
    BY <2>2, CountOfDecrement
  <2>6. DOMAIN counts \subseteq QuotaSources /\ \A x \in DOMAIN counts : counts[x] \in Nat \ {0}
    <3>1. DOMAIN more \subseteq QuotaSources
      BY <2>1 DEF PoolOK
    <3> QED
      BY <3>1, <2>1, EntriesArePositive
  <2> HIDE DEF counts, src, after
  <2>7. PoolOK(after) /\ after.total = pool.total /\ after.counts = counts
    <3>1. pool.total \in Nat
      BY DEF PoolOK
    <3> QED
      BY <3>1, <2>4, <2>6, PoolOfParts
  <2>8. ASSUME NEW s \in QuotaSources
        PROVE  /\ Count(after.counts, s) = Cardinality(HoldersOf(new, s))
               /\ \/ Count(after.counts, s) <= Count(pool.counts, s)
                  \/ s = source /\ Count(after.counts, s) = Count(pool.counts, s) + 1
    <3>1. Count(pool.counts, s) = Cardinality(HoldersOf(lease, s))
      BY DEF Exact
    <3>2. CASE s = source
      <4>1. HoldersOf(new, s) = HoldersOf(lease, s) \cup {c} /\ c \notin HoldersOf(lease, s)
        BY <3>2, <1>3, <1>4, <1>8 DEF Holders, HoldersOf, src
      <4>2. Cardinality(HoldersOf(new, s)) = Cardinality(HoldersOf(lease, s)) + 1
        BY <4>1, HoldersAreFinite, FS_AddElement
      <4> QED
        BY <3>1, <3>2, <4>2, <2>3, <2>5, <2>7, <1>8
    <3>3. CASE s = src
      <4>1. HoldersOf(new, s) = HoldersOf(lease, s) \ {c} /\ c \in HoldersOf(lease, s)
        BY <3>3, <1>3, <1>4, <1>8 DEF Holders, HoldersOf, src
      <4>2. Cardinality(HoldersOf(new, s)) = Cardinality(HoldersOf(lease, s)) - 1
        BY <4>1, HoldersAreFinite, FS_RemoveElement
      <4>3. Count(after.counts, s) = Count(pool.counts, s) - 1
        BY <3>3, <2>3, <2>5, <2>7, <1>8
      <4> QED
        BY <3>1, <4>2, <4>3, <1>6
    <3>4. CASE s # source /\ s # src
      <4>1. HoldersOf(new, s) = HoldersOf(lease, s)
        BY <3>4, <1>3, <1>4 DEF Holders, HoldersOf, src
      <4> QED
        BY <3>1, <3>4, <4>1, <2>3, <2>5, <2>7, <1>6
    <3> QED
      BY <3>2, <3>3, <3>4
  <2> QED
    BY <2>7, <2>8, <1>4, <1>5, <1>8 DEF Exact, src, after, new
<1> QED
  BY <1>7, <1>8

-----------------------------------------------------------------------------
\* The limits.

LEMMA LimitsAreNumbers ==
  /\ MaxConnections \in Nat \ {0}
  /\ PendingLimit \in Nat \ {0} /\ PendingSourceLimit \in Nat \ {0}
  /\ ActiveLimit \in Nat \ {0}
  /\ PendingSourceLimit # None
  /\ PerSource = None <=> ActiveSourceLimit = None
  /\ PerSource # None => ActiveSourceLimit \in Nat \ {0}
  /\ PerSource # None /\ MaxConnections > 1 => ActiveSourceLimit < ActiveLimit
<1>1. MaxConnections \in Nat \ {0}
  <2>1. CASE MaxConnectionsEnv \in Nat \ {0}
    BY <2>1, AdmissionAssumption DEF MaxConnections, positive_limit_from_env
  <2>2. CASE MaxConnectionsEnv \notin Nat \ {0}
    BY <2>2 DEF MaxConnections, positive_limit_from_env, DefaultMaxConnections
  <2> QED
    BY <2>1, <2>2
<1>2. PerSource \in (Nat \ {0}) \cup {None} /\ None \notin Nat
  BY AdmissionAssumption DEF PerSource, positive_limit_from_env
<1> QED
  BY <1>1, <1>2
  DEF PendingLimit, PendingSourceLimit, ActiveLimit, ActiveSourceLimit, AtMost, AtLeast,
      DefaultPendingSourceLimit

-----------------------------------------------------------------------------
\* Addresses.

\* Charging a canonical address is charging the address.
LEMMA QuotaOfCanonical ==
  ASSUME NEW ip \in Addresses
  PROVE  quota_source(canonical(ip)) = quota_source(ip)
<1>1. ip \in Address
  BY AddressesAssumption
<1>2. canonical(canonical(ip)) = canonical(ip)
  BY <1>1 DEF canonical, Address
<1> QED
  BY <1>2 DEF quota_source

LEMMA CanonicalIsSome ==
  ASSUME NEW ip \in CanonicalAddresses
  PROVE  ip # None /\ quota_source(ip) \in QuotaSources
<1>1. PICK a \in Addresses : ip = canonical(a)
  BY DEF CanonicalAddresses
<1>2. canonical(a) \in Address
  BY AddressesAssumption DEF canonical, Address
<1> QED
  BY <1>1, <1>2, QuotaOfCanonical, AddressesAssumption DEF QuotaSources

\* Text of a header: addresses, or what does not parse as one.
Texts == Addresses \cup {Bad}

LEMMA SingletonSeq ==
  ASSUME NEW S, NEW x \in S
  PROVE  <<x>> \in Seq(S) /\ <<x>> # <<>>
OBVIOUS

\* The last stranger of a chain is its client.
LEMMA NearestIsLastStranger ==
  ASSUME NEW chain \in Seq(Texts), NEW k \in 1 .. Len(chain), ~IsTrusted(chain[k]),
         \A j \in 1 .. Len(chain) : j > k => IsTrusted(chain[j])
  PROVE  NearestClient(chain) = canonical(chain[k])
<1> DEFINE strangers == {i \in DOMAIN chain : ~IsTrusted(chain[i])}
           last == CHOOSE i \in strangers : \A j \in strangers : j <= i
<1>1. DOMAIN chain = 1 .. Len(chain) /\ Len(chain) \in Nat
  BY LenProperties
<1>2. k \in strangers /\ \A j \in strangers : j <= k
  BY <1>1
<1>3. last \in strangers /\ \A j \in strangers : j <= last
  BY <1>2
<1>4. last = k
  BY <1>1, <1>2, <1>3
<1> QED
  BY <1>2, <1>4 DEF NearestClient

\* A set of numbers up to n has a greatest element: n minus the least distance.
LEMMA GreatestElement ==
  ASSUME NEW n \in Nat, NEW S, S \subseteq 1 .. n, S # {}
  PROVE  \E k \in S : \A j \in S : j <= k
<1> DEFINE T == {n - i : i \in S}
<1>1. T \subseteq Nat /\ T # {}
  <2>1. \A i \in S : i \in Int /\ i <= n /\ n - i \in Nat
    OBVIOUS
  <2> QED
    BY <2>1
<1>2. PICK x \in T : \A y \in T : ~ (<<y, x>> \in OpToRel(<, Nat))
  BY <1>1, WFMin, NatLessThanWellFounded
<1>3. \A y \in T : ~ (y < x)
  BY <1>1, <1>2 DEF OpToRel
<1>4. PICK k \in S : x = n - k
  OBVIOUS
<1>5. ASSUME NEW j \in S
      PROVE  j <= k
  <2>1. n - j \in T /\ j \in Nat /\ k \in Nat
    OBVIOUS
  <2>2. ~ (n - j < n - k)
    BY <2>1, <1>3, <1>4
  <2> QED
    BY <2>1, <2>2
<1> QED
  BY <1>5

\* Whatever the chain, its client is one of its entries.
LEMMA NearestIsAnEntry ==
  ASSUME NEW chain \in Seq(Texts), NearestClient(chain) # None,
         \A i \in DOMAIN chain : chain[i] # Bad
  PROVE  NearestClient(chain) \in CanonicalAddresses
<1> DEFINE strangers == {i \in DOMAIN chain : ~IsTrusted(chain[i])}
           last == CHOOSE i \in strangers : \A j \in strangers : j <= i
<1>1. DOMAIN chain = 1 .. Len(chain) /\ Len(chain) \in Nat
  BY LenProperties
<1>2. strangers # {} /\ NearestClient(chain) = canonical(chain[last])
  BY DEF NearestClient
<1>3. PICK k \in strangers : \A j \in strangers : j <= k
  BY <1>1, <1>2, GreatestElement
<1>4. last \in DOMAIN chain
  BY <1>3
<1>5. chain[last] \in Addresses
  BY <1>4, <1>1, ElementOfSeq DEF Texts
<1> QED
  BY <1>2, <1>5 DEF CanonicalAddresses

\* A client on a route, the headers that arrive from there, and the address that
\* such a request is charged to.
By(client, r) == [client |-> client, hops |-> r.hops, style |-> r.style]
Arriving(client, r, claim) == Forwarded(By(client, r), claim)
Charged(client, r, claim) == Source(Peer(By(client, r)), Arriving(client, r, claim))

\* The addresses a proxy saw on the way: the client's, and the earlier proxies'.
Seen(client, hops) == <<client>> \o SubSeq(hops, 1, Len(hops) - 1)

LEMMA SeenOnTheWay ==
  ASSUME NEW client \in Clients, NEW r \in Routes, r.hops # <<>>
  PROVE  /\ Seen(client, r.hops) \in Seq(Texts)
         /\ Len(Seen(client, r.hops)) = Len(r.hops) /\ Len(r.hops) \in Nat \ {0}
         /\ Seen(client, r.hops)[1] = client
         /\ \A j \in 2 .. Len(r.hops) : IsTrusted(Seen(client, r.hops)[j])
<1> DEFINE hops == r.hops
           Proxies == {ip \in Addresses : IsTrusted(ip)}
           before == SubSeq(hops, 1, Len(hops) - 1)
<1>1. client \in Texts /\ Proxies \subseteq Texts
  BY AdmissionAssumption DEF Texts
<1>2. hops \in Seq(Proxies) /\ Len(hops) \in Nat \ {0}
  BY AdmissionAssumption, EmptySeq
<1> HIDE DEF hops, Proxies
<1>3. \A i \in 1 .. Len(hops) : hops[i] \in Proxies
  BY <1>2, ElementOfSeq
<1>4. /\ before \in Seq(Proxies) /\ Len(before) = Len(hops) - 1
      /\ \A i \in 1 .. Len(hops) - 1 : before[i] \in Proxies
  <2>1. \A i \in 1 .. Len(hops) - 1 : hops[i] \in Proxies
    BY <1>2, <1>3
  <2>2. 1 \in Int /\ Len(hops) - 1 \in Int
    BY <1>2
  <2>3. PICK m \in Int : m = Len(hops) - 1 /\ m >= 0
    BY <1>2
  <2>s. before = SubSeq(hops, 1, m)
    BY <2>3
  <2> HIDE DEF before
  <2>4. /\ before \in Seq(Proxies)
        /\ Len(before) = IF 1 <= m THEN m - 1 + 1 ELSE 0
    BY <2>s, <2>1, <2>3, SubSeqProperties
  <2>5. Len(before) = Len(hops) - 1
    <3>1. Len(before) = m
      BY <2>3, <2>4
    <3> QED
      BY <2>3, <3>1
  <2> QED
    BY <2>4, <2>5, ElementOfSeq
<1> HIDE DEF before
<1>5. before \in Seq(Texts) /\ <<client>> \in Seq(Texts) /\ Len(<<client>>) = 1
  BY <1>1, <1>4, SeqMonotonic
<1>6. /\ <<client>> \o before \in Seq(Texts)
      /\ Len(<<client>> \o before) = 1 + Len(before)
      /\ \A i \in 1 .. 1 + Len(before) :
           (<<client>> \o before)[i] = IF i <= 1 THEN <<client>>[i] ELSE before[i - 1]
  BY <1>5, ConcatProperties
<1>7. Seen(client, r.hops) = <<client>> \o before
  BY DEF Seen, before, hops
<1>8. ASSUME NEW j \in 2 .. Len(hops)
      PROVE  IsTrusted((<<client>> \o before)[j])
  <2>1. j - 1 \in 1 .. Len(hops) - 1 /\ (<<client>> \o before)[j] = before[j - 1]
    BY <1>2, <1>4, <1>6
  <2> QED
    BY <2>1, <1>4 DEF Proxies
<1> QED
  BY <1>2, <1>4, <1>6, <1>7, <1>8 DEF hops

\* What arrives behind a proxy, by its parts.
LEMMA ForwardedParts ==
  ASSUME NEW client \in Clients, NEW r \in Routes, r.hops # <<>>, NEW claim \in Claims
  PROVE  /\ r.style = "real" => Arriving(client, r, claim).xff = claim.xff
         /\ r.style # "real" /\ Len(claim.xff) = 0 =>
              Arriving(client, r, claim).xff = <<Seen(client, r.hops)>>
         /\ r.style # "real" /\ Len(claim.xff) # 0 =>
              Arriving(client, r, claim).xff =
                [claim.xff EXCEPT ![Len(claim.xff)] =
                                    claim.xff[Len(claim.xff)] \o Seen(client, r.hops)]
         /\ r.style # "append" =>
              Arriving(client, r, claim).real = <<Seen(client, r.hops)[Len(Seen(client, r.hops))]>>
         /\ r.style = "append" => Arriving(client, r, claim).real = claim.real
BY DEF Arriving, By, Forwarded, Seen

LEMMA ClaimParts ==
  ASSUME NEW claim \in Claims
  PROVE  claim.xff \in Seq(Seq(Texts)) /\ claim.real \in Seq(Texts)
BY AdmissionAssumption DEF Headers, Texts

\* Headers that arrive are headers.
LEMMA ForwardedIsHeaders ==
  ASSUME NEW client \in Clients, NEW r \in Routes, NEW claim \in Claims
  PROVE  /\ Arriving(client, r, claim).xff \in Seq(Seq(Texts))
         /\ Arriving(client, r, claim).real \in Seq(Texts)
<1> DEFINE h == Arriving(client, r, claim)
<1>1. CASE r.hops = <<>>
  BY <1>1, ClaimParts DEF Arriving, By, Forwarded
<1>2. CASE r.hops # <<>>
  <2> DEFINE seen == Seen(client, r.hops)
             n == Len(claim.xff)
  <2>1. seen \in Seq(Texts) /\ Len(seen) \in Nat \ {0} /\ seen[Len(seen)] \in Texts
    BY <1>2, SeenOnTheWay, ElementOfSeq
  <2>2. claim.xff \in Seq(Seq(Texts)) /\ n \in Nat /\ claim.real \in Seq(Texts)
    BY ClaimParts, LenProperties
  <2>f. /\ r.style = "real" => h.xff = claim.xff
        /\ r.style # "real" /\ Len(claim.xff) = 0 => h.xff = <<seen>>
        /\ r.style # "real" /\ Len(claim.xff) # 0 =>
             h.xff = [claim.xff EXCEPT ![Len(claim.xff)] = claim.xff[Len(claim.xff)] \o seen]
        /\ r.style # "append" => h.real = <<seen[Len(seen)]>>
        /\ r.style = "append" => h.real = claim.real
    BY <1>2, ForwardedParts
  <2> HIDE DEF seen, h
  <2>3. h.real \in Seq(Texts)
    <3>1. h.real = claim.real \/ h.real = <<seen[Len(seen)]>>
      BY <2>f
    <3>2. claim.real \in Seq(Texts) /\ <<seen[Len(seen)]>> \in Seq(Texts)
      BY <2>1, <2>2, SingletonSeq
    <3> QED
      BY <3>1, <3>2
  <2>4. CASE n = 0 \/ r.style = "real"
    <3>1. h.xff = claim.xff \/ h.xff = <<seen>>
      BY <2>4, <2>f
    <3>2. claim.xff \in Seq(Seq(Texts)) /\ <<seen>> \in Seq(Seq(Texts))
      BY <2>1, <2>2, SingletonSeq
    <3> QED
      BY <2>3, <3>1, <3>2 DEF h
  <2>5. CASE n # 0 /\ r.style # "real"
    <3>1. n \in 1 .. n /\ claim.xff[n] \in Seq(Texts)
      BY <2>2, <2>5, ElementOfSeq
    <3>2. claim.xff[n] \o seen \in Seq(Texts)
      BY <3>1, <2>1, ConcatProperties
    <3>3. h.xff = [claim.xff EXCEPT ![n] = claim.xff[n] \o seen]
      BY <2>5, <2>f
    <3>4. h.xff \in Seq(Seq(Texts))
      BY <3>1, <3>2, <3>3, <2>2, ExceptSeq
    <3> QED
      BY <2>3, <3>4 DEF h
  <2> QED
    BY <2>3, <2>4, <2>5 DEF h
<1> QED
  BY <1>1, <1>2

\* The TCP peer is a stranger exactly if there is no proxy.
LEMMA PeerOfWay ==
  ASSUME NEW client \in Clients, NEW r \in Routes
  PROVE  /\ Peer(By(client, r)) \in Addresses
         /\ r.hops = <<>> => Peer(By(client, r)) = client /\ ~IsTrusted(Peer(By(client, r)))
         /\ r.hops # <<>> => IsTrusted(Peer(By(client, r)))
<1>1. CASE r.hops = <<>>
  BY <1>1, AdmissionAssumption DEF Peer, By
<1>2. CASE r.hops # <<>>
  <2>1. r.hops \in Seq({ip \in Addresses : IsTrusted(ip)})
    BY AdmissionAssumption
  <2>2. Len(r.hops) \in 1 .. Len(r.hops)
    BY <1>2, <2>1, EmptySeq
  <2>3. r.hops[Len(r.hops)] \in {ip \in Addresses : IsTrusted(ip)}
    BY <2>1, <2>2, ElementOfSeq
  <2> QED
    BY <1>2, <2>3 DEF Peer, By
<1> QED
  BY <1>1, <1>2

\* The address a request is charged to is an address, or there is none.
LEMMA SourceIsAnAddress ==
  ASSUME NEW client \in Clients, NEW r \in Routes, NEW claim \in Claims,
         Charged(client, r, claim) # None
  PROVE  Charged(client, r, claim) \in CanonicalAddresses
<1> DEFINE h == Arriving(client, r, claim)
           ip == Charged(client, r, claim)
<1>1. h.xff \in Seq(Seq(Texts)) /\ h.real \in Seq(Texts)
  BY ForwardedIsHeaders
<1> HIDE DEF h
<1>2. CASE ~IsTrusted(Peer(By(client, r)))
  BY <1>2, PeerOfWay DEF Charged, Source, CanonicalAddresses
<1>3. CASE IsTrusted(Peer(By(client, r))) /\ h.xff # <<>>
  <2>1. ip = FromChain(h)
    BY <1>3 DEF Charged, Source, h
  <2>2. /\ Len(h.xff) = 1 /\ ip = NearestClient(h.xff[1])
        /\ \A i \in DOMAIN h.xff[1] : h.xff[1][i] # Bad
    BY <2>1 DEF FromChain
  <2>3. h.xff[1] \in Seq(Texts)
    BY <1>1, <2>2, ElementOfSeq
  <2> QED
    BY <2>2, <2>3, NearestIsAnEntry
<1>4. CASE IsTrusted(Peer(By(client, r))) /\ h.xff = <<>>
  <2>1. ip = FromReal(h)
    BY <1>4 DEF Charged, Source, h
  <2>2. Len(h.real) = 1 /\ h.real[1] # Bad /\ ip = canonical(h.real[1])
    BY <2>1 DEF FromReal
  <2>3. h.real[1] \in Addresses
    BY <1>1, <2>2, ElementOfSeq DEF Texts
  <2> QED
    BY <2>2, <2>3 DEF CanonicalAddresses
<1> QED
  BY <1>2, <1>3, <1>4

\* ... and it is the client's, whatever the client claims.
LEMMA SourceIsTheClient ==
  ASSUME NEW client \in Clients, NEW r \in Routes, NEW claim \in Claims,
         Charged(client, r, claim) # None
  PROVE  Charged(client, r, claim) = canonical(client)
<1> DEFINE h == Arriving(client, r, claim)
           ip == Charged(client, r, claim)
           seen == Seen(client, r.hops)
<1>0. h.xff \in Seq(Seq(Texts)) /\ h.real \in Seq(Texts) /\ ~IsTrusted(client)
  BY ForwardedIsHeaders, AdmissionAssumption
<1>1. CASE r.hops = <<>>
  BY <1>1, PeerOfWay DEF Charged, Source
<1>2. CASE r.hops # <<>>
  <2>s. /\ seen \in Seq(Texts) /\ Len(seen) = Len(r.hops) /\ Len(r.hops) \in Nat \ {0}
        /\ seen[1] = client
        /\ \A j \in 2 .. Len(r.hops) : IsTrusted(seen[j])
    BY <1>2, SeenOnTheWay
  <2>p. IsTrusted(Peer(By(client, r)))
    BY <1>2, PeerOfWay
  <2>c. claim.xff \in Seq(Seq(Texts)) /\ Len(claim.xff) \in Nat
    BY ClaimParts, LenProperties
  <2>r. r.style \in {"append", "both", "real"}
    BY AdmissionAssumption DEF RouteStyles
  <2>f. /\ r.style = "real" => h.xff = claim.xff
        /\ r.style # "real" /\ Len(claim.xff) = 0 => h.xff = <<seen>>
        /\ r.style # "real" /\ Len(claim.xff) # 0 =>
             h.xff = [claim.xff EXCEPT ![Len(claim.xff)] = claim.xff[Len(claim.xff)] \o seen]
        /\ r.style # "append" => h.real = <<seen[Len(seen)]>>
        /\ r.style = "append" => h.real = claim.real
    BY <1>2, ForwardedParts
  <2> HIDE DEF h, seen
  <2>1. CASE r.style # "real"
    <3>0. h.xff # <<>>
      <4>1. CASE Len(claim.xff) = 0
        <5>1. h.xff = <<seen>>
          BY <2>1, <2>f, <4>1
        <5> QED
          BY <5>1, <2>s, SingletonSeq
      <4>2. CASE Len(claim.xff) # 0
        <5>1. DOMAIN h.xff = DOMAIN claim.xff
          BY <2>1, <2>f, <4>2
        <5>2. DOMAIN claim.xff = 1 .. Len(claim.xff)
          BY <2>c, LenProperties
        <5>3. 1 \in DOMAIN h.xff
          BY <5>1, <5>2, <4>2, <2>c
        <5> QED
          BY <5>3
      <4> QED
        BY <4>1, <4>2
    <3>1. ip = FromChain(h)
      BY <3>0, <2>p DEF Charged, Source, h
    <3>2. Len(h.xff) = 1 /\ ip = NearestClient(h.xff[1])
      BY <3>1 DEF FromChain
    <3>3. CASE Len(claim.xff) = 0
      <4>1. h.xff[1] = seen
        BY <2>1, <3>3, <2>f
      <4>2. NearestClient(seen) = canonical(seen[1])
        BY <2>s, <1>0, NearestIsLastStranger
      <4> QED
        BY <4>1, <4>2, <3>2, <2>s
    <3>4. CASE Len(claim.xff) # 0
      <4>1. /\ Len(claim.xff) = 1
            /\ h.xff = [claim.xff EXCEPT ![1] = claim.xff[1] \o seen]
        <5>1. Len(claim.xff) \in 1 .. Len(claim.xff)
          BY <2>c, <3>4
        <5>2. claim.xff[Len(claim.xff)] \in Seq(Texts)
          BY <2>c, <5>1, ElementOfSeq
        <5>3. claim.xff[Len(claim.xff)] \o seen \in Seq(Texts)
          BY <5>2, <2>s, ConcatProperties
        <5>4. h.xff = [claim.xff EXCEPT ![Len(claim.xff)] =
                                           claim.xff[Len(claim.xff)] \o seen]
          BY <2>1, <3>4, <2>f
        <5>5. Len(h.xff) = Len(claim.xff)
          BY <5>1, <5>3, <5>4, <2>c, ExceptSeq
        <5> QED
          BY <5>4, <5>5, <3>2
      <4>2. claim.xff[1] \in Seq(Texts) /\ Len(claim.xff[1]) \in Nat
        BY <4>1, <2>c, ElementOfSeq, LenProperties
      <4> DEFINE p == Len(claim.xff[1])
                 chain == claim.xff[1] \o seen
      <4>3. /\ chain \in Seq(Texts) /\ Len(chain) = p + Len(seen)
            /\ \A i \in 1 .. p + Len(seen) :
                 chain[i] = IF i <= p THEN claim.xff[1][i] ELSE seen[i - p]
        BY <4>2, <2>s, ConcatProperties
      <4>4. h.xff[1] = chain
        BY <4>1, <2>c
      <4> HIDE DEF chain, p
      <4>5. p \in Nat
        BY <4>2 DEF p
      <4>6. p + 1 \in 1 .. Len(chain) /\ chain[p + 1] = client
        BY <4>3, <4>5, <2>s
      <4>7. ASSUME NEW j \in 1 .. Len(chain), j > p + 1
            PROVE  IsTrusted(chain[j])
        <5>1. j - p \in 2 .. Len(r.hops) /\ chain[j] = seen[j - p]
          BY <4>3, <4>5, <4>7, <2>s
        <5> QED
          BY <5>1, <2>s
      <4>8. NearestClient(chain) = canonical(chain[p + 1])
        BY <4>3, <4>6, <4>7, <1>0, NearestIsLastStranger
      <4> QED
        BY <4>4, <4>6, <4>8, <3>2
    <3> QED
      BY <3>3, <3>4
  <2>2. CASE r.style = "real"
    <3>1. h.xff = claim.xff /\ h.real = <<client>>
      <4>1. Len(r.hops) = 1
        <5>1. Len(r.hops) <= 1
          BY <2>2, RealAssumption
        <5>2. Len(r.hops) \in Nat \ {0}
          BY <2>s
        <5>3. \A n \in Nat \ {0} : n <= 1 => n = 1
          OBVIOUS
        <5> QED
          BY <5>1, <5>2, <5>3, Zenon
      <4> QED
        BY <2>2, <2>s, <2>f, <4>1
    <3>2. CASE h.xff = <<>>
      BY <2>p, <3>1, <3>2 DEF Charged, Source, FromReal, h
    <3>3. CASE h.xff # <<>>
      <4>1. ip = FromChain(h)
        BY <2>p, <3>3 DEF Charged, Source, h
      <4>2. ip = NearestClient(h.xff[1]) /\ RealAgrees(h.real, ip)
        BY <4>1 DEF FromChain
      <4> QED
        BY <3>1, <4>2, <1>0 DEF RealAgrees
    <3> QED
      BY <3>2, <3>3
  <2> QED
    BY <2>1, <2>2
<1> QED
  BY <1>1, <1>2

-----------------------------------------------------------------------------
\* Init and the steps.

\* The type invariant, by its parts, before and after a step.
LEMMA TypeParts ==
  /\ TypeOK <=> /\ PoolOK(pending) /\ PoolOK(active)
                /\ phase \in [Conns -> Phases]
                /\ route \in [Conns -> Way \cup {None}]
                /\ source_ip \in [Conns -> CanonicalAddresses \cup {None}]
                /\ pending_lease \in [Conns -> Lease \cup {None}]
                /\ active_lease \in [Conns -> Lease \cup {None}]
  /\ TypeOK' <=> /\ PoolOK(pending') /\ PoolOK(active')
                 /\ phase' \in [Conns -> Phases]
                 /\ route' \in [Conns -> Way \cup {None}]
                 /\ source_ip' \in [Conns -> CanonicalAddresses \cup {None}]
                 /\ pending_lease' \in [Conns -> Lease \cup {None}]
                 /\ active_lease' \in [Conns -> Lease \cup {None}]
BY DEF TypeOK, PoolOK, CanonicalAddresses

LEMMA InitEstablishes == Init => IndInv
<1> SUFFICES ASSUME Init PROVE IndInv
  OBVIOUS
<1>1. PoolOK(EmptyPool) /\ EmptyPool.total = 0 /\ \A s : Count(EmptyPool.counts, s) = 0
  BY DEF PoolOK, EmptyPool, Count
<1>2. ASSUME NEW lease, lease = [c \in Conns |-> None]
      PROVE  Exact(EmptyPool, lease)
  <2>1. Holders(lease) = {} /\ \A s : HoldersOf(lease, s) = {}
    BY <1>2 DEF Holders, HoldersOf
  <2> QED
    BY <2>1, <1>1, FS_EmptySet DEF Exact
<1>3. TypeOK
  BY <1>1, TypeParts DEF Init, Phases
<1>4. Exact(pending, pending_lease) /\ Exact(active, active_lease)
  BY <1>2 DEF Init
<1>5. Bounded
  BY <1>1, LimitsAreNumbers DEF Init, Bounded
<1>6. LeasesFollowPhases /\ WaysKnown
  BY DEF Init, LeasesFollowPhases, WaysKnown
<1> QED
  BY <1>3, <1>4, <1>5, <1>6 DEF IndInv

LEMMA IndInvParts ==
  ASSUME IndInv
  PROVE  /\ PoolOK(pending) /\ PoolOK(active)
         /\ phase \in [Conns -> Phases]
         /\ route \in [Conns -> Way \cup {None}]
         /\ source_ip \in [Conns -> CanonicalAddresses \cup {None}]
         /\ pending_lease \in [Conns -> Lease \cup {None}]
         /\ active_lease \in [Conns -> Lease \cup {None}]
         /\ Exact(pending, pending_lease) /\ Exact(active, active_lease)
         /\ LeasesFollowPhases /\ Bounded /\ WaysKnown
BY TypeParts DEF IndInv

LEMMA AcceptPreserves ==
  ASSUME IndInv, NEW c \in Conns, Accept(c)
  PROVE  IndInv'
<1>1. PICK client \in Clients, r \in Routes :
        LET source == PendingSource(Peer(By(client, r)))
        IN /\ phase[c] = "closed"
           /\ CanAcquire(pending, PendingLimit, PendingSourceLimit, source)
           /\ pending' = Acquired(pending, CountedSource(source, PendingSourceLimit))
           /\ pending_lease' = [pending_lease EXCEPT ![c] =
                                  [source |-> CountedSource(source, PendingSourceLimit)]]
           /\ phase' = [phase EXCEPT ![c] = "handshake"]
           /\ route' = [route EXCEPT ![c] = By(client, r)]
           /\ source_ip' = [source_ip EXCEPT ![c] = canonical(Peer(By(client, r)))]
           /\ UNCHANGED <<active, active_lease>>
  BY DEF Accept, By
<1> DEFINE source == PendingSource(Peer(By(client, r)))
<1>2. /\ source \in QuotaSources \cup {None} /\ CountedSource(source, PendingSourceLimit) = source
      /\ canonical(Peer(By(client, r))) \in CanonicalAddresses
      /\ By(client, r) \in Way
  <2>1. /\ source \in QuotaSources \cup {None}
        /\ canonical(Peer(By(client, r))) \in CanonicalAddresses
    BY PeerOfWay DEF PendingSource, QuotaSources, CanonicalAddresses
  <2>2. CountedSource(source, PendingSourceLimit) = source
    BY LimitsAreNumbers DEF CountedSource
  <2>3. By(client, r) \in Way
    BY AdmissionAssumption DEF Way, By
  <2> QED
    BY <2>1, <2>2, <2>3
<1> HIDE DEF source
<1>a. /\ phase[c] = "closed"
      /\ CanAcquire(pending, PendingLimit, PendingSourceLimit, source)
      /\ pending' = Acquired(pending, source)
      /\ pending_lease' = [pending_lease EXCEPT ![c] = [source |-> source]]
      /\ phase' = [phase EXCEPT ![c] = "handshake"]
      /\ route' = [route EXCEPT ![c] = By(client, r)]
      /\ source_ip' = [source_ip EXCEPT ![c] = canonical(Peer(By(client, r)))]
      /\ active' = active /\ active_lease' = active_lease
  BY <1>1, <1>2 DEF source
<1>3. pending_lease[c] = None /\ active_lease[c] = None
  BY IndInvParts, <1>a DEF LeasesFollowPhases
<1>l. pending_lease' = Granted(pending_lease, c, source)
  BY <1>a DEF Granted
<1>4. /\ PoolOK(pending') /\ Exact(pending', pending_lease')
      /\ pending_lease' \in [Conns -> Lease \cup {None}] /\ pending_lease'[c] # None
      /\ pending'.total = pending.total + 1
      /\ \A s \in QuotaSources :
           Count(pending'.counts, s) =
             IF s = source THEN Count(pending.counts, s) + 1 ELSE Count(pending.counts, s)
  <2>1. /\ PoolOK(Acquired(pending, source))
        /\ Exact(Acquired(pending, source), Granted(pending_lease, c, source))
        /\ Granted(pending_lease, c, source) \in [Conns -> Lease \cup {None}]
        /\ Granted(pending_lease, c, source)[c] # None
        /\ Acquired(pending, source).total = pending.total + 1
        /\ \A s \in QuotaSources :
             Count(Acquired(pending, source).counts, s) =
               IF s = source THEN Count(pending.counts, s) + 1 ELSE Count(pending.counts, s)
    BY IndInvParts, <1>2, <1>3, AcquireKeepsAccount
  <2> QED
    BY <2>1, <1>a, <1>l
<1>5. TypeOK'
  BY IndInvParts, <1>2, <1>4, <1>a, TypeParts DEF Phases
<1>6. Exact(pending, pending_lease)' /\ Exact(active, active_lease)'
  BY IndInvParts, <1>4, <1>a
<1>7. LeasesFollowPhases'
  BY IndInvParts, <1>3, <1>4, <1>a DEF LeasesFollowPhases
<1>8. Bounded'
  BY IndInvParts, <1>2, <1>4, <1>a, LimitsAreNumbers, NoneIsNoSource
  DEF Bounded, CanAcquire, CountedSource, PoolOK, Count
<1>9. WaysKnown'
  BY IndInvParts, <1>2, <1>a, CanonicalIsSome DEF WaysKnown, By
<1> QED
  BY <1>5, <1>6, <1>7, <1>8, <1>9 DEF IndInv

LEMMA ResolvePreserves ==
  ASSUME IndInv, NEW c \in Conns, ResolveSource(c)
  PROVE  IndInv'
<1>1. PICK claim \in Claims :
        LET ip == Source(Peer(route[c]), Forwarded(route[c], claim))
        IN /\ phase[c] = "handshake"
           /\ MayResolve(c, ip)
           /\ pending' = Resolved(pending, pending_lease[c], quota_source(ip))
           /\ pending_lease' = [pending_lease EXCEPT ![c].source = quota_source(ip)]
           /\ source_ip' = [source_ip EXCEPT ![c] = ip]
           /\ phase' = [phase EXCEPT ![c] = "resolved"]
           /\ UNCHANGED <<active, active_lease, route>>
  BY DEF ResolveSource
<1>2. PICK client \in Clients, r \in Routes : route[c] = By(client, r)
  BY IndInvParts, <1>1 DEF WaysKnown, By
<1>3. PICK ip : ip = Charged(client, r, claim)
  OBVIOUS
<1>4. PICK source : source = quota_source(ip)
  OBVIOUS
<1>a. /\ phase[c] = "handshake" /\ ip # None
      /\ CanResolve(pending, pending_lease[c], source)
      /\ pending' = Resolved(pending, pending_lease[c], source)
      /\ pending_lease' = Moved(pending_lease, c, source)
      /\ source_ip' = [source_ip EXCEPT ![c] = ip]
      /\ phase' = [phase EXCEPT ![c] = "resolved"]
      /\ active' = active /\ active_lease' = active_lease /\ route' = route
  BY <1>1, <1>2, <1>3, <1>4 DEF Charged, Arriving, Moved, MayResolve
<1>5. ip \in CanonicalAddresses /\ source \in QuotaSources
  BY <1>3, <1>4, <1>a, SourceIsAnAddress, CanonicalIsSome
<1>6. pending_lease[c] # None /\ active_lease[c] = None
  BY IndInvParts, <1>a DEF LeasesFollowPhases
<1>7. /\ PoolOK(pending') /\ Exact(pending', pending_lease')
      /\ pending_lease' \in [Conns -> Lease \cup {None}] /\ pending_lease'[c] # None
      /\ pending'.total = pending.total
      /\ \A s \in QuotaSources :
           \/ Count(pending'.counts, s) <= Count(pending.counts, s)
           \/ /\ s = source /\ pending_lease[c].source # source
              /\ Count(pending'.counts, s) = Count(pending.counts, s) + 1
  <2>1. /\ PoolOK(Resolved(pending, pending_lease[c], source))
        /\ Exact(Resolved(pending, pending_lease[c], source), Moved(pending_lease, c, source))
        /\ Moved(pending_lease, c, source) \in [Conns -> Lease \cup {None}]
        /\ Moved(pending_lease, c, source)[c] # None
        /\ Resolved(pending, pending_lease[c], source).total = pending.total
        /\ \A s \in QuotaSources :
             \/ Count(Resolved(pending, pending_lease[c], source).counts, s)
                  <= Count(pending.counts, s)
             \/ /\ s = source /\ pending_lease[c].source # source
                /\ Count(Resolved(pending, pending_lease[c], source).counts, s) =
                     Count(pending.counts, s) + 1
    BY IndInvParts, <1>5, <1>6, ResolveKeepsAccount
  <2> QED
    BY <2>1, <1>a
<1>8. TypeOK'
  BY IndInvParts, <1>5, <1>7, <1>a, TypeParts DEF Phases
<1>9. Exact(pending, pending_lease)' /\ Exact(active, active_lease)'
  BY IndInvParts, <1>7, <1>a
<1>10. LeasesFollowPhases'
  <2>1. \A d \in Conns \ {c} : pending_lease'[d] = pending_lease[d]
    BY IndInvParts, <1>a DEF Moved
  <2> QED
    BY IndInvParts, <2>1, <1>6, <1>7, <1>a DEF LeasesFollowPhases
<1>11. Bounded'
  <2>1. ASSUME NEW s \in QuotaSources
        PROVE  Count(pending'.counts, s) <= PendingSourceLimit
    <3>1. /\ Count(pending.counts, s) <= PendingSourceLimit
          /\ Count(pending.counts, s) \in Nat /\ Count(pending'.counts, s) \in Nat
      BY IndInvParts, <1>7 DEF Bounded, PoolOK, Count
    <3>2. s = source /\ pending_lease[c].source # source =>
            Count(pending.counts, s) < PendingSourceLimit
      BY <1>a DEF CanResolve
    <3> QED
      BY <3>1, <3>2, <1>7, LimitsAreNumbers
  <2> QED
    BY <2>1, IndInvParts, <1>7, <1>a DEF Bounded
<1>12. WaysKnown'
  BY IndInvParts, <1>5, <1>a, CanonicalIsSome DEF WaysKnown
<1> QED
  BY <1>8, <1>9, <1>10, <1>11, <1>12 DEF IndInv

LEMMA AdmitPreserves ==
  ASSUME IndInv, NEW c \in Conns, Admit(c)
  PROVE  IndInv'
<1>1. PICK ip : ip = source_ip[c]
  OBVIOUS
<1>2. PICK source : source = CountedSource(quota_source(ip), ActiveSourceLimit)
  OBVIOUS
<1>a. /\ phase[c] = "resolved"
      /\ CanAcquire(active, ActiveLimit, ActiveSourceLimit, quota_source(ip))
      /\ active' = Acquired(active, source)
      /\ active_lease' = Granted(active_lease, c, source)
      /\ phase' = [phase EXCEPT ![c] = "admitted"]
      /\ pending' = pending /\ pending_lease' = pending_lease
      /\ route' = route /\ source_ip' = source_ip
  BY <1>1, <1>2 DEF Admit, Granted
<1>3. quota_source(ip) \in QuotaSources
  BY IndInvParts, <1>1, <1>a, CanonicalIsSome DEF WaysKnown
<1>4. source \in QuotaSources \cup {None} /\ (source # None => source = quota_source(ip))
  BY <1>2, <1>3 DEF CountedSource
<1>5. active_lease[c] = None /\ pending_lease[c] # None
  BY IndInvParts, <1>a DEF LeasesFollowPhases
<1>6. /\ PoolOK(active') /\ Exact(active', active_lease')
      /\ active_lease' \in [Conns -> Lease \cup {None}] /\ active_lease'[c] # None
      /\ active'.total = active.total + 1
      /\ \A s \in QuotaSources :
           Count(active'.counts, s) =
             IF s = source THEN Count(active.counts, s) + 1 ELSE Count(active.counts, s)
  <2>1. /\ PoolOK(Acquired(active, source))
        /\ Exact(Acquired(active, source), Granted(active_lease, c, source))
        /\ Granted(active_lease, c, source) \in [Conns -> Lease \cup {None}]
        /\ Granted(active_lease, c, source)[c] # None
        /\ Acquired(active, source).total = active.total + 1
        /\ \A s \in QuotaSources :
             Count(Acquired(active, source).counts, s) =
               IF s = source THEN Count(active.counts, s) + 1 ELSE Count(active.counts, s)
    BY IndInvParts, <1>4, <1>5, AcquireKeepsAccount
  <2> QED
    BY <2>1, <1>a
<1>7. TypeOK'
  BY IndInvParts, <1>6, <1>a, TypeParts DEF Phases
<1>8. Exact(pending, pending_lease)' /\ Exact(active, active_lease)'
  BY IndInvParts, <1>6, <1>a
<1>9. LeasesFollowPhases'
  <2>1. \A d \in Conns \ {c} : active_lease'[d] = active_lease[d]
    BY IndInvParts, <1>a DEF Granted
  <2> QED
    BY IndInvParts, <2>1, <1>5, <1>6, <1>a DEF LeasesFollowPhases
<1>10. Bounded'
  <2>1. active'.total <= ActiveLimit
    BY IndInvParts, <1>6, <1>a, LimitsAreNumbers DEF CanAcquire, PoolOK
  <2>2. ASSUME NEW s \in QuotaSources, ActiveSourceLimit # None
        PROVE  Count(active'.counts, s) <= ActiveSourceLimit
    <3>1. /\ Count(active.counts, s) <= ActiveSourceLimit
          /\ Count(active.counts, s) \in Nat /\ ActiveSourceLimit \in Nat
      BY IndInvParts, <2>2, LimitsAreNumbers DEF Bounded, PoolOK, Count
    <3>2. s = source => Count(active.counts, s) < ActiveSourceLimit
      BY <1>3, <1>4, <1>a, <2>2, NoneIsNoSource DEF CanAcquire, CountedSource
    <3> QED
      BY <3>1, <3>2, <1>6
  <2> QED
    BY <2>1, <2>2, IndInvParts, <1>a DEF Bounded
<1>11. WaysKnown'
  BY IndInvParts, <1>a DEF WaysKnown
<1> QED
  BY <1>7, <1>8, <1>9, <1>10, <1>11 DEF IndInv

\* A refusal changes no pool.
LEMMA RefusePreserves ==
  ASSUME IndInv, NEW c \in Conns, RefuseSource(c) \/ RefuseActive(c)
  PROVE  IndInv'
<1>1. PICK ip \in CanonicalAddresses \cup {None} :
        /\ phase[c] \in {"handshake", "resolved"}
        /\ source_ip' = [source_ip EXCEPT ![c] = IF ip = None THEN @ ELSE ip]
        /\ phase' = [phase EXCEPT ![c] = "refused"]
        /\ pending' = pending /\ pending_lease' = pending_lease
        /\ active' = active /\ active_lease' = active_lease /\ route' = route
  <2>1. CASE RefuseActive(c)
    <3>1. source_ip' = [source_ip EXCEPT ![c] = IF None = None THEN @ ELSE None]
      BY IndInvParts, <2>1 DEF RefuseActive
    <3> QED
      BY <2>1, <3>1 DEF RefuseActive
  <2>2. CASE RefuseSource(c)
    <3>1. PICK claim \in Claims :
            LET ip == Source(Peer(route[c]), Forwarded(route[c], claim))
            IN /\ phase[c] = "handshake"
               /\ source_ip' = [source_ip EXCEPT ![c] = IF ip = None THEN @ ELSE ip]
               /\ phase' = [phase EXCEPT ![c] = "refused"]
               /\ UNCHANGED <<pending, pending_lease, active, active_lease, route>>
      BY <2>2 DEF RefuseSource
    <3>2. PICK client \in Clients, r \in Routes : route[c] = By(client, r)
      BY IndInvParts, <3>1 DEF WaysKnown, By
    <3>3. Source(Peer(route[c]), Forwarded(route[c], claim)) = Charged(client, r, claim)
      BY <3>2 DEF Charged, Arriving
    <3>4. Charged(client, r, claim) \in CanonicalAddresses \cup {None}
      BY SourceIsAnAddress
    <3> QED
      BY <3>1, <3>3, <3>4
  <2> QED
    BY <2>1, <2>2
<1>2. TypeOK'
  BY IndInvParts, <1>1, TypeParts DEF Phases
<1>3. Exact(pending, pending_lease)' /\ Exact(active, active_lease)'
  BY IndInvParts, <1>1
<1>4. LeasesFollowPhases' /\ Bounded'
  BY IndInvParts, <1>1 DEF LeasesFollowPhases, Bounded
<1>5. WaysKnown'
  BY IndInvParts, <1>1, CanonicalIsSome DEF WaysKnown
<1> QED
  BY <1>2, <1>3, <1>4, <1>5 DEF IndInv

\* What the pending pool is after its lease is dropped.
LEMMA DropPendingAccount ==
  ASSUME IndInv, NEW c \in Conns, pending_lease[c] # None, DropPending(c)
  PROVE  /\ PoolOK(pending') /\ Exact(pending', pending_lease')
         /\ pending_lease' \in [Conns -> Lease \cup {None}] /\ pending_lease'[c] = None
         /\ \A d \in Conns \ {c} : pending_lease'[d] = pending_lease[d]
         /\ pending'.total <= PendingLimit
         /\ \A s \in QuotaSources : Count(pending'.counts, s) <= PendingSourceLimit
<1>1. pending' = Released(pending, pending_lease[c]) /\ pending_lease' = Returned(pending_lease, c)
  BY DEF DropPending, Returned
<1>2. /\ PoolOK(Released(pending, pending_lease[c]))
      /\ Exact(Released(pending, pending_lease[c]), Returned(pending_lease, c))
      /\ Returned(pending_lease, c) \in [Conns -> Lease \cup {None}]
      /\ Returned(pending_lease, c)[c] = None
      /\ Released(pending, pending_lease[c]).total = pending.total - 1
      /\ \A s \in QuotaSources :
           Count(Released(pending, pending_lease[c]).counts, s) <= Count(pending.counts, s)
  BY IndInvParts, ReleaseKeepsAccount
<1>3. \A d \in Conns \ {c} : pending_lease'[d] = pending_lease[d]
  BY IndInvParts, <1>1 DEF Returned
<1>4. pending.total \in Nat /\ pending.total <= PendingLimit
  BY IndInvParts DEF PoolOK, Bounded
<1>5. \A s \in QuotaSources : Count(pending.counts, s) \in Nat /\ Count(pending'.counts, s) \in Nat
                         /\ Count(pending.counts, s) <= PendingSourceLimit
  BY IndInvParts, <1>1, <1>2 DEF PoolOK, Count, Bounded
<1> QED
  BY <1>1, <1>2, <1>3, <1>4, <1>5, LimitsAreNumbers

\* The handshake ends, well or not.
LEMMA HandshakeEndPreserves ==
  ASSUME IndInv, NEW c \in Conns, Upgrade(c) \/ HandshakeFails(c)
  PROVE  IndInv'
<1>1. /\ phase[c] \in {"handshake", "refused", "admitted"}
      /\ DropPending(c)
      /\ active' = active /\ active_lease' = active_lease
      /\ pending_lease[c] # None
  BY IndInvParts DEF Upgrade, HandshakeFails, MayFail, LeasesFollowPhases
<1>2. /\ PoolOK(pending') /\ Exact(pending', pending_lease')
      /\ pending_lease' \in [Conns -> Lease \cup {None}] /\ pending_lease'[c] = None
      /\ \A d \in Conns \ {c} : pending_lease'[d] = pending_lease[d]
      /\ pending'.total <= PendingLimit
      /\ \A s \in QuotaSources : Count(pending'.counts, s) <= PendingSourceLimit
  BY <1>1, DropPendingAccount
<1>3. \/ /\ phase' = [phase EXCEPT ![c] = "open"] /\ active_lease[c] # None
         /\ route' = route /\ source_ip' = source_ip
      \/ /\ phase' = [phase EXCEPT ![c] = "closing"] /\ active_lease[c] # None
         /\ route' = [route EXCEPT ![c] = @] /\ source_ip' = [source_ip EXCEPT ![c] = @]
      \/ /\ phase' = [phase EXCEPT ![c] = "closed"] /\ active_lease[c] = None
         /\ route' = [route EXCEPT ![c] = None] /\ source_ip' = [source_ip EXCEPT ![c] = None]
  BY IndInvParts DEF Upgrade, HandshakeFails, KeepsActive, LeasesFollowPhases
<1>4. TypeOK'
  BY IndInvParts, <1>1, <1>2, <1>3, TypeParts DEF Phases
<1>5. Exact(pending, pending_lease)' /\ Exact(active, active_lease)'
  BY IndInvParts, <1>1, <1>2
<1>6. LeasesFollowPhases'
  BY IndInvParts, <1>1, <1>2, <1>3 DEF LeasesFollowPhases
<1>7. Bounded'
  BY IndInvParts, <1>1, <1>2 DEF Bounded
<1>8. WaysKnown'
  BY IndInvParts, <1>1, <1>3 DEF WaysKnown
<1> QED
  BY <1>4, <1>5, <1>6, <1>7, <1>8 DEF IndInv

LEMMA ClosePreserves ==
  ASSUME IndInv, NEW c \in Conns, Close(c)
  PROVE  IndInv'
<1>1. /\ phase[c] \in {"open", "closing"} /\ active_lease[c] # None
      /\ active' = Released(active, active_lease[c])
      /\ active_lease' = Returned(active_lease, c)
      /\ phase' = [phase EXCEPT ![c] = "closed"]
      /\ route' = [route EXCEPT ![c] = None]
      /\ source_ip' = [source_ip EXCEPT ![c] = None]
      /\ pending' = pending /\ pending_lease' = pending_lease
  BY IndInvParts DEF Close, Returned, LeasesFollowPhases
<1>2. /\ PoolOK(Released(active, active_lease[c]))
      /\ Exact(Released(active, active_lease[c]), Returned(active_lease, c))
      /\ Returned(active_lease, c) \in [Conns -> Lease \cup {None}]
      /\ Returned(active_lease, c)[c] = None
      /\ Released(active, active_lease[c]).total = active.total - 1
      /\ \A s \in QuotaSources :
           Count(Released(active, active_lease[c]).counts, s) <= Count(active.counts, s)
  BY IndInvParts, <1>1, ReleaseKeepsAccount
<1>3. \A d \in Conns \ {c} : active_lease'[d] = active_lease[d]
  BY IndInvParts, <1>1 DEF Returned
<1>4. TypeOK'
  BY IndInvParts, <1>1, <1>2, TypeParts DEF Phases
<1>5. Exact(pending, pending_lease)' /\ Exact(active, active_lease)'
  BY IndInvParts, <1>1, <1>2
<1>6. LeasesFollowPhases'
  BY IndInvParts, <1>1, <1>2, <1>3 DEF LeasesFollowPhases
<1>7. Bounded'
  <2>1. active'.total <= ActiveLimit
    BY IndInvParts, <1>1, <1>2, LimitsAreNumbers DEF Bounded, PoolOK
  <2>2. ASSUME NEW s \in QuotaSources, ActiveSourceLimit # None
        PROVE  Count(active'.counts, s) <= ActiveSourceLimit
    <3>1. /\ Count(active.counts, s) <= ActiveSourceLimit
          /\ Count(active.counts, s) \in Nat /\ ActiveSourceLimit \in Nat
      BY IndInvParts, <2>2, LimitsAreNumbers DEF Bounded, PoolOK, Count
    <3>2. Count(active'.counts, s) \in Nat
      BY <1>1, <1>2 DEF PoolOK, Count
    <3> QED
      BY <3>1, <3>2, <1>1, <1>2
  <2> QED
    BY <2>1, <2>2, IndInvParts, <1>1 DEF Bounded
<1>8. WaysKnown'
  BY IndInvParts, <1>1 DEF WaysKnown
<1> QED
  BY <1>4, <1>5, <1>6, <1>7, <1>8 DEF IndInv

LEMMA StepPreserves ==
  ASSUME IndInv, [Next]_vars
  PROVE  IndInv'
<1>1. CASE UNCHANGED vars
  BY <1>1
  DEF IndInv, vars, TypeOK, LeasesFollowPhases, Bounded, WaysKnown, Exact, Holders, HoldersOf,
      Count
<1>2. CASE Next
  BY <1>2, AcceptPreserves, ResolvePreserves, RefusePreserves, AdmitPreserves,
     HandshakeEndPreserves, ClosePreserves DEF Next
<1> QED
  BY <1>1, <1>2

LEMMA Inductive == Spec => []IndInv
BY InitEstablishes, StepPreserves, PTL DEF Spec

-----------------------------------------------------------------------------
\* No order of accepting, resolving, refusing, failing and closing loses a place
\* of a pool or gives one back twice: the counters of connection_guard.rs are
\* the leases that exist.
THEOREM PoolsAreExact == Spec => []LeasesAreExact
<1>1. IndInv => LeasesAreExact
  <2> SUFFICES ASSUME IndInv PROVE LeasesAreExact
    OBVIOUS
  <2>1. /\ PendingHolders = Holders(pending_lease) /\ ActiveHolders = Holders(active_lease)
        /\ \A s : /\ PendingOf(s) = HoldersOf(pending_lease, s)
                  /\ ActiveOf(s) = HoldersOf(active_lease, s)
    BY DEF PendingHolders, ActiveHolders, PendingOf, ActiveOf, Holders, HoldersOf
  <2>2. ASSUME NEW pool, NEW lease, PoolOK(pool), Exact(pool, lease), NEW s \in DOMAIN pool.counts
        PROVE  HoldersOf(lease, s) # {}
    <3>1. Count(pool.counts, s) \in Nat \ {0} /\ s \in QuotaSources
      BY <2>2 DEF PoolOK, Count
    <3>2. Cardinality(HoldersOf(lease, s)) # 0
      BY <2>2, <3>1 DEF Exact
    <3> QED
      BY <3>2, FS_EmptySet
  <2>3. CountsMatchLeases
    BY <2>1, <2>2, IndInvParts DEF CountsMatchLeases, Exact
  <2> QED
    BY <2>3, IndInvParts DEF IndInv, LeasesAreExact
<1> QED
  BY <1>1, Inductive, PTL

\* The limits of both pools, and of a source in them, hold at every moment,
\* between the two critical sections of a handshake too.
THEOREM LimitsHold == Spec => []WithinLimits
<1>1. IndInv => WithinLimits
  <2> SUFFICES ASSUME IndInv PROVE WithinLimits
    OBVIOUS
  <2>1. /\ PendingHolders = Holders(pending_lease) /\ ActiveHolders = Holders(active_lease)
        /\ \A s : /\ PendingOf(s) = HoldersOf(pending_lease, s)
                  /\ ActiveOf(s) = HoldersOf(active_lease, s)
    BY DEF PendingHolders, ActiveHolders, PendingOf, ActiveOf, Holders, HoldersOf
  <2>2. ASSUME NEW s \in QuotaSources
        PROVE  /\ Cardinality(PendingOf(s)) <= PendingSourceLimit
               /\ ActiveSourceLimit # None => Cardinality(ActiveOf(s)) <= ActiveSourceLimit
    BY <2>1, IndInvParts DEF Exact, Bounded
  <2>3. ASSUME NEW s \in QuotaSources, PerSource # None, MaxConnections > 1
        PROVE  Cardinality(ActiveOf(s)) < ActiveLimit
    <3>1. Cardinality(ActiveOf(s)) \in Nat
      BY <2>1, HoldersAreFinite, FS_CardinalityType
    <3> QED
      BY <2>2, <2>3, <3>1, LimitsAreNumbers
  <2>4. Cardinality(PendingHolders) <= PendingLimit /\ Cardinality(ActiveHolders) <= ActiveLimit
    BY <2>1, IndInvParts DEF Exact, Bounded
  <2>5. ASSUME NEW s \in QuotaSources, PendingSourceLimit < PendingLimit
        PROVE  Cardinality(PendingOf(s)) < PendingLimit
    <3>1. Cardinality(PendingOf(s)) \in Nat
      BY <2>1, HoldersAreFinite, FS_CardinalityType
    <3> QED
      BY <2>2, <2>5, <3>1, LimitsAreNumbers
  <2> QED
    BY <2>2, <2>3, <2>4, <2>5 DEF WithinLimits
<1> QED
  BY <1>1, Inductive, PTL

\* The client past the resolution: what a step does to the one connection it is of.
LEMMA ChargedStep ==
  ASSUME IndInv, ChargedToClient, Next
  PROVE  ChargedToClient'
<1> DEFINE Past == {"resolved", "admitted", "open", "closing"}
           Right(d) == quota_source(source_ip[d]) = quota_source(route[d].client)
<1>0. PICK c \in Conns :
        \/ Accept(c) \/ ResolveSource(c) \/ RefuseSource(c) \/ Admit(c)
        \/ RefuseActive(c) \/ Upgrade(c) \/ HandshakeFails(c) \/ Close(c)
  BY DEF Next
<1>1. ASSUME NEW d \in Conns \ {c}
      PROVE  phase'[d] = phase[d] /\ source_ip'[d] = source_ip[d] /\ route'[d] = route[d]
  BY <1>0, IndInvParts
  DEF Accept, ResolveSource, RefuseSource, Admit, RefuseActive, Upgrade, HandshakeFails, Close
<1>2. phase[c] \in Past => Right(c)
  BY DEF ChargedToClient
<1>3. phase'[c] \in Past => Right(c)'
  <2>1. CASE Accept(c) \/ RefuseSource(c) \/ RefuseActive(c) \/ Close(c)
    BY <2>1, IndInvParts DEF Accept, RefuseSource, RefuseActive, Close
  <2>2. CASE Admit(c) \/ Upgrade(c)
    BY <2>2, <1>2, IndInvParts DEF Admit, Upgrade
  <2>3. CASE HandshakeFails(c)
    BY <2>3, <1>2, IndInvParts DEF HandshakeFails, KeepsActive, MayFail, LeasesFollowPhases
  <2>4. CASE ResolveSource(c)
    <3>1. PICK claim \in Claims :
            LET ip == Source(Peer(route[c]), Forwarded(route[c], claim))
            IN /\ phase[c] = "handshake" /\ ip # None
               /\ source_ip' = [source_ip EXCEPT ![c] = ip] /\ route' = route
      BY <2>4 DEF ResolveSource, MayResolve
    <3>2. PICK client \in Clients, r \in Routes : route[c] = By(client, r)
      BY IndInvParts, <3>1 DEF WaysKnown, By
    <3>3. Source(Peer(route[c]), Forwarded(route[c], claim)) = Charged(client, r, claim)
      BY <3>2 DEF Charged, Arriving
    <3>4. Charged(client, r, claim) = canonical(client)
      BY <3>1, <3>3, SourceIsTheClient
    <3>5. quota_source(canonical(client)) = quota_source(client)
      BY QuotaOfCanonical, AdmissionAssumption
    <3>6. source_ip'[c] = canonical(client) /\ route'[c].client = client
      BY <3>1, <3>2, <3>3, <3>4, IndInvParts DEF By
    <3> QED
      BY <3>5, <3>6
  <2> QED
    BY <1>0, <2>1, <2>2, <2>3, <2>4
<1> QED
  BY <1>1, <1>3 DEF ChargedToClient

\* Past the resolution a connection is charged to the client at the far end,
\* whatever headers it sends and however many proxies are on the way; the walk
\* of Admission::source from the nearest proxy cannot be led past the client.
THEOREM ClientIsCharged == Spec => []ChargedToClient
<1>1. Init => ChargedToClient
  BY DEF Init, ChargedToClient
<1>2. ASSUME IndInv, ChargedToClient, [Next]_vars
      PROVE  ChargedToClient'
  BY <1>2, ChargedStep DEF vars, ChargedToClient
<1> QED
  BY <1>1, <1>2, Inductive, PTL DEF Spec
=============================================================================

------------------------- MODULE AnnouncementProofs -------------------------
(***************************************************************************)
(* Proofs about Announcements, for any connections, identities and number  *)
(* of requests.                                                            *)
(***************************************************************************)
EXTENDS Announcements, SequenceTheorems, TLAPS

-----------------------------------------------------------------------------
\* The inductive invariant.

LatestKept ==
  /\ \A id \in Members : latest[id] = session[id]
  /\ \A id \in ClientIds : latest[id] # None => IdOf[latest[id]] = id

\* What the tasks hold: nothing before the commit, the whole introduction until
\* its check.  Who failed the check, or is about to, expects nothing.
Phases ==
  \A c \in Conns :
    /\ step[c] = "idle" => Free(c) /\ ~Current(c)
    /\ step[c] = "committed" =>
         out[c] = None /\ \E v \in Versions : queue[c] = Introduction(c, v)
    /\ step[c] = "stale" => ~Expects(c)
    /\ c \in told => step[c] = "committed" /\ ~Expects(c)

\* The two notices of a new host.
IsHandover(m, h) == h.kind = "host" /\ m = Set(Mute(h.id), h.unmuted)

\* What a change of the lobby leaves to its task, or the rest of it.
Rest(q) ==
  \/ q = <<>>
  \/ \E n \in Notices : n.kind \in {"left", "set", "host"} /\ q = <<n>>
  \/ \E m, h \in Notices : IsHandover(m, h) /\ q = <<m, h>>
  \/ \E l, m, h \in Notices : l.kind = "left" /\ IsHandover(m, h) /\ q = <<l, m, h>>

\* What is left of an introduction.
Greeting(c, q) ==
  \/ \E v \in Versions : q = Introduction(c, v)
  \/ q = <<Roster(None), Joined(c)>>
  \/ q = <<Joined(c)>>

QueueShapes == \A c \in Conns : Rest(queue[c]) \/ Greeting(c, queue[c])

\* A reply goes to the task's own peer; the roster is the last one.
OwnReplies ==
  \A c \in Conns : out[c] # None =>
    /\ out[c].notice.kind \in {"welcome", "roster"} => out[c].to = {c}
    /\ out[c].notice.kind = "roster" => out[c].notice.of \in SUBSET Conns
                                        /\ queue[c] = <<Joined(c)>>

\* k has notice n still to send to c.
InFlight(k, c, n) ==
  \/ out[k] # None /\ c \in out[k].to /\ n = out[k].notice
  \/ n \in ToSet(queue[k]) /\ Meant(k, n, c)

Has(k, n) == (out[k] # None /\ n = out[k].notice) \/ n \in ToSet(queue[k])

\* No notice is ahead of the lobby.
Timely(n) ==
  /\ \A f \in Facts : About(n, f) => VersionIn(n, f) <= version[f]
  /\ n.kind = "host" => n.unmuted <= version[Mute(n.id)]

NothingAhead ==
  /\ \A k \in Conns : \A n : Has(k, n) => Timely(n)
  /\ \A c \in Conns : Expects(c) => \A f \in Facts : peer[c].heard[f] <= version[f]

\* A peer gets one roster.
RosterOnce ==
  \A c \in Conns : Expects(c) /\ (\E n : Has(c, n) /\ n.kind = "roster") => peer[c].listed = {}

\* n says that f has version v.
Says(n, f, v) == About(n, f) /\ VersionIn(n, f) = v

\* c has still to be sent that f has version v.
ToHear(c, f, v) == \E k \in Conns, n \in Notices : InFlight(k, c, n) /\ Says(n, f, v)

\* Whatever is on its way to c about f says that it has version v.
AllSay(c, f, v) == \A k \in Conns : \A n : InFlight(k, c, n) /\ About(n, f) => VersionIn(n, f) = v

\* A fact that nothing older was on its way about can only be overwritten by the
\* same version: then the last is the newest.
NewsComes ==
  \A c \in Conns : Expects(c) =>
    \A f \in Facts :
      /\ peer[c].heard[f] = version[f] \/ ToHear(c, f, version[f])
      /\ f \notin peer[c].raced =>
           /\ peer[c].shown[f] = version[f] \/ ToHear(c, f, version[f])
           /\ AllSay(c, f, version[f])

\* The roster of c has still to be looked up, or is on its way and has d.
RosterShows(c, d) ==
  \/ \E n \in ToSet(queue[c]) : n.kind = "roster"
  \/ out[c] # None /\ out[c].notice.kind = "roster" /\ d \in out[c].notice.of

Meets(c, d) ==
  \/ d \in peer[c].listed \cup peer[c].joined
  \/ RosterShows(c, d)
  \/ \E k \in Conns : InFlight(k, c, Joined(d))

MembersMeeting ==
  \A c, d \in Conns : c # d /\ Expects(c) /\ Announced(d) => Meets(c, d)

\* The last session of id is known to c to have left, or c is about to be told.
Parted(c, id) ==
  \/ latest[id] \in peer[c].left
  \/ \E k \in Conns, n \in Notices : InFlight(k, c, n) /\ n.kind = "left" /\ n.of = latest[id]

\* The sessions c was sent in its roster, or is being sent.
OnRoster(c, d) ==
  \/ d \in peer[c].listed
  \/ out[c] # None /\ out[c].notice.kind = "roster" /\ d \in out[c].notice.of

DeparturesComing ==
  \A c, d \in Conns : Expects(c) /\ OnRoster(c, d) /\ IdOf[d] \notin Members => Parted(c, IdOf[d])

\* c knows, or learns from its RegisterSuccess, that id was unmuted.
KnowsUnmuted(c, id, u) ==
  \/ peer[c].heard[Mute(id)] >= u
  \/ \E n \in Notices : InFlight(c, c, n) /\ n.kind = "welcome" /\ n.versions[Mute(id)] >= u

\* The unmuting is with c before the new host is.
UnmutedFirst ==
  \A k, c \in Conns : Expects(c) =>
    /\ out[k] # None /\ c \in out[k].to /\ out[k].notice.kind = "host" =>
         KnowsUnmuted(c, out[k].notice.id, out[k].notice.unmuted)
    /\ \A h \in Notices : h.kind = "host" /\ queue[k] = <<h>> =>
         \/ KnowsUnmuted(c, h.id, h.unmuted)
         \/ out[k] # None /\ c \in out[k].to /\ out[k].notice = Set(Mute(h.id), h.unmuted)

IndInv ==
  /\ TypeOK /\ LatestKept /\ Phases /\ QueueShapes /\ OwnReplies
  /\ NothingAhead /\ RosterOnce
  /\ NewsComes /\ MembersMeeting /\ DeparturesComing /\ UnmutedFirst

-----------------------------------------------------------------------------
\* Facts, notices and short lists of them.

LEMMA FactsDiffer ==
  /\ Host \in Facts /\ Options \in Facts /\ \A id \in ClientIds : Mute(id) \in Facts
  /\ \A id \in ClientIds : Host # Mute(id)
  /\ \A i, j \in ClientIds : Mute(i) = Mute(j) => i = j
<1>1. /\ Host \in Facts /\ Options \in Facts /\ \A id \in ClientIds : Mute(id) \in Facts
  BY DEF Facts
<1>2. \A id \in ClientIds : Host # Mute(id)
  BY DEF Host, Mute
<1>3. \A i, j \in ClientIds : Mute(i) = Mute(j) => i = j
  BY DEF Mute
<1> QED
  BY <1>1, <1>2, <1>3

LEMMA ShortLists ==
  /\ ToSet(<<>>) = {}
  /\ \A a : ToSet(<<a>>) = {a} /\ <<a>> # <<>>
  /\ \A a, b : ToSet(<<a, b>>) = {a, b} /\ <<a, b>> # <<>> /\ \A x : <<a, b>> # <<x>>
  /\ \A a, b, d : /\ ToSet(<<a, b, d>>) = {a, b, d} /\ <<a, b, d>> # <<>>
                  /\ \A x : <<a, b, d>> # <<x>>
BY DEF ToSet

LEMMA Joins == \A a, b, d : <<a>> \o <<b, d>> = <<a, b, d>>
<1> SUFFICES ASSUME NEW a, NEW b, NEW d
             PROVE  <<a>> \o <<b, d>> = <<a, b, d>>
  OBVIOUS
<1>1. <<a>> \in Seq({a, b, d}) /\ <<b, d>> \in Seq({a, b, d})
  OBVIOUS
<1>2. Len(<<a>>) = 1 /\ Len(<<b, d>>) = 2
  OBVIOUS
<1>3. /\ <<a>> \o <<b, d>> \in Seq({a, b, d})
      /\ Len(<<a>> \o <<b, d>>) = 3
      /\ \A i \in 1..3 : (<<a>> \o <<b, d>>)[i] =
                           IF i <= 1 THEN <<a>>[i] ELSE <<b, d>>[i - 1]
  BY <1>1, <1>2, ConcatProperties
<1>4. PICK t \in Seq({a, b, d}) : t = <<a>> \o <<b, d>>
  BY <1>3
<1>5. Len(t) = 3 /\ t[1] = a /\ t[2] = b /\ t[3] = d
  BY <1>3, <1>4
<1>6. t = <<a, b, d>>
  BY <1>5
<1> QED
  BY <1>4, <1>6

LEMMA ListHeads ==
  /\ \A a : Head(<<a>>) = a /\ Tail(<<a>>) = <<>>
  /\ \A a, b : Head(<<a, b>>) = a /\ Tail(<<a, b>>) = <<b>>
  /\ \A a, b, d : Head(<<a, b, d>>) = a /\ Tail(<<a, b, d>>) = <<b, d>>
OBVIOUS

LEMMA ListsOfNotices ==
  /\ <<>> \in Seq(Notices)
  /\ \A a \in Notices : <<a>> \in Seq(Notices)
  /\ \A a, b \in Notices : <<a, b>> \in Seq(Notices)
  /\ \A a, b, d \in Notices : <<a, b, d>> \in Seq(Notices)
OBVIOUS

\* What a notice is made of.
LEMMA NoticeParts ==
  ASSUME NEW n \in Notices
  PROVE  /\ n.kind \in {"welcome", "roster", "joined", "left", "set", "host"}
         /\ n.kind = "welcome" => n.versions \in Versions
         /\ n.kind = "roster" => n.of \in (SUBSET Conns) \cup {None}
         /\ n.kind \in {"joined", "left"} => n.of \in Conns
         /\ n.kind = "left" => n.version \in Nat
         /\ n.kind \in {"set", "host"} => n.fact \in Facts /\ n.version \in Nat
         /\ n.kind = "host" => n.fact = Host /\ n.id \in ClientIds /\ n.unmuted \in Nat
<1>1. CASE n \in [kind: {"welcome"}, versions: Versions]
  BY <1>1
<1>2. CASE n \in [kind: {"roster"}, of: (SUBSET Conns) \cup {None}]
  BY <1>2
<1>3. CASE n \in [kind: {"joined"}, of: Conns] \cup [kind: {"left"}, of: Conns, version: Nat]
  BY <1>3
<1>4. CASE n \in [kind: {"set"}, fact: Facts, version: Nat]
  BY <1>4
<1>5. CASE n \in [kind: {"host"}, fact: {Host}, version: Nat, id: ClientIds, unmuted: Nat]
  BY <1>5, FactsDiffer
<1> QED
  BY <1>1, <1>2, <1>3, <1>4, <1>5 DEF Notices

LEMMA OfKind ==
  /\ \A v : Welcome(v).kind = "welcome" /\ Welcome(v).versions = v
  /\ \A ds : Roster(ds).kind = "roster" /\ Roster(ds).of = ds
  /\ \A c : Joined(c).kind = "joined" /\ Joined(c).of = c
  /\ \A c, v : Left(c, v).kind = "left" /\ Left(c, v).of = c /\ Left(c, v).version = v
  /\ \A f, v : Set(f, v).kind = "set" /\ Set(f, v).fact = f /\ Set(f, v).version = v
  /\ \A id, v : /\ HostSet(id, v).kind = "host" /\ HostSet(id, v).fact = Host
                /\ HostSet(id, v).version = v.host
                /\ HostSet(id, v).id = id /\ HostSet(id, v).unmuted = v.mute
BY DEF Welcome, Roster, Joined, Left, Set, HostSet

LEMMA NoticesMade ==
  /\ \A v \in Versions : Welcome(v) \in Notices
  /\ \A ds \in (SUBSET Conns) \cup {None} : Roster(ds) \in Notices
  /\ \A c \in Conns : Joined(c) \in Notices
  /\ \A c \in Conns, v \in Nat : Left(c, v) \in Notices
  /\ \A f \in Facts, v \in Nat : Set(f, v) \in Notices
<1>1. \A v \in Versions : Welcome(v) \in Notices
  BY DEF Welcome, Notices
<1>2. \A ds \in (SUBSET Conns) \cup {None} : Roster(ds) \in Notices
  BY DEF Roster, Notices
<1>3. /\ \A c \in Conns : Joined(c) \in Notices
      /\ \A c \in Conns, v \in Nat : Left(c, v) \in Notices
  BY DEF Joined, Left, Notices
<1>4. \A f \in Facts, v \in Nat : Set(f, v) \in Notices
  BY DEF Set, Notices
<1> QED
  BY <1>1, <1>2, <1>3, <1>4

LEMMA HandoverMade ==
  ASSUME NEW id \in ClientIds, NEW v \in Versions
  PROVE  \E m, h \in Notices :
           /\ Handover(id, v) = <<m, h>> /\ IsHandover(m, h)
           /\ m = Set(Mute(id), v[Mute(id)])
           /\ h.fact = Host /\ h.version = v[Host] /\ h.id = id /\ h.unmuted = v[Mute(id)]
<1> DEFINE m == Set(Mute(id), v[Mute(id)])
           h == HostSet(id, [host |-> v[Host], mute |-> v[Mute(id)]])
<1>1. v[Host] \in Nat /\ v[Mute(id)] \in Nat
  BY FactsDiffer DEF Versions
<1>2. h = [kind |-> "host", fact |-> Host, version |-> v[Host], id |-> id, unmuted |-> v[Mute(id)]]
  BY DEF HostSet
<1>3. h \in Notices
  BY <1>1, <1>2 DEF Notices
<1>4. m \in Notices
  BY <1>1, FactsDiffer, NoticesMade
<1>5. h.kind = "host" /\ h.fact = Host /\ h.version = v[Host] /\ h.id = id /\ h.unmuted = v[Mute(id)]
  BY <1>2
<1>6. Handover(id, v) = <<m, h>>
  BY DEF Handover
<1> HIDE DEF m, h
<1>7. m = Set(Mute(id), v[Mute(id)])
  BY DEF m
<1> QED
  BY <1>3, <1>4, <1>5, <1>6, <1>7 DEF IsHandover

\* What a notice says of a fact it is about.
LEMMA VersionsSaid ==
  ASSUME NEW n \in Notices, NEW f \in Facts, About(n, f)
  PROVE  VersionIn(n, f) \in Nat
<1>1. CASE n.kind = "welcome"
  BY <1>1, NoticeParts DEF VersionIn, Versions
<1>2. CASE n.kind # "welcome"
  <2>1. n.kind \in {"set", "host", "left"}
    BY <1>2 DEF About
  <2> QED
    BY <1>2, <2>1, NoticeParts DEF VersionIn
<1> QED
  BY <1>1, <1>2

\* What a peer has after it was sent n.
LEMMA AfterIs ==
  ASSUME NEW p \in Peers, NEW n \in Notices, n.kind = "roster" => n.of \in SUBSET Conns
  PROVE  /\ After(p, n) \in Peers
         /\ \A f \in Facts : About(n, f) =>
              /\ After(p, n).heard[f] >= p.heard[f] /\ After(p, n).heard[f] >= VersionIn(n, f)
              /\ After(p, n).heard[f] \in {p.heard[f], VersionIn(n, f)}
              /\ After(p, n).shown[f] = VersionIn(n, f)
         /\ \A f \in Facts : ~About(n, f) =>
              After(p, n).heard[f] = p.heard[f] /\ After(p, n).shown[f] = p.shown[f]
         /\ After(p, n).raced = p.raced
         /\ After(p, n).listed = IF n.kind = "roster" THEN n.of ELSE p.listed
         /\ After(p, n).joined = IF n.kind = "joined" THEN p.joined \cup {n.of} ELSE p.joined
         /\ After(p, n).left = IF n.kind = "left" THEN p.left \cup {n.of} ELSE p.left
<1> DEFINE g == [f \in Facts |-> IF About(n, f) THEN Newer(VersionIn(n, f), p.heard[f])
                                 ELSE p.heard[f]]
           s == [f \in Facts |-> IF About(n, f) THEN VersionIn(n, f) ELSE p.shown[f]]
           ls == IF n.kind = "roster" THEN n.of ELSE p.listed
           js == IF n.kind = "joined" THEN p.joined \cup {n.of} ELSE p.joined
           ds == IF n.kind = "left" THEN p.left \cup {n.of} ELSE p.left
<1>0. /\ p.heard \in [Facts -> Nat] /\ p.shown \in [Facts -> Nat] /\ p.raced \in SUBSET Facts
      /\ p.listed \in SUBSET Conns /\ p.joined \in SUBSET Conns /\ p.left \in SUBSET Conns
  BY DEF Peers, Versions
<1>1. \A f \in Facts : About(n, f) => VersionIn(n, f) \in Nat
  BY VersionsSaid
<1>2. \A f \in Facts : About(n, f) =>
        /\ g[f] \in Nat /\ g[f] >= p.heard[f] /\ g[f] >= VersionIn(n, f)
        /\ g[f] \in {p.heard[f], VersionIn(n, f)} /\ s[f] = VersionIn(n, f)
  BY <1>0, <1>1 DEF Newer
<1>3. \A f \in Facts : ~About(n, f) => g[f] = p.heard[f] /\ s[f] = p.shown[f]
  OBVIOUS
<1>4. g \in [Facts -> Nat] /\ s \in [Facts -> Nat]
  <2>1. \A f \in Facts : (IF About(n, f) THEN Newer(VersionIn(n, f), p.heard[f]) ELSE p.heard[f]) \in Nat
    BY <1>0, <1>1 DEF Newer
  <2>2. \A f \in Facts : (IF About(n, f) THEN VersionIn(n, f) ELSE p.shown[f]) \in Nat
    BY <1>0, <1>1
  <2> QED
    BY <2>1, <2>2
<1>5. ls \in SUBSET Conns /\ js \in SUBSET Conns /\ ds \in SUBSET Conns
  BY <1>0, NoticeParts
<1>6. After(p, n) = [heard |-> g, shown |-> s, raced |-> p.raced,
                     listed |-> ls, joined |-> js, left |-> ds]
  BY DEF After
<1> HIDE DEF g, s, ls, js, ds
<1>7. /\ After(p, n) \in Peers /\ After(p, n).heard = g /\ After(p, n).shown = s
      /\ After(p, n).raced = p.raced
      /\ After(p, n).listed = ls /\ After(p, n).joined = js /\ After(p, n).left = ds
  BY <1>0, <1>4, <1>5, <1>6 DEF Peers, Versions
<1> QED
  BY <1>2, <1>3, <1>7 DEF ls, js, ds

\* A fact that is not overtaken: what is on its way about it is up to date.
LEMMA NotOvertaken ==
  ASSUME NEW c \in Conns, NEW v, NEW f \in Facts \ Overtaken(c, v)
  PROVE  AllSay(c, f, v[f])
<1> SUFFICES ASSUME NEW k \in Conns, NEW n, InFlight(k, c, n), About(n, f), VersionIn(n, f) # v[f]
             PROVE  FALSE
  BY DEF AllSay
<1>1. \/ out[k] # None /\ c \in out[k].to /\ About(out[k].notice, f)
         /\ VersionIn(out[k].notice, f) # v[f]
      \/ n \in ToSet(queue[k]) /\ About(n, f) /\ VersionIn(n, f) # v[f] /\ Meant(k, n, c)
  BY DEF InFlight
<1>2. f \in Overtaken(c, v)
  BY <1>1 DEF Overtaken, Coming
<1> QED
  BY <1>2

-----------------------------------------------------------------------------
\* Init and the steps.

LEMMA InitEstablishes == Init => IndInv
<1> SUFFICES ASSUME Init PROVE IndInv
  OBVIOUS
<1>0. /\ \A c \in Conns : step[c] = "idle" /\ queue[c] = <<>> /\ out[c] = None /\ peer[c] = None
      /\ told = {} /\ Members = {} /\ host = None /\ \A id \in ClientIds : session[id] = None
  BY DEF Init, Members
<1>1. TypeOK
  <2>1. queue \in [Conns -> Seq(Notices)]
    BY ListsOfNotices DEF Init
  <2> QED
    BY <1>0, <2>1 DEF Init, TypeOK, Versions, Expects
<1>2. LatestKept /\ Phases
  <2>1. \A id \in ClientIds : latest[id] = None
    BY DEF Init
  <2> QED
    BY <1>0, <2>1, IdOfAssumption DEF LatestKept, Phases, Free, Current
<1>3. QueueShapes /\ OwnReplies /\ UnmutedFirst
  BY <1>0 DEF QueueShapes, Rest, OwnReplies, UnmutedFirst, Expects
<1>4. NothingAhead /\ RosterOnce
  BY <1>0, ShortLists DEF NothingAhead, RosterOnce, Has, Expects
<1>5. NewsComes /\ MembersMeeting /\ DeparturesComing
  BY <1>0 DEF NewsComes, MembersMeeting, DeparturesComing, Expects
<1> QED
  BY <1>1, <1>2, <1>3, <1>4, <1>5 DEF IndInv

\* Only members expect notices, each by its own identity.
LEMMA ExpectingAreMembers ==
  ASSUME TypeOK
  PROVE  /\ \A c \in Conns : Expects(c) => IdOf[c] \in Members /\ session[IdOf[c]] = c
         /\ \A c, d \in Conns : Current(c) /\ Current(d) /\ c # d => IdOf[c] # IdOf[d]
BY IdOfAssumption DEF TypeOK, Current, Members

\* The list q has the PlayerLeft of session c; it says that f has version v.
Bids(q, c) == \E n \in Notices : n \in ToSet(q) /\ n.kind = "left" /\ n.of = c
Tells(q, f, v) == \E n \in Notices : n \in ToSet(q) /\ Says(n, f, v)

\* What a change leaves to its task is news of it, and for who is still there.
UpToDate(n) ==
  /\ \A f \in Facts : About(n, f) => VersionIn(n, f) = version[f]
  /\ n.kind = "host" => n.unmuted <= version[Mute(n.id)]
  /\ n.kind = "left" => IdOf[n.of] \notin Members

\* p is the record of c, with no fact kept out of its races that has one when the
\* facts change to v.
SamePeer(c, p, v) ==
  /\ peer[c] # None /\ peer[c] \in Peers /\ p \in Peers
  /\ p.heard = peer[c].heard /\ p.shown = peer[c].shown
  /\ p.listed = peer[c].listed /\ p.joined = peer[c].joined /\ p.left = peer[c].left
  /\ \A f \in Facts : f \notin p.raced =>
       IF v[f] = version[f] THEN f \notin peer[c].raced ELSE AllSay(c, f, v[f])

LEMMA RacingIs ==
  ASSUME TypeOK, NEW v, NEW c \in Conns
  PROVE  /\ Racing(v)[c] \in Peers \cup {None}
         /\ Racing(v)[c] = None \/ SamePeer(c, Racing(v)[c], v)
<1>1. CASE peer[c] = None
  BY <1>1 DEF Racing
<1>2. CASE peer[c] # None
  <2>1. PICK p \in Peers : p = peer[c]
    BY <1>2 DEF TypeOK
  <2>2. PICK rs \in SUBSET Facts : rs = {f \in p.raced : v[f] = version[f]} \cup Overtaken(c, v)
    BY <2>1 DEF Peers, Overtaken
  <2>3. Racing(v)[c] = [p EXCEPT !.raced = rs]
    BY <1>2, <2>1, <2>2 DEF Racing
  <2>4. PICK r \in Peers : r = [p EXCEPT !.raced = rs]
    BY <2>1, <2>2 DEF Peers
  <2>5. /\ r.raced = rs /\ r.heard = p.heard /\ r.shown = p.shown
        /\ r.listed = p.listed /\ r.joined = p.joined /\ r.left = p.left
    BY <2>1, <2>2, <2>4 DEF Peers
  <2>6. \A f \in Facts : f \notin rs => AllSay(c, f, v[f])
    BY <2>2, NotOvertaken
  <2>7. \A f \in Facts : f \notin rs /\ v[f] = version[f] => f \notin p.raced
    BY <2>2
  <2>8. SamePeer(c, r, v)
    BY <1>2, <2>1, <2>5, <2>6, <2>7 DEF SamePeer
  <2>9. Racing(v)[c] = r
    BY <2>3, <2>4
  <2> HIDE DEF SamePeer
  <2> QED
    BY <2>8, <2>9
<1> QED
  BY <1>1, <1>2

\* A task that has nothing left to send changes the lobby, or ends, and queues
\* the news of it.
LEMMA ChangePreserves ==
  ASSUME IndInv, TypeOK', NEW k \in Conns, Free(k), step[k] \in {"live", "stale"},
         NEW q \in Seq(Notices), Rest(q), q = <<>> \/ \A n \in Notices : n.kind = "host" => q # <<n>>,
         queue' = [queue EXCEPT ![k] = q], UNCHANGED <<latest, out, told>>,
         \A c \in Conns \ {k} : step'[c] = step[c],
         step'[k] = step[k] \/ (step'[k] = "gone" /\ ~Current(k)'),
         \A id \in ClientIds : \/ session'[id] = session[id]
                               \/ session'[id] = None /\ Bids(q, session[id]),
         \A c \in Conns : peer'[c] = None \/ SamePeer(c, peer'[c], version'),
         \A f \in Facts : version'[f] = version[f] \/ (version'[f] > version[f] /\ Tells(q, f, version'[f])),
         \A n \in ToSet(q) : UpToDate(n)'
  PROVE  IndInv'
<1>0. /\ TypeOK /\ TypeOK' /\ queue[k] = <<>> /\ out[k] = None
      /\ queue'[k] = q /\ \A c \in Conns \ {k} : queue'[c] = queue[c]
  BY DEF IndInv, Free, TypeOK
<1>1. /\ \A n \in ToSet(q) : n.kind \in {"left", "set", "host"}
      /\ \A j \in Conns : \A c, n : InFlight(j, c, n) => InFlight(j, c, n)'
      /\ \A c \in Conns, n \in ToSet(q) : Expects(c)' => InFlight(k, c, n)'
      /\ \A j \in Conns : \A c, n : InFlight(j, c, n)' => InFlight(j, c, n) \/ n \in ToSet(q)
      /\ \A j \in Conns : \A n : Has(j, n)' => Has(j, n) \/ n \in ToSet(q)
  <2>1. \A n \in ToSet(q) : n.kind \in {"left", "set", "host"}
    BY ShortLists, OfKind DEF Rest, IsHandover
  <2>2. ToSet(queue[k]) = {}
    BY <1>0, ShortLists
  <2>3. \A j \in Conns : \A c, n : InFlight(j, c, n) => InFlight(j, c, n)'
    BY <1>0, <2>2 DEF InFlight
  <2>4. ASSUME NEW c \in Conns, NEW n \in ToSet(q), Expects(c)'
        PROVE  InFlight(k, c, n)'
    <3>1. IdOf[c] \in Members'
      BY <2>4, <1>0, IdOfAssumption DEF TypeOK, Current, Members
    <3>2. n.kind = "left" => IdOf[n.of] \notin Members'
      BY <2>4 DEF UpToDate
    <3>3. Meant(k, n, c)
      BY <2>1, <3>1, <3>2 DEF Meant
    <3> QED
      BY <3>3, <1>0 DEF InFlight, Meant
  <2>6. \A j \in Conns : \A c, n : InFlight(j, c, n)' => InFlight(j, c, n) \/ n \in ToSet(q)
    BY <1>0 DEF InFlight, Meant
  <2>5. \A j \in Conns : \A n : Has(j, n)' => Has(j, n) \/ n \in ToSet(q)
    BY <1>0 DEF Has
  <2> QED
    BY <2>1, <2>3, <2>4, <2>5, <2>6
<1>2. /\ Members' \subseteq Members
      /\ \A c \in Conns : Current(c)' => Current(c)
      /\ \A c \in Conns : Expects(c)' =>
           /\ Expects(c) /\ peer[c] \in Peers
           /\ peer'[c].heard = peer[c].heard /\ peer'[c].shown = peer[c].shown
           /\ peer'[c].listed = peer[c].listed /\ peer'[c].joined = peer[c].joined
           /\ peer'[c].left = peer[c].left
           /\ \A f \in Facts : f \notin peer'[c].raced =>
                IF version'[f] = version[f] THEN f \notin peer[c].raced
                ELSE AllSay(c, f, version'[f])
  <2>1. Members' \subseteq Members
    BY DEF Members
  <2>2. \A c \in Conns : Current(c)' => Current(c)
    BY IdOfAssumption DEF Current
  <2>3. \A c \in Conns : Expects(c)' => SamePeer(c, peer'[c], version')
    BY DEF Expects
  <2> QED
    BY <2>1, <2>2, <2>3 DEF SamePeer, Expects
<1>3. LatestKept'
  BY <1>2 DEF IndInv, LatestKept, Members
<1>4. Phases'
  <2> SUFFICES ASSUME NEW c \in Conns
               PROVE  /\ step'[c] = "idle" => Free(c)' /\ ~Current(c)'
                      /\ step'[c] = "committed" =>
                           out'[c] = None /\ \E v \in Versions : queue'[c] = Introduction(c, v)
                      /\ step'[c] = "stale" => ~Expects(c)'
                      /\ c \in told' => step'[c] = "committed" /\ ~Expects(c)'
    BY DEF Phases, Introduction
  <2>1. /\ step[c] = "idle" => Free(c) /\ ~Current(c)
        /\ step[c] = "committed" =>
             out[c] = None /\ \E v \in Versions : queue[c] = Introduction(c, v)
        /\ step[c] = "stale" => ~Expects(c)
        /\ c \in told => step[c] = "committed" /\ ~Expects(c)
    BY DEF IndInv, Phases
  <2> QED
    BY <2>1, <1>0, <1>2 DEF Free
<1>5. QueueShapes' /\ OwnReplies'
  <2>1. QueueShapes'
    <3>1. \A c \in Conns : Rest(queue[c]) \/ Greeting(c, queue[c])
      BY DEF IndInv, QueueShapes
    <3>2. \A c \in Conns : Rest(queue'[c]) \/ Greeting(c, queue'[c])
      BY <1>0, <3>1
    <3> QED
      BY <3>2 DEF QueueShapes, Rest, Greeting, Introduction, IsHandover
  <2>2. OwnReplies'
    BY <1>0 DEF IndInv, OwnReplies
  <2> QED
    BY <2>1, <2>2
<1>6. \A f \in Facts : version[f] \in Nat /\ version'[f] \in Nat /\ version'[f] >= version[f]
  <2>1. version \in [Facts -> Nat] /\ version' \in [Facts -> Nat]
    BY <1>0 DEF TypeOK, Versions
  <2>2. \A f \in Facts : version'[f] = version[f] \/ version'[f] > version[f]
    OBVIOUS
  <2> QED
    BY <2>1, <2>2
<1>7. NothingAhead'
  <2>1. ASSUME NEW j \in Conns, NEW n, Has(j, n)
        PROVE  Timely(n)'
    <3>1. Timely(n) /\ n \in Notices
      BY <2>1, <1>0 DEF IndInv, NothingAhead, Has, TypeOK, Sendings, ToSet
    <3> QED
      BY <3>1, <1>6, VersionsSaid, NoticeParts, FactsDiffer DEF Timely, About, VersionIn, Mute
  <2>2. \A c \in Conns : Expects(c)' => \A f \in Facts : peer'[c].heard[f] <= version'[f]
    <3> SUFFICES ASSUME NEW c \in Conns, Expects(c)', NEW f \in Facts
                 PROVE  peer'[c].heard[f] <= version'[f]
      OBVIOUS
    <3>1. /\ peer'[c].heard = peer[c].heard /\ peer[c].heard[f] <= version[f]
          /\ peer[c].heard[f] \in Nat
      BY <1>0, <1>2 DEF IndInv, NothingAhead, TypeOK, Expects, Peers, Versions
    <3> QED
      BY <3>1, <1>6
  <2>3. \A n \in ToSet(q) : Timely(n)'
    BY <1>6 DEF UpToDate, Timely
  <2> QED
    BY <2>1, <2>2, <2>3, <1>1 DEF NothingAhead
<1>8. RosterOnce'
  BY <1>1, <1>2 DEF IndInv, RosterOnce
<1>9. NewsComes'
  <2> SUFFICES ASSUME NEW c \in Conns, Expects(c)', NEW f \in Facts
               PROVE  /\ peer'[c].heard[f] = version'[f] \/ ToHear(c, f, version[f])'
                      /\ f \notin peer'[c].raced =>
                           /\ peer'[c].shown[f] = version'[f] \/ ToHear(c, f, version[f])'
                           /\ AllSay(c, f, version[f])'
    BY DEF NewsComes
  <2>0. PICK v \in Nat : v = version'[f]
    BY <1>6
  <2>1. ASSUME AllSay(c, f, v)
        PROVE  AllSay(c, f, v)'
    <3> SUFFICES ASSUME NEW j \in Conns, NEW n, InFlight(j, c, n)', About(n, f)
                 PROVE  VersionIn(n, f) = v
      BY DEF AllSay, About, VersionIn, Mute
    <3>1. CASE InFlight(j, c, n)
      BY <2>1, <3>1 DEF AllSay
    <3>2. CASE n \in ToSet(q)
      BY <3>2, <2>0 DEF UpToDate, About, VersionIn, Mute
    <3> QED
      BY <3>1, <3>2, <1>1
  <2>2. CASE version'[f] = version[f]
    <3>1. ToHear(c, f, v) => ToHear(c, f, v)'
      BY <1>1 DEF ToHear, Says, About, VersionIn, Mute
    <3>2. /\ peer[c].heard[f] = v \/ ToHear(c, f, v)
          /\ f \notin peer[c].raced =>
               /\ peer[c].shown[f] = v \/ ToHear(c, f, v)
               /\ AllSay(c, f, v)
      BY <2>0, <2>2, <1>2 DEF IndInv, NewsComes
    <3> QED
      BY <2>0, <2>1, <2>2, <3>1, <3>2, <1>2
  <2>3. CASE version'[f] # version[f]
    <3>1. Tells(q, f, v)
      BY <2>0, <2>3
    <3>2. ToHear(c, f, v)'
      BY <3>1, <1>1 DEF Tells, ToHear, Says, About, VersionIn, Mute
    <3>3. f \notin peer'[c].raced => AllSay(c, f, v)
      BY <2>0, <2>3, <1>2
    <3> QED
      BY <2>0, <2>1, <3>2, <3>3
  <2> QED
    BY <2>2, <2>3
<1>10. MembersMeeting'
  <2> SUFFICES ASSUME NEW c \in Conns, NEW d \in Conns, c # d, Expects(c)', Announced(d)'
               PROVE  Meets(c, d)'
    BY DEF MembersMeeting
  <2>1. Announced(d)
    BY <1>0, <1>2 DEF Announced
  <2>2. Meets(c, d)
    BY <2>1, <1>2 DEF IndInv, MembersMeeting
  <2>3. RosterShows(c, d) => RosterShows(c, d)'
    BY <1>0, ShortLists DEF RosterShows
  <2> QED
    BY <2>2, <2>3, <1>1, <1>2 DEF Meets, Joined
<1>11. DeparturesComing'
  <2> SUFFICES ASSUME NEW c \in Conns, NEW d \in Conns, Expects(c)', OnRoster(c, d)',
                      IdOf[d] \notin Members'
               PROVE  Parted(c, IdOf[d])'
    BY DEF DeparturesComing
  <2>0. Expects(c) /\ OnRoster(c, d) /\ IdOf[d] \in ClientIds
    BY <1>2, IdOfAssumption DEF OnRoster
  <2>1. CASE IdOf[d] \notin Members
    <3>1. Parted(c, IdOf[d])
      BY <2>0, <2>1 DEF IndInv, DeparturesComing
    <3> QED
      BY <3>1, <1>1, <1>2 DEF Parted
  <2>2. CASE IdOf[d] \in Members
    <3>1. latest[IdOf[d]] = session[IdOf[d]]
      BY <2>2 DEF IndInv, LatestKept
    <3>2. Bids(q, session[IdOf[d]])
      BY <2>0, <2>2 DEF Members
    <3> QED
      BY <3>1, <3>2, <1>1 DEF Parted, Bids
  <2> QED
    BY <2>1, <2>2
<1>12. UnmutedFirst'
  <2>1. ASSUME NEW c \in Conns, Expects(c)', NEW id, NEW u, KnowsUnmuted(c, id, u)
        PROVE  KnowsUnmuted(c, id, u)'
    BY <2>1, <1>1, <1>2 DEF KnowsUnmuted, Mute
  <2>2. \A h \in Notices : h.kind = "host" => queue'[k] # <<h>>
    BY <1>0, ShortLists
  <2> QED
    BY <2>1, <2>2, <1>0, <1>2 DEF IndInv, UnmutedFirst, Set, Mute
<1> QED
  BY <1>0, <1>3, <1>4, <1>5, <1>7, <1>8, <1>9, <1>10, <1>11, <1>12 DEF IndInv

\* The host's requests about mutes, the role and the options.
LEMMA RequestPreserves ==
  ASSUME IndInv, NEW k \in Conns,
         \/ \E id \in ClientIds : \/ TransferHost(k, id)
                                  \/ \E muted \in BOOLEAN : MutePlayer(k, id, muted)
         \/ SetLobbyOptions(k)
  PROVE  IndInv'
<1>0. /\ TypeOK /\ Free(k) /\ step[k] = "live" /\ version \in [Facts -> Nat]
      /\ UNCHANGED <<session, latest, step, out, told>> /\ peer' = Racing(version')
  BY DEF IndInv, TypeOK, Versions, TransferHost, MutePlayer, SetLobbyOptions, MayModerate
<1>1. ASSUME NEW q \in Seq(Notices), Rest(q), \A n \in Notices : n.kind = "host" => q # <<n>>,
             queue' = [queue EXCEPT ![k] = q], version' \in [Facts -> Nat],
             host' = host \/ host' \in Members,
             \A f \in Facts : version'[f] = version[f]
                              \/ (version'[f] > version[f] /\ Tells(q, f, version'[f])),
             \A n \in ToSet(q) : UpToDate(n)'
      PROVE  IndInv'
  <2>1. Members' = Members
    BY <1>0 DEF Members
  <2>2. \A c \in Conns : peer'[c] \in Peers \cup {None}
                         /\ (peer'[c] = None \/ SamePeer(c, peer'[c], version'))
    <3>1. PICK v : v = version'
      OBVIOUS
    <3> QED
      BY <3>1, <1>0, RacingIs
  <2>3. peer' \in [Conns -> Peers \cup {None}]
    BY <1>0, <2>2 DEF Racing
  <2>4. \A c \in Conns : Expects(c)' => Current(c)'
    BY <1>0, <2>2 DEF TypeOK, Expects, Current, SamePeer
  <2>5. TypeOK'
    BY <1>0, <1>1, <2>1, <2>3, <2>4 DEF TypeOK, Versions
  <2> QED
    BY <1>0, <1>1, <2>2, <2>5, ChangePreserves
<1>2. ASSUME NEW f \in Facts, version' = Bump(f), host' = host,
             queue' = [queue EXCEPT ![k] = <<Set(f, version'[f])>>]
      PROVE  IndInv'
  <2>1. /\ version' \in [Facts -> Nat] /\ version'[f] = version[f] + 1
        /\ \A g \in Facts : g # f => version'[g] = version[g]
    BY <1>0, <1>2 DEF Bump
  <2>2. PICK n \in Notices : n = Set(f, version'[f])
    BY <2>1, NoticesMade
  <2>3. n.kind = "set" /\ n.fact = f /\ n.version = version'[f]
    BY <2>2, OfKind
  <2>4. <<n>> \in Seq(Notices) /\ Rest(<<n>>) /\ ToSet(<<n>>) = {n}
    BY <2>3, ListsOfNotices, ShortLists DEF Rest
  <2>5. \A m \in Notices : m.kind = "host" => <<n>> # <<m>>
    BY <2>3
  <2>6. Tells(<<n>>, f, version'[f]) /\ UpToDate(n)'
    BY <2>3, <2>4 DEF Tells, Says, About, VersionIn, UpToDate
  <2>7. version[f] \in Nat /\ version'[f] > version[f]
    BY <1>0, <2>1
  <2>8. queue' = [queue EXCEPT ![k] = <<n>>]
    BY <1>2, <2>2
  <2> HIDE DEF Bump
  <2>9. \A g \in Facts : version'[g] = version[g]
                         \/ (version'[g] > version[g] /\ Tells(<<n>>, g, version'[g]))
    BY <2>1, <2>6, <2>7
  <2> QED
    BY <1>1, <1>2, <2>1, <2>4, <2>5, <2>6, <2>8, <2>9
<1>3. ASSUME NEW id \in ClientIds, NEW muted \in BOOLEAN, MutePlayer(k, id, muted)
      PROVE  IndInv'
  BY <1>2, <1>3, FactsDiffer DEF MutePlayer
<1>4. CASE SetLobbyOptions(k)
  BY <1>2, <1>4, FactsDiffer DEF SetLobbyOptions
<1>5. ASSUME NEW id \in ClientIds, TransferHost(k, id)
      PROVE  IndInv'
  <2>1. /\ version' = VersionsWithHost(version, id) /\ host' = id /\ id \in Members
        /\ queue' = [queue EXCEPT ![k] = Handover(id, version')]
    BY <1>5 DEF TransferHost
  <2>2. /\ version' \in [Facts -> Nat] /\ Host \in Facts /\ Mute(id) \in Facts
        /\ version'[Host] = version[Host] + 1 /\ version'[Mute(id)] = version[Mute(id)] + 1
        /\ \A g \in Facts \ {Host, Mute(id)} : version'[g] = version[g]
    BY <1>0, <2>1, FactsDiffer DEF VersionsWithHost
  <2>3. PICK m, h \in Notices :
           /\ Handover(id, version') = <<m, h>> /\ IsHandover(m, h)
           /\ m = Set(Mute(id), version'[Mute(id)])
           /\ h.fact = Host /\ h.version = version'[Host] /\ h.id = id
           /\ h.unmuted = version'[Mute(id)]
    <3>1. PICK v \in Versions : v = version'
      BY <2>2 DEF Versions
    <3> QED
      BY <3>1, HandoverMade
  <2>4. /\ m.kind = "set" /\ m.fact = Mute(id) /\ m.version = version'[Mute(id)]
        /\ h.kind = "host"
    BY <2>3, OfKind DEF IsHandover
  <2>5. /\ <<m, h>> \in Seq(Notices) /\ Rest(<<m, h>>) /\ ToSet(<<m, h>>) = {m, h}
        /\ \A n : <<m, h>> # <<n>>
    BY <2>3, ListsOfNotices, ShortLists DEF Rest
  <2>6. UpToDate(m)' /\ UpToDate(h)'
    BY <2>2, <2>3, <2>4 DEF UpToDate, About, VersionIn, Mute, Host
  <2>7. Tells(<<m, h>>, Mute(id), version'[Mute(id)]) /\ Tells(<<m, h>>, Host, version'[Host])
    BY <2>3, <2>4, <2>5 DEF Tells, Says, About, VersionIn
  <2>8. version'[Host] > version[Host] /\ version'[Mute(id)] > version[Mute(id)]
    BY <1>0, <2>2
  <2>9. \A g \in Facts : version'[g] = version[g]
                         \/ (version'[g] > version[g] /\ Tells(<<m, h>>, g, version'[g]))
    BY <2>2, <2>7, <2>8
  <2>10. queue' = [queue EXCEPT ![k] = <<m, h>>] /\ \A n \in ToSet(<<m, h>>) : UpToDate(n)'
    BY <2>1, <2>3, <2>5, <2>6
  <2> QED
    BY <1>1, <2>1, <2>2, <2>5, <2>9, <2>10
<1> QED
  BY <1>3, <1>4, <1>5

\* A session leaves the lobby, kicked or of itself, and its identity and its mute
\* with it; l is its PlayerLeft.
LEMMA DepartureMoves ==
  ASSUME IndInv, NEW k \in Conns, Free(k), step[k] \in {"live", "stale"},
         NEW id \in Members,
         session' = [session EXCEPT ![id] = None],
         peer' = [Racing(version') EXCEPT ![session[id]] = None],
         UNCHANGED <<latest, out, told>>,
         step' \in [Conns -> {"idle", "committed", "stale", "live", "gone"}],
         \A c \in Conns \ {k} : step'[c] = step[c],
         step'[k] = step[k] \/ (step'[k] = "gone" /\ id = IdOf[k]),
         version' \in Versions,
         IF Members \ {id} = {} THEN host' = None ELSE host' \in Members \ {id},
         NEW q \in Seq(Notices), Rest(q), \A n \in Notices : n.kind = "host" => q # <<n>>,
         queue' = [queue EXCEPT ![k] = q],
         NEW l \in Notices, l = Left(session[id], version'[Mute(id)]),
         version'[Mute(id)] = version[Mute(id)] + 1,
         l \in ToSet(q),
         \A f \in Facts \ {Mute(id)} :
           version'[f] = version[f] \/ (version'[f] > version[f] /\ Tells(q, f, version'[f])),
         \A n \in ToSet(q) \ {l} : UpToDate(n)'
  PROVE  IndInv'
<1>0. /\ TypeOK /\ id \in ClientIds /\ session[id] \in Conns /\ IdOf[session[id]] = id
      /\ None \notin Conns
  BY IdOfAssumption DEF IndInv, TypeOK, Members
<1>1. /\ session' \in [ClientIds -> Conns \cup {None}]
      /\ session'[id] = None /\ \A i \in ClientIds \ {id} : session'[i] = session[i]
      /\ Members' = Members \ {id}
  BY <1>0 DEF TypeOK, Members
<1>2. /\ peer' \in [Conns -> Peers \cup {None}]
      /\ peer'[session[id]] = None
      /\ \A c \in Conns : peer'[c] = None \/ SamePeer(c, peer'[c], version')
  <2>1. PICK v : v = version'
    OBVIOUS
  <2>2. \A c \in Conns : /\ Racing(v)[c] \in Peers \cup {None}
                         /\ Racing(v)[c] = None \/ SamePeer(c, Racing(v)[c], v)
    BY <1>0, RacingIs
  <2>3. Racing(v) \in [Conns -> Peers \cup {None}]
    BY <2>2 DEF Racing
  <2>4. PICK r \in [Conns -> Peers \cup {None}] : r = Racing(v)
    BY <2>3
  <2>5. peer' = [r EXCEPT ![session[id]] = None]
    BY <2>1, <2>4
  <2>6. peer'[session[id]] = None /\ \A c \in Conns \ {session[id]} : peer'[c] = r[c]
    BY <1>0, <2>5
  <2> QED
    BY <1>0, <2>1, <2>2, <2>4, <2>5, <2>6
<1>3. \A c \in Conns : Expects(c)' => Current(c)'
  <2> SUFFICES ASSUME NEW c \in Conns, Expects(c)'
               PROVE  session'[IdOf[c]] = c
    BY DEF Current
  <2>1. c # session[id] /\ Current(c)
    BY <1>0, <1>2 DEF Expects, TypeOK, SamePeer
  <2> QED
    BY <1>1, <2>1, IdOfAssumption DEF Current
<1>4. TypeOK'
  <2>1. queue' \in [Conns -> Seq(Notices)]
    BY <1>0 DEF TypeOK
  <2>2. \A i \in Members' : IdOf[session'[i]] = i
    BY <1>0, <1>1 DEF TypeOK, Members
  <2> QED
    BY <1>0, <1>1, <1>2, <1>3, <2>1, <2>2 DEF TypeOK
<1>5. step'[k] = step[k] \/ (step'[k] = "gone" /\ ~Current(k)')
  BY <1>0, <1>1 DEF Current
<1>6. l.kind = "left" /\ l.of = session[id] /\ l.version = version'[Mute(id)]
  BY OfKind
<1>7. \A i \in ClientIds : \/ session'[i] = session[i]
                           \/ session'[i] = None /\ Bids(q, session[i])
  BY <1>1, <1>6 DEF Bids
<1>8. \A n \in ToSet(q) : UpToDate(n)'
  <2>1. /\ \A f \in Facts : About(l, f) => VersionIn(l, f) = version'[f]
        /\ l.kind # "host" /\ IdOf[l.of] \notin Members'
    BY <1>0, <1>1, <1>6 DEF About, VersionIn
  <2>2. UpToDate(l)'
    BY <2>1 DEF UpToDate, About, VersionIn, Mute
  <2> QED
    BY <2>2
<1>9. \A f \in Facts : version'[f] = version[f] \/ (version'[f] > version[f] /\ Tells(q, f, version'[f]))
  <2>1. Says(l, Mute(id), version'[Mute(id)])
    BY <1>0, <1>6 DEF Says, About, VersionIn
  <2>2. version[Mute(id)] \in Nat
    BY <1>0, FactsDiffer DEF TypeOK, Versions
  <2>3. version'[Mute(id)] > version[Mute(id)]
    BY <2>2
  <2> QED
    BY <2>1, <2>3 DEF Tells
<1> QED
  BY <1>2, <1>4, <1>5, <1>7, <1>8, <1>9, ChangePreserves

LEMMA KickPreserves ==
  ASSUME IndInv, NEW k \in Conns, NEW id \in ClientIds, KickPlayer(k, id)
  PROVE  IndInv'
<1>0. /\ TypeOK /\ Free(k) /\ step[k] = "live" /\ Current(k) /\ host = IdOf[k]
      /\ id \in Members \ {IdOf[k]}
      /\ session' = [session EXCEPT ![id] = None]
      /\ version' = Bump(Mute(id))
      /\ queue' = [queue EXCEPT ![k] = <<Left(session[id], version'[Mute(id)])>>]
      /\ peer' = [Racing(version') EXCEPT ![session[id]] = None]
      /\ UNCHANGED <<latest, host, step, out, told>>
  BY DEF IndInv, KickPlayer, MayModerate
<1>1. session[id] \in Conns /\ IdOf[k] \in Members /\ version \in [Facts -> Nat]
      /\ step \in [Conns -> {"idle", "committed", "stale", "live", "gone"}]
  BY <1>0, IdOfAssumption DEF TypeOK, Versions, Members, Current
<1>2. /\ Mute(id) \in Facts /\ version' \in [Facts -> Nat]
      /\ version'[Mute(id)] = version[Mute(id)] + 1
      /\ \A f \in Facts \ {Mute(id)} : version'[f] = version[f]
  BY <1>0, <1>1, FactsDiffer DEF Bump
<1>3. PICK l \in Notices : l = Left(session[id], version'[Mute(id)])
  BY <1>1, <1>2, NoticesMade
<1>4. l.kind = "left"
  BY <1>3, OfKind
<1>5. /\ <<l>> \in Seq(Notices) /\ Rest(<<l>>) /\ ToSet(<<l>>) = {l}
      /\ \A m \in Notices : m.kind = "host" => <<l>> # <<m>>
  BY <1>4, ListsOfNotices, ShortLists DEF Rest
<1>6. queue' = [queue EXCEPT ![k] = <<l>>] /\ host' \in Members \ {id} /\ version' \in Versions
  BY <1>0, <1>1, <1>2, <1>3 DEF Versions
<1>7. l \in ToSet(<<l>>) /\ ToSet(<<l>>) \ {l} = {}
  BY <1>5
<1> HIDE DEF Bump
<1> QED
  BY <1>0, <1>1, <1>2, <1>3, <1>5, <1>6, <1>7, DepartureMoves

LEMMA LeavePreserves ==
  ASSUME IndInv, NEW k \in Conns, Leave(k)
  PROVE  IndInv'
<1>0. /\ TypeOK /\ Free(k) /\ step[k] \in {"live", "stale"} /\ Current(k)
      /\ session' = [session EXCEPT ![IdOf[k]] = None]
      /\ step' = [step EXCEPT ![k] = "gone"]
      /\ peer' = [Racing(version') EXCEPT ![k] = None]
      /\ UNCHANGED <<latest, out, told>>
  BY DEF IndInv, Leave, Ended
<1>1. PICK id \in ClientIds : id = IdOf[k]
  BY IdOfAssumption
<1>2. /\ session[id] = k /\ id \in Members
      /\ version \in [Facts -> Nat]
      /\ step' \in [Conns -> {"idle", "committed", "stale", "live", "gone"}]
      /\ step'[k] = "gone" /\ \A c \in Conns \ {k} : step'[c] = step[c]
  BY <1>0, <1>1, IdOfAssumption DEF TypeOK, Versions, Members, Current
<1>3. PICK v \in [Facts -> Nat] : v = Bump(Mute(id))
  <2>1. Mute(id) \in Facts
    BY FactsDiffer
  <2>2. version[Mute(id)] + 1 \in Nat
    BY <1>2, <2>1
  <2>3. Bump(Mute(id)) \in [Facts -> Nat]
    BY <1>2, <2>1, <2>2 DEF Bump
  <2> QED
    BY <2>3
<1>4. /\ Mute(id) \in Facts /\ v[Mute(id)] = version[Mute(id)] + 1
      /\ \A f \in Facts \ {Mute(id)} : v[f] = version[f]
  BY <1>2, <1>3, FactsDiffer DEF Bump
<1>5. PICK l \in Notices : l = Left(k, v[Mute(id)])
  BY <1>4, NoticesMade
<1>6. l.kind = "left"
  BY <1>5, OfKind
<1>7. CASE host = id /\ Members \ {id} # {}
  <2>1. PICK i \in Members \ {id} :
          /\ host' = i /\ version' = VersionsWithHost(v, i)
          /\ queue' = [queue EXCEPT ![k] = Farewell(k, v[Mute(id)], Handover(i, version'))]
    BY <1>1, <1>3, <1>7 DEF Leave, NextHosts
  <2>2. /\ version' \in [Facts -> Nat] /\ Host \in Facts /\ Mute(i) \in Facts
        /\ Mute(i) # Mute(id) /\ Host # Mute(id)
        /\ version'[Host] = v[Host] + 1 /\ version'[Mute(i)] = v[Mute(i)] + 1
        /\ \A g \in Facts \ {Host, Mute(i)} : version'[g] = v[g]
    BY <2>1, FactsDiffer DEF VersionsWithHost, Members
  <2>3. PICK m, h \in Notices :
           /\ Handover(i, version') = <<m, h>> /\ IsHandover(m, h)
           /\ m = Set(Mute(i), version'[Mute(i)])
           /\ h.fact = Host /\ h.version = version'[Host] /\ h.id = i
           /\ h.unmuted = version'[Mute(i)]
    <3>1. PICK w \in Versions : w = version'
      BY <2>2 DEF Versions
    <3> QED
      BY <3>1, HandoverMade DEF Members
  <2>4. /\ m.kind = "set" /\ m.fact = Mute(i) /\ m.version = version'[Mute(i)]
        /\ h.kind = "host"
    BY <2>3, OfKind DEF IsHandover
  <2>5. /\ <<l, m, h>> \in Seq(Notices) /\ Rest(<<l, m, h>>) /\ ToSet(<<l, m, h>>) = {l, m, h}
        /\ \A n : <<l, m, h>> # <<n>>
    BY <1>6, <2>3, ListsOfNotices, ShortLists DEF Rest
  <2>6. UpToDate(m)' /\ UpToDate(h)'
    BY <2>2, <2>3, <2>4 DEF UpToDate, About, VersionIn, Mute, Host
  <2>7. Tells(<<l, m, h>>, Mute(i), version'[Mute(i)]) /\ Tells(<<l, m, h>>, Host, version'[Host])
    BY <2>3, <2>4, <2>5 DEF Tells, Says, About, VersionIn
  <2>8. /\ version'[Host] > version[Host] /\ version'[Mute(i)] > version[Mute(i)]
        /\ version'[Mute(id)] = version[Mute(id)] + 1 /\ version'[Mute(id)] = v[Mute(id)]
    <3>1. version[Host] \in Nat /\ version[Mute(i)] \in Nat
      BY <1>2, <2>2
    <3> QED
      BY <3>1, <1>4, <2>2
  <2>9. \A g \in Facts \ {Mute(id)} :
          version'[g] = version[g] \/ (version'[g] > version[g] /\ Tells(<<l, m, h>>, g, version'[g]))
    BY <1>4, <2>2, <2>7, <2>8
  <2>10. Farewell(k, v[Mute(id)], Handover(i, version')) = <<l, m, h>>
    BY <1>5, <2>3, Joins DEF Farewell
  <2>11. /\ queue' = [queue EXCEPT ![k] = <<l, m, h>>] /\ l \in ToSet(<<l, m, h>>)
         /\ \A n \in ToSet(<<l, m, h>>) \ {l} : UpToDate(n)'
         /\ l = Left(session[id], version'[Mute(id)])
    BY <1>2, <1>5, <2>1, <2>5, <2>6, <2>8, <2>10
  <2>12. /\ IF Members \ {id} = {} THEN host' = None ELSE host' \in Members \ {id}
         /\ version' \in Versions /\ session' = [session EXCEPT ![id] = None]
         /\ peer' = [Racing(version') EXCEPT ![session[id]] = None]
    BY <1>0, <1>1, <1>2, <1>7, <2>1, <2>2 DEF Versions
  <2> QED
    BY <1>0, <1>1, <1>2, <2>5, <2>8, <2>9, <2>11, <2>12, DepartureMoves
<1>8. CASE ~(host = id /\ Members \ {id} # {})
  <2>1. /\ host' = IF Members \ {id} = {} THEN None ELSE host
        /\ version' = v /\ queue' = [queue EXCEPT ![k] = Farewell(k, v[Mute(id)], <<>>)]
    BY <1>1, <1>3, <1>8 DEF Leave
  <2>2. IF Members \ {id} = {} THEN host' = None ELSE host' \in Members \ {id}
    BY <1>0, <1>8, <2>1 DEF TypeOK
  <2>3. Farewell(k, v[Mute(id)], <<>>) = <<l>>
    BY <1>5 DEF Farewell
  <2>4. /\ <<l>> \in Seq(Notices) /\ Rest(<<l>>) /\ ToSet(<<l>>) = {l}
        /\ \A m \in Notices : m.kind = "host" => <<l>> # <<m>>
    BY <1>6, ListsOfNotices, ShortLists DEF Rest
  <2>5. /\ queue' = [queue EXCEPT ![k] = <<l>>] /\ l \in ToSet(<<l>>)
        /\ ToSet(<<l>>) \ {l} = {} /\ l = Left(session[id], version'[Mute(id)])
    BY <1>2, <1>5, <2>1, <2>3, <2>4
  <2>6. /\ version' \in Versions /\ session' = [session EXCEPT ![id] = None]
        /\ peer' = [Racing(version') EXCEPT ![session[id]] = None]
        /\ version'[Mute(id)] = version[Mute(id)] + 1
        /\ \A f \in Facts \ {Mute(id)} : version'[f] = version[f]
    BY <1>0, <1>1, <1>2, <1>4, <2>1 DEF Versions
  <2>7. /\ \A f \in Facts \ {Mute(id)} :
             version'[f] = version[f] \/ (version'[f] > version[f] /\ Tells(<<l>>, f, version'[f]))
        /\ \A n \in ToSet(<<l>>) \ {l} : UpToDate(n)'
    BY <2>5, <2>6
  <2> QED
    BY <1>0, <1>1, <1>2, <2>2, <2>4, <2>5, <2>6, <2>7, DepartureMoves
<1> QED
  BY <1>7, <1>8

LEMMA LeaveReplacedPreserves ==
  ASSUME IndInv, NEW k \in Conns, LeaveReplaced(k)
  PROVE  IndInv'
<1>0. /\ TypeOK /\ Free(k) /\ step[k] \in {"live", "stale"} /\ ~Current(k)
      /\ step' = [step EXCEPT ![k] = "gone"]
      /\ UNCHANGED <<session, latest, host, version, queue, out, peer, told>>
  BY DEF IndInv, LeaveReplaced, Ended, registry
<1>1. TypeOK' /\ step'[k] = "gone" /\ \A c \in Conns \ {k} : step'[c] = step[c]
  BY <1>0 DEF TypeOK, Members, Expects, Current
<1>2. /\ <<>> \in Seq(Notices) /\ Rest(<<>>) /\ queue' = [queue EXCEPT ![k] = <<>>]
      /\ ToSet(<<>>) = {}
  BY <1>0, ListsOfNotices, ShortLists DEF Rest, Free, TypeOK
<1>3. ~Current(k)'
  BY <1>0 DEF Current
<1>4. \A c \in Conns : peer'[c] = None \/ SamePeer(c, peer'[c], version')
  BY <1>0 DEF SamePeer, TypeOK
<1> QED
  BY <1>0, <1>1, <1>2, <1>3, <1>4, ChangePreserves

\* The commit.  Whoever is a member then will be told; the newcomer has its
\* RegisterSuccess and its roster before it.
LEMMA JoinPreserves ==
  ASSUME IndInv, NEW k \in Conns, Join(k)
  PROVE  IndInv'
<1> DEFINE id == IdOf[k]
<1>0. /\ TypeOK /\ step[k] = "idle" /\ id \in ClientIds /\ None \notin Conns
      /\ session' = [session EXCEPT ![id] = k]
      /\ latest' = [latest EXCEPT ![id] = k]
      /\ host' = IF host = None THEN id ELSE host
      /\ peer' = [d \in Conns |-> IF d = k THEN NewPeer(Overtaken(k, version'))
                                 ELSE IF d = session[id] THEN None ELSE peer[d]]
      /\ step' = [step EXCEPT ![k] = "committed"]
      /\ queue' = [queue EXCEPT ![k] = Introduction(k, version')]
      /\ UNCHANGED <<out, told>>
  BY IdOfAssumption DEF IndInv, Join
<1>1. queue[k] = <<>> /\ out[k] = None /\ ~Current(k) /\ k \notin told
  BY <1>0 DEF IndInv, Phases, Free
<1>2. /\ version' \in [Facts -> Nat] /\ \A f \in Facts : version[f] \in Nat /\ version'[f] >= version[f]
      /\ Members # {} => version' = version
  <2>1. version \in [Facts -> Nat] /\ (Members # {} => host # None)
    BY <1>0, IdOfAssumption DEF TypeOK, Versions, Members
  <2>2. version' = IF host = None THEN [f \in Facts |-> version[f] + 1] ELSE version
    BY DEF Join
  <2> QED
    BY <2>1, <2>2, FactsDiffer
<1>3. /\ session' \in [ClientIds -> Conns \cup {None}] /\ session'[id] = k
      /\ \A i \in ClientIds \ {id} : session'[i] = session[i]
      /\ Members' = Members \cup {id}
  BY <1>0 DEF TypeOK, Members
<1>4. /\ peer'[k] \in Peers /\ peer'[k].heard = [f \in Facts |-> 0] /\ peer'[k].listed = {}
      /\ peer'[k].raced = Overtaken(k, version')
      /\ \A c \in Conns \ {k} : Expects(c)' => Expects(c) /\ peer'[c] = peer[c] /\ c # session[id]
  <2>1. PICK rs \in SUBSET Facts : rs = Overtaken(k, version')
    BY DEF Overtaken
  <2>2. /\ NewPeer(rs) \in Peers /\ NewPeer(rs).heard = [f \in Facts |-> 0]
        /\ NewPeer(rs).listed = {} /\ NewPeer(rs).raced = rs
    BY DEF NewPeer, Peers, Versions
  <2>3. peer'[k] = NewPeer(rs)
    BY <1>0, <2>1
  <2>4. \A c \in Conns \ {k} : Expects(c)' => Expects(c) /\ peer'[c] = peer[c] /\ c # session[id]
    BY <1>0 DEF Expects
  <2> QED
    BY <2>1, <2>2, <2>3, <2>4
<1>5. /\ \A c \in Conns \ {k} : Current(c)' => Current(c)
      /\ \A c \in Conns \ {k} : Expects(c)' => Current(c)' /\ version' = version
  <2>1. \A c \in Conns \ {k} : Current(c)' => Current(c)
    BY <1>3, IdOfAssumption DEF Current
  <2>2. ASSUME NEW c \in Conns \ {k}, Expects(c)'
        PROVE  Current(c)' /\ version' = version
    <3>1. session[IdOf[c]] = c /\ c # session[id] /\ IdOf[c] \in Members
      BY <2>2, <1>0, <1>4, ExpectingAreMembers
    <3> QED
      BY <3>1, <1>2, <1>3, IdOfAssumption DEF Current
  <2> QED
    BY <2>1, <2>2
<1>6. PICK w \in Notices : w = Welcome(version') /\ w.kind = "welcome" /\ w.versions = version'
  BY <1>2, NoticesMade, OfKind DEF Versions
<1>7. /\ Roster(None) \in Notices /\ Joined(k) \in Notices
      /\ Roster(None).kind = "roster" /\ Joined(k).kind = "joined"
  BY NoticesMade, OfKind
<1>8. /\ queue' \in [Conns -> Seq(Notices)]
      /\ queue'[k] = <<w, Roster(None), Joined(k)>> /\ queue'[k] = Introduction(k, version')
      /\ ToSet(queue'[k]) = {w, Roster(None), Joined(k)}
      /\ \A n : queue'[k] # <<n>>
      /\ \A c \in Conns \ {k} : queue'[c] = queue[c]
  <2>1. Introduction(k, version') = <<w, Roster(None), Joined(k)>>
    BY <1>6 DEF Introduction
  <2>2. <<w, Roster(None), Joined(k)>> \in Seq(Notices)
    BY <1>7, ListsOfNotices
  <2>3. /\ queue' \in [Conns -> Seq(Notices)] /\ queue'[k] = <<w, Roster(None), Joined(k)>>
        /\ \A c \in Conns \ {k} : queue'[c] = queue[c]
    BY <1>0, <2>1, <2>2 DEF TypeOK
  <2> QED
    BY <2>1, <2>3, ShortLists
<1> HIDE DEF id
<1>9. /\ \A j \in Conns : \A c, n : InFlight(j, c, n) => InFlight(j, c, n)'
      /\ InFlight(k, k, w)'
      /\ \A c \in Conns \ {k} : Expects(c)' => InFlight(k, c, Joined(k))'
      /\ \A j \in Conns : \A c, n : InFlight(j, c, n)' =>
           InFlight(j, c, n) \/ n \in {Roster(None), Joined(k)} \/ (n = w /\ c = k)
      /\ \A n : Has(k, n)' => n \in {w, Roster(None), Joined(k)}
      /\ \A j \in Conns \ {k} : \A n : Has(j, n)' => Has(j, n)
  <2>1. ToSet(queue[k]) = {}
    BY <1>1, ShortLists
  <2>2. \A j \in Conns : \A c, n : InFlight(j, c, n) => InFlight(j, c, n)'
    BY <2>1, <1>0, <1>8 DEF InFlight
  <2>3. InFlight(k, k, w)'
    BY <1>6, <1>8 DEF InFlight, Meant
  <2>4. ASSUME NEW c \in Conns \ {k}, Expects(c)'
        PROVE  InFlight(k, c, Joined(k))'
    <3>1. Current(c)' /\ Current(k)'
      BY <2>4, <1>3, <1>5 DEF Current, id
    <3>2. IdOf[c] # IdOf[k]
      BY <3>1 DEF Current
    <3>3. Joined(k).kind = "joined" /\ Joined(k).of = k
      BY OfKind
    <3>4. Meant(k, Joined(k), c)
      BY <3>2, <3>3 DEF Meant
    <3> QED
      BY <3>4, <1>8 DEF InFlight, Meant, Joined
  <2>5. ASSUME NEW j \in Conns, NEW c, NEW n, InFlight(j, c, n)'
        PROVE  InFlight(j, c, n) \/ n \in {Roster(None), Joined(k)} \/ (n = w /\ c = k)
    <3>1. CASE j = k
      BY <2>5, <3>1, <1>0, <1>1, <1>6, <1>8 DEF InFlight, Meant
    <3>2. CASE j # k
      BY <2>5, <3>2, <1>0, <1>8 DEF InFlight, Meant
    <3> QED
      BY <3>1, <3>2
  <2>6. /\ \A n : Has(k, n)' => n \in {w, Roster(None), Joined(k)}
        /\ \A j \in Conns \ {k} : \A n : Has(j, n)' => Has(j, n)
    BY <1>0, <1>1, <1>8 DEF Has
  <2> QED
    BY <2>2, <2>3, <2>4, <2>5, <2>6
<1>10. TypeOK'
  <2>1. \A i \in Members' : IdOf[session'[i]] = i
    BY <1>0, <1>3 DEF TypeOK, Members, id
  <2>2. IF Members' = {} THEN host' = None ELSE host' \in Members'
    BY <1>0, <1>3 DEF TypeOK
  <2>3. peer' \in [Conns -> Peers \cup {None}]
    BY <1>0, <1>4 DEF TypeOK
  <2>4. \A c \in Conns : Expects(c)' => Current(c)'
    BY <1>3, <1>5 DEF Current, id
  <2>5. latest' \in [ClientIds -> Conns \cup {None}] /\ told' \in SUBSET Conns
        /\ step' \in [Conns -> {"idle", "committed", "stale", "live", "gone"}]
        /\ out' \in [Conns -> Sendings \cup {None}]
    BY <1>0 DEF TypeOK
  <2> QED
    BY <1>2, <1>3, <1>8, <2>1, <2>2, <2>3, <2>4, <2>5 DEF TypeOK, Versions
<1>11. LatestKept'
  <2>1. latest'[id] = k /\ \A i \in ClientIds \ {id} : latest'[i] = latest[i]
    BY <1>0 DEF TypeOK
  <2>2. \A i \in Members \ {id} : i \in ClientIds
    BY DEF Members
  <2> QED
    BY <2>1, <2>2, <1>3 DEF IndInv, LatestKept, id
<1>12. Phases'
  <2> SUFFICES ASSUME NEW c \in Conns
               PROVE  /\ step'[c] = "idle" => Free(c)' /\ ~Current(c)'
                      /\ step'[c] = "committed" =>
                           out'[c] = None /\ \E v \in Versions : queue'[c] = Introduction(c, v)
                      /\ step'[c] = "stale" => ~Expects(c)'
                      /\ c \in told' => step'[c] = "committed" /\ ~Expects(c)'
    BY DEF Phases, Introduction
  <2>1. CASE c = k
    <3>1. step'[k] = "committed"
      BY <1>0 DEF TypeOK
    <3> QED
      BY <2>1, <3>1, <1>0, <1>1, <1>2, <1>8 DEF Versions
  <2>2. CASE c # k
    <3>1. step'[c] = step[c]
      BY <2>2, <1>0 DEF TypeOK
    <3>2. /\ step[c] = "idle" => Free(c) /\ ~Current(c)
          /\ step[c] = "committed" =>
               out[c] = None /\ \E v \in Versions : queue[c] = Introduction(c, v)
          /\ step[c] = "stale" => ~Expects(c)
          /\ c \in told => step[c] = "committed" /\ ~Expects(c)
      BY DEF IndInv, Phases
    <3> QED
      BY <2>2, <3>1, <3>2, <1>0, <1>4, <1>5, <1>8 DEF Free
  <2> QED
    BY <2>1, <2>2
<1>13. QueueShapes' /\ OwnReplies'
  <2>1. \A c \in Conns : Rest(queue'[c]) \/ Greeting(c, queue'[c])
    <3>1. Greeting(k, queue'[k])
      BY <1>2, <1>8 DEF Greeting, Versions
    <3> QED
      BY <3>1, <1>8 DEF IndInv, QueueShapes
  <2>2. QueueShapes'
    BY <2>1 DEF QueueShapes, Rest, Greeting, Introduction, IsHandover
  <2>3. OwnReplies'
    BY <1>0, <1>1, <1>8 DEF IndInv, OwnReplies
  <2> QED
    BY <2>2, <2>3
<1>14. NothingAhead'
  <2>1. ASSUME NEW j \in Conns, NEW n, Has(j, n)
        PROVE  Timely(n)'
    <3>1. Timely(n) /\ n \in Notices
      BY <2>1, <1>0 DEF IndInv, NothingAhead, Has, TypeOK, Sendings, ToSet
    <3> QED
      BY <3>1, <1>2, VersionsSaid, NoticeParts, FactsDiffer DEF Timely, About, VersionIn, Mute
  <2>2. Timely(w)' /\ Timely(Roster(None))' /\ Timely(Joined(k))'
    BY <1>2, <1>6, <1>7 DEF Timely, About, VersionIn
  <2>3. \A c \in Conns : Expects(c)' => \A f \in Facts : peer'[c].heard[f] <= version'[f]
    BY <1>2, <1>4, <1>5 DEF IndInv, NothingAhead
  <2> QED
    BY <2>1, <2>2, <2>3, <1>9 DEF NothingAhead
<1>15. RosterOnce'
  BY <1>4, <1>9 DEF IndInv, RosterOnce
<1>16. NewsComes'
  <2> SUFFICES ASSUME NEW c \in Conns, Expects(c)', NEW f \in Facts
               PROVE  /\ peer'[c].heard[f] = version'[f] \/ ToHear(c, f, version[f])'
                      /\ f \notin peer'[c].raced =>
                           /\ peer'[c].shown[f] = version'[f] \/ ToHear(c, f, version[f])'
                           /\ AllSay(c, f, version[f])'
    BY DEF NewsComes
  <2>0. PICK v : v = version'[f]
    OBVIOUS
  <2>1. ASSUME AllSay(c, f, v)
        PROVE  AllSay(c, f, v)'
    <3> SUFFICES ASSUME NEW j \in Conns, NEW n, InFlight(j, c, n)', About(n, f)
                 PROVE  VersionIn(n, f) = v
      BY DEF AllSay, About, VersionIn, Mute
    <3>1. CASE InFlight(j, c, n)
      BY <2>1, <3>1 DEF AllSay
    <3>2. CASE n = w
      BY <3>2, <2>0, <1>6 DEF VersionIn
    <3>3. n \notin {Roster(None), Joined(k)}
      BY <1>7 DEF About
    <3> QED
      BY <3>1, <3>2, <3>3, <1>9
  <2>2. CASE c = k
    <3>1. Says(w, f, v)
      BY <2>0, <1>6 DEF Says, About, VersionIn
    <3>2. ToHear(c, f, v)'
      BY <2>2, <3>1, <1>9 DEF ToHear, Says, About, VersionIn, Mute
    <3>3. f \notin peer'[c].raced => AllSay(c, f, v)
      <4>1. PICK u : u = version'
        OBVIOUS
      <4> QED
        BY <2>0, <2>2, <4>1, <1>4, NotOvertaken
    <3> QED
      BY <2>0, <2>1, <3>2, <3>3
  <2>3. CASE c # k
    <3>1. version' = version /\ peer'[c] = peer[c] /\ Expects(c)
      BY <2>3, <1>4, <1>5
    <3>2. /\ peer[c].heard[f] = v \/ ToHear(c, f, v)
          /\ f \notin peer[c].raced =>
               /\ peer[c].shown[f] = v \/ ToHear(c, f, v)
               /\ AllSay(c, f, v)
      BY <2>0, <3>1 DEF IndInv, NewsComes
    <3>3. ToHear(c, f, v) => ToHear(c, f, v)'
      BY <1>9 DEF ToHear, Says, About, VersionIn, Mute
    <3> QED
      BY <2>0, <2>1, <3>1, <3>2, <3>3
  <2> QED
    BY <2>2, <2>3
<1>17. MembersMeeting'
  <2> SUFFICES ASSUME NEW c \in Conns, NEW d \in Conns, c # d, Expects(c)', Announced(d)'
               PROVE  Meets(c, d)'
    BY DEF MembersMeeting
  <2>1. CASE c = k
    BY <2>1, <1>7, <1>8 DEF Meets, RosterShows
  <2>2. CASE d = k
    BY <2>2, <1>9 DEF Meets, Joined
  <2>3. CASE c # k /\ d # k
    <3>1. step'[d] = step[d]
      BY <2>3, <1>0 DEF TypeOK
    <3>2. Announced(d)
      BY <2>3, <3>1, <1>0, <1>5 DEF Announced
    <3>3. Meets(c, d)
      BY <2>3, <3>2, <1>4 DEF IndInv, MembersMeeting
    <3>4. RosterShows(c, d) => RosterShows(c, d)'
      BY <2>3, <1>0, <1>8 DEF RosterShows
    <3> QED
      BY <2>3, <3>3, <3>4, <1>4, <1>9 DEF Meets, Joined
  <2> QED
    BY <2>1, <2>2, <2>3
<1>18. DeparturesComing'
  <2> SUFFICES ASSUME NEW c \in Conns, NEW d \in Conns, Expects(c)', OnRoster(c, d)',
                      IdOf[d] \notin Members'
               PROVE  Parted(c, IdOf[d])'
    BY DEF DeparturesComing
  <2>1. c # k
    BY <1>0, <1>1, <1>4 DEF OnRoster
  <2>2. OnRoster(c, d) /\ IdOf[d] \notin Members /\ Expects(c)
    BY <2>1, <1>0, <1>3, <1>4 DEF OnRoster
  <2>3. latest'[IdOf[d]] = latest[IdOf[d]]
    BY <1>0, <1>3, IdOfAssumption DEF TypeOK
  <2>4. Parted(c, IdOf[d])
    BY <2>2 DEF IndInv, DeparturesComing
  <2> QED
    BY <2>1, <2>3, <2>4, <1>4, <1>9 DEF Parted
<1>19. UnmutedFirst'
  <2>1. ASSUME NEW h \in Notices, NEW j \in Conns, Has(j, h), h.kind = "host"
        PROVE  KnowsUnmuted(k, h.id, h.unmuted)'
    <3>1. /\ h.unmuted <= version[Mute(h.id)] /\ h.unmuted \in Nat /\ Mute(h.id) \in Facts
      BY <2>1, NoticeParts, FactsDiffer DEF IndInv, NothingAhead, Timely
    <3>2. w.versions[Mute(h.id)] >= h.unmuted
      BY <3>1, <1>2, <1>6
    <3> QED
      BY <3>2, <1>6, <1>9 DEF KnowsUnmuted, Mute
  <2>2. ASSUME NEW c \in Conns \ {k}, Expects(c)', NEW i, NEW u, KnowsUnmuted(c, i, u)
        PROVE  KnowsUnmuted(c, i, u)'
    BY <2>2, <1>4, <1>9 DEF KnowsUnmuted, Mute
  <2> SUFFICES ASSUME NEW j \in Conns, NEW c \in Conns, Expects(c)'
               PROVE  /\ out[j] # None /\ c \in out[j].to /\ out[j].notice.kind = "host" =>
                           KnowsUnmuted(c, out[j].notice.id, out[j].notice.unmuted)'
                      /\ \A h \in Notices : h.kind = "host" /\ queue'[j] = <<h>> =>
                           \/ KnowsUnmuted(c, h.id, h.unmuted)'
                           \/ out[j] # None /\ c \in out[j].to
                              /\ out[j].notice = Set(Mute(h.id), h.unmuted)
    BY <1>0 DEF UnmutedFirst, Set, Mute
  <2>3. CASE j = k
    BY <2>3, <1>1, <1>8
  <2>4. CASE j # k /\ c = k
    <3>1. out[j] # None => out[j].notice \in Notices /\ Has(j, out[j].notice)
      BY <1>0 DEF TypeOK, Sendings, Has
    <3>2. ASSUME NEW h \in Notices, queue'[j] = <<h>>
          PROVE  Has(j, h)
      <4>1. ToSet(<<h>>) = {h}
        BY ShortLists
      <4>2. queue[j] = <<h>>
        BY <2>4, <3>2, <1>8
      <4> QED
        BY <4>1, <4>2 DEF Has
    <3>3. ASSUME out[j] # None, c \in out[j].to, out[j].notice.kind = "host"
          PROVE  KnowsUnmuted(c, out[j].notice.id, out[j].notice.unmuted)'
      <4>1. PICK h \in Notices : h = out[j].notice
        BY <3>1, <3>3
      <4>2. KnowsUnmuted(k, h.id, h.unmuted)'
        BY <4>1, <3>1, <3>3, <2>1
      <4> QED
        BY <4>1, <4>2, <2>4, <1>0
    <3>4. ASSUME NEW h \in Notices, h.kind = "host", queue'[j] = <<h>>
          PROVE  KnowsUnmuted(c, h.id, h.unmuted)'
      BY <3>2, <3>4, <2>1, <2>4
    <3> QED
      BY <3>3, <3>4
  <2>5. CASE j # k /\ c # k
    <3>1. Expects(c) /\ queue'[j] = queue[j]
      BY <2>5, <1>4, <1>8
    <3>2. ASSUME out[j] # None, c \in out[j].to, out[j].notice.kind = "host"
          PROVE  KnowsUnmuted(c, out[j].notice.id, out[j].notice.unmuted)'
      <4>1. PICK i, u : i = out[j].notice.id /\ u = out[j].notice.unmuted
        OBVIOUS
      <4>2. KnowsUnmuted(c, i, u)
        BY <3>1, <3>2, <4>1 DEF IndInv, UnmutedFirst
      <4>3. KnowsUnmuted(c, i, u)'
        BY <2>2, <2>5, <4>2
      <4> QED
        BY <4>1, <4>3, <1>0
    <3>3. ASSUME NEW h \in Notices, h.kind = "host", queue'[j] = <<h>>
          PROVE  \/ KnowsUnmuted(c, h.id, h.unmuted)'
                 \/ out[j] # None /\ c \in out[j].to /\ out[j].notice = Set(Mute(h.id), h.unmuted)
      <4>1. \/ KnowsUnmuted(c, h.id, h.unmuted)
            \/ out[j] # None /\ c \in out[j].to /\ out[j].notice = Set(Mute(h.id), h.unmuted)
        BY <3>1, <3>3 DEF IndInv, UnmutedFirst
      <4> QED
        BY <2>2, <2>5, <4>1
    <3> QED
      BY <3>2, <3>3
  <2> QED
    BY <2>3, <2>4, <2>5
<1> QED
  BY <1>10, <1>11, <1>12, <1>13, <1>14, <1>15, <1>16, <1>17, <1>18, <1>19 DEF IndInv

\* The check after the commit: a session that is no longer current drops its
\* introduction, which nobody waits for.
LEMMA CheckCommitPreserves ==
  ASSUME IndInv, NEW k \in Conns, CheckCommit(k)
  PROVE  IndInv'
<1>0. /\ TypeOK /\ step[k] = "committed" /\ told' = told \ {k}
      /\ UNCHANGED <<session, latest, host, version, out, peer>>
  BY DEF IndInv, CheckCommit, registry
<1>1. out[k] = None /\ \E v \in Versions : queue[k] = Introduction(k, v)
  BY <1>0 DEF IndInv, Phases
<1>2. PICK w \in Notices : w.kind = "welcome" /\ queue[k] = <<w, Roster(None), Joined(k)>>
  BY <1>1, NoticesMade, OfKind DEF Introduction
<1>3. ToSet(queue[k]) = {w, Roster(None), Joined(k)}
  BY <1>2, ShortLists
<1>4. /\ \A c \in Conns : Expects(c)' <=> Expects(c)
      /\ \A c \in Conns : Current(c)' <=> Current(c)
      /\ Members' = Members
  BY <1>0 DEF Expects, Current, Members
<1>5. /\ \A c \in Conns \ {k} : step'[c] = step[c] /\ queue'[c] = queue[c]
      /\ \/ step'[k] = "live" /\ queue'[k] = queue[k] /\ k \notin told /\ Current(k)
         \/ step'[k] = "stale" /\ queue'[k] = <<>> /\ ~Expects(k)
      /\ step' \in [Conns -> {"idle", "committed", "stale", "live", "gone"}]
      /\ queue' \in [Conns -> Seq(Notices)]
  <2>1. CASE k \in told \/ ~Current(k)
    <3>1. /\ step' = [step EXCEPT ![k] = "stale"] /\ queue' = [queue EXCEPT ![k] = <<>>]
      BY <2>1 DEF CheckCommit
    <3>2. ~Expects(k)
      BY <2>1, <1>0 DEF IndInv, Phases, TypeOK
    <3> QED
      BY <3>1, <3>2, <1>0, ListsOfNotices DEF TypeOK
  <2>2. CASE ~(k \in told \/ ~Current(k))
    <3>1. step' = [step EXCEPT ![k] = "live"] /\ queue' = queue
      BY <2>2 DEF CheckCommit
    <3> QED
      BY <3>1, <2>2, <1>0 DEF TypeOK
  <2> QED
    BY <2>1, <2>2
<1>6. /\ \A j \in Conns : \A n : Has(j, n)' => Has(j, n)
      /\ \A j \in Conns, c \in Conns : \A n : InFlight(j, c, n) /\ Expects(c) =>
           InFlight(j, c, n)' \/ (n = Joined(k) /\ step'[k] = "stale")
      /\ \A j \in Conns : \A c, n : InFlight(j, c, n)' => InFlight(j, c, n)
  <2>1. CASE queue'[k] = queue[k]
    <3>1. \A j \in Conns : queue'[j] = queue[j]
      BY <2>1, <1>5
    <3> QED
      BY <3>1, <1>0 DEF Has, InFlight, Meant
  <2>2. CASE step'[k] = "stale" /\ queue'[k] = <<>> /\ ~Expects(k)
    <3>1. ToSet(queue'[k]) = {}
      BY <2>2, ShortLists
    <3>2. Roster(None).kind = "roster"
      BY OfKind
    <3> QED
      BY <2>2, <3>1, <3>2, <1>0, <1>1, <1>2, <1>3, <1>5 DEF Has, InFlight, Meant
  <2> QED
    BY <2>1, <2>2, <1>5
<1>7. TypeOK' /\ LatestKept'
  BY <1>0, <1>4, <1>5 DEF IndInv, TypeOK, LatestKept
<1>8. Phases'
  <2> SUFFICES ASSUME NEW c \in Conns
               PROVE  /\ step'[c] = "idle" => Free(c)' /\ ~Current(c)'
                      /\ step'[c] = "committed" =>
                           out'[c] = None /\ \E v \in Versions : queue'[c] = Introduction(c, v)
                      /\ step'[c] = "stale" => ~Expects(c)'
                      /\ c \in told' => step'[c] = "committed" /\ ~Expects(c)'
    BY DEF Phases, Introduction
  <2>1. /\ step[c] = "idle" => Free(c) /\ ~Current(c)
        /\ step[c] = "committed" =>
             out[c] = None /\ \E v \in Versions : queue[c] = Introduction(c, v)
        /\ step[c] = "stale" => ~Expects(c)
        /\ c \in told => step[c] = "committed" /\ ~Expects(c)
    BY DEF IndInv, Phases
  <2> QED
    BY <2>1, <1>0, <1>4, <1>5 DEF Free
<1>9. QueueShapes' /\ OwnReplies'
  <2>1. \A c \in Conns : Rest(queue'[c]) \/ Greeting(c, queue'[c])
    <3>1. Rest(<<>>)
      BY DEF Rest
    <3> QED
      BY <3>1, <1>5 DEF IndInv, QueueShapes
  <2>2. QueueShapes'
    BY <2>1 DEF QueueShapes, Rest, Greeting, Introduction, IsHandover
  <2>3. OwnReplies'
    BY <1>0, <1>1, <1>5 DEF IndInv, OwnReplies
  <2> QED
    BY <2>2, <2>3
<1>10. NothingAhead'
  BY <1>0, <1>4, <1>6 DEF IndInv, NothingAhead, Timely, About, VersionIn, Mute
<1>11. RosterOnce'
  BY <1>0, <1>4, <1>6 DEF IndInv, RosterOnce
<1>12. NewsComes'
  <2>1. \A f, v : ~Says(Joined(k), f, v)
    BY OfKind DEF Says, About
  <2>2. \A c \in Conns, f \in Facts : \A v : Expects(c) /\ ToHear(c, f, v) => ToHear(c, f, v)'
    BY <2>1, <1>6 DEF ToHear, Says, About, VersionIn, Mute
  <2>3. \A c \in Conns, f \in Facts : \A v : AllSay(c, f, v) => AllSay(c, f, v)'
    BY <1>6 DEF AllSay, About, VersionIn, Mute
  <2> QED
    BY <2>2, <2>3, <1>0, <1>4 DEF IndInv, NewsComes
<1>13. MembersMeeting'
  <2> SUFFICES ASSUME NEW c \in Conns, NEW d \in Conns, c # d, Expects(c)', Announced(d)'
               PROVE  Meets(c, d)'
    BY DEF MembersMeeting
  <2>1. Announced(d) /\ step'[d] # "stale"
    BY <1>0, <1>4, <1>5 DEF Announced
  <2>2. Meets(c, d)
    BY <2>1, <1>4 DEF IndInv, MembersMeeting
  <2>3. RosterShows(c, d) => RosterShows(c, d)'
    BY <1>0, <1>4, <1>5 DEF RosterShows
  <2>4. Joined(d) = Joined(k) => d = k
    BY DEF Joined
  <2>5. \A j \in Conns : InFlight(j, c, Joined(d)) => InFlight(j, c, Joined(d))'
    BY <2>1, <2>4, <1>4, <1>6 DEF Joined
  <2> QED
    BY <2>2, <2>3, <2>5, <1>0 DEF Meets
<1>14. DeparturesComing'
  <2>1. Joined(k).kind # "left"
    BY OfKind
  <2>2. \A c \in Conns, id \in ClientIds : Expects(c) /\ Parted(c, id) => Parted(c, id)'
    BY <2>1, <1>0, <1>6 DEF Parted
  <2> QED
    BY <2>2, <1>0, <1>4, IdOfAssumption DEF IndInv, DeparturesComing, OnRoster
<1>15. UnmutedFirst'
  <2>1. ASSUME NEW c \in Conns, Expects(c), NEW i, NEW u, KnowsUnmuted(c, i, u)
        PROVE  KnowsUnmuted(c, i, u)'
    <3>1. Joined(k).kind # "welcome"
      BY OfKind
    <3> QED
      BY <2>1, <3>1, <1>0, <1>6 DEF KnowsUnmuted, Mute
  <2> SUFFICES ASSUME NEW j \in Conns, NEW c \in Conns, Expects(c)
               PROVE  /\ out[j] # None /\ c \in out[j].to /\ out[j].notice.kind = "host" =>
                           KnowsUnmuted(c, out[j].notice.id, out[j].notice.unmuted)'
                      /\ \A h \in Notices : h.kind = "host" /\ queue'[j] = <<h>> =>
                           \/ KnowsUnmuted(c, h.id, h.unmuted)'
                           \/ out[j] # None /\ c \in out[j].to
                              /\ out[j].notice = Set(Mute(h.id), h.unmuted)
    BY <1>0, <1>4 DEF UnmutedFirst, Set, Mute
  <2>2. ASSUME out[j] # None, c \in out[j].to, out[j].notice.kind = "host"
        PROVE  KnowsUnmuted(c, out[j].notice.id, out[j].notice.unmuted)'
    <3>1. PICK i, u : i = out[j].notice.id /\ u = out[j].notice.unmuted
      OBVIOUS
    <3>2. KnowsUnmuted(c, i, u)
      BY <2>2, <3>1 DEF IndInv, UnmutedFirst
    <3>3. KnowsUnmuted(c, i, u)'
      BY <2>1, <3>2
    <3> QED
      BY <3>1, <3>3, <1>0
  <2>3. ASSUME NEW h \in Notices, h.kind = "host", queue'[j] = <<h>>
        PROVE  \/ KnowsUnmuted(c, h.id, h.unmuted)'
               \/ out[j] # None /\ c \in out[j].to /\ out[j].notice = Set(Mute(h.id), h.unmuted)
    <3>1. queue[j] = <<h>>
      BY <2>3, <1>2, <1>5, ShortLists
    <3>2. \/ KnowsUnmuted(c, h.id, h.unmuted)
          \/ out[j] # None /\ c \in out[j].to /\ out[j].notice = Set(Mute(h.id), h.unmuted)
      BY <2>3, <3>1 DEF IndInv, UnmutedFirst
    <3> QED
      BY <2>1, <3>2
  <2> QED
    BY <2>2, <2>3
<1> QED
  BY <1>7, <1>8, <1>9, <1>10, <1>11, <1>12, <1>13, <1>14, <1>15 DEF IndInv

\* What a task takes from its queue, and what it leaves there.
LEMMA FirstOfQueue ==
  ASSUME NEW k \in Conns, NEW q, q # <<>>, Rest(q) \/ Greeting(k, q)
  PROVE  \E a \in Notices, r \in Seq(Notices) :
           /\ Head(q) = a /\ Tail(q) = r /\ ToSet(q) = {a} \cup ToSet(r)
           /\ Rest(r) \/ Greeting(k, r)
           /\ a.kind = "roster" => r = <<Joined(k)>>
           /\ a.kind = "host" => q = <<a>>
           /\ \A h \in Notices : h.kind = "host" /\ r = <<h>> => a = Set(Mute(h.id), h.unmuted)
           /\ \A b \in ToSet(r) : b \in Notices
<1> DEFINE Taken ==
         \E a \in Notices, r \in Seq(Notices) :
           /\ Head(q) = a /\ Tail(q) = r /\ ToSet(q) = {a} \cup ToSet(r)
           /\ Rest(r) \/ Greeting(k, r)
           /\ a.kind = "roster" => r = <<Joined(k)>>
           /\ a.kind = "host" => q = <<a>>
           /\ \A h \in Notices : h.kind = "host" /\ r = <<h>> => a = Set(Mute(h.id), h.unmuted)
           /\ \A b \in ToSet(r) : b \in Notices
<1> SUFFICES Taken
  BY DEF Taken
<1> HIDE DEF Taken
<1>0. Rest(<<>>) /\ Greeting(k, <<Joined(k)>>) /\ Greeting(k, <<Roster(None), Joined(k)>>)
  BY DEF Rest, Greeting
<1>00. /\ Roster(None) \in Notices /\ Joined(k) \in Notices
       /\ Roster(None).kind = "roster" /\ Joined(k).kind = "joined"
  BY NoticesMade, OfKind
<1>1. ASSUME NEW a \in Notices, a.kind # "roster", q = <<a>>
      PROVE  Taken
  <2>1. Head(q) = a /\ Tail(q) = <<>> /\ ToSet(q) = {a} /\ ToSet(<<>>) = {}
    BY <1>1, ListHeads, ShortLists
  <2>2. <<>> \in Seq(Notices) /\ \A h : <<>> # <<h>>
    BY ListsOfNotices, ShortLists
  <2> QED
    BY <1>0, <1>1, <2>1, <2>2 DEF Taken
<1>2. ASSUME NEW m \in Notices, NEW h \in Notices, IsHandover(m, h), q = <<m, h>>
      PROVE  Taken
  <2>1. Head(q) = m /\ Tail(q) = <<h>> /\ ToSet(q) = {m, h} /\ ToSet(<<h>>) = {h}
    BY <1>2, ListHeads, ShortLists
  <2>2. <<h>> \in Seq(Notices) /\ Rest(<<h>>)
    BY <1>2, ListsOfNotices DEF Rest, IsHandover
  <2>3. m.kind = "set" /\ \A x : <<h>> = <<x>> => h = x
    BY <1>2, OfKind DEF IsHandover
  <2>4. \A x \in Notices : x.kind = "host" /\ <<h>> = <<x>> => m = Set(Mute(x.id), x.unmuted)
    BY <1>2, <2>3 DEF IsHandover
  <2> QED
    BY <2>1, <2>2, <2>3, <2>4 DEF Taken
<1>3. ASSUME NEW l \in Notices, NEW m \in Notices, NEW h \in Notices, l.kind = "left",
             IsHandover(m, h), q = <<l, m, h>>
      PROVE  Taken
  <2>1. Head(q) = l /\ Tail(q) = <<m, h>> /\ ToSet(q) = {l, m, h} /\ ToSet(<<m, h>>) = {m, h}
    BY <1>3, ListHeads, ShortLists
  <2>2. <<m, h>> \in Seq(Notices) /\ Rest(<<m, h>>) /\ \A x : <<m, h>> # <<x>>
    BY <1>3, ListsOfNotices, ShortLists DEF Rest
  <2> QED
    BY <1>3, <2>1, <2>2 DEF Taken
<1>4. ASSUME NEW v \in Versions, q = Introduction(k, v)
      PROVE  Taken
  <2>1. PICK w \in Notices : w = Welcome(v) /\ w.kind = "welcome"
    BY NoticesMade, OfKind
  <2>2. q = <<w, Roster(None), Joined(k)>>
    BY <1>4, <2>1 DEF Introduction
  <2>3. /\ Head(q) = w /\ Tail(q) = <<Roster(None), Joined(k)>>
        /\ ToSet(q) = {w, Roster(None), Joined(k)}
        /\ ToSet(<<Roster(None), Joined(k)>>) = {Roster(None), Joined(k)}
    BY <2>2, ListHeads, ShortLists
  <2>4. /\ <<Roster(None), Joined(k)>> \in Seq(Notices)
        /\ \A x : <<Roster(None), Joined(k)>> # <<x>>
    BY <1>00, ListsOfNotices, ShortLists
  <2> QED
    BY <1>0, <1>00, <2>1, <2>3, <2>4 DEF Taken
<1>5. CASE q = <<Roster(None), Joined(k)>>
  <2>1. /\ Head(q) = Roster(None) /\ Tail(q) = <<Joined(k)>>
        /\ ToSet(q) = {Roster(None), Joined(k)} /\ ToSet(<<Joined(k)>>) = {Joined(k)}
    BY <1>5, ListHeads, ShortLists
  <2>2. <<Joined(k)>> \in Seq(Notices)
        /\ \A h : <<Joined(k)>> = <<h>> => h.kind = "joined"
    BY <1>00, ListsOfNotices
  <2> QED
    BY <1>0, <1>00, <2>1, <2>2 DEF Taken
<1>6. CASE q = <<Joined(k)>>
  BY <1>00, <1>1, <1>6
<1>7. CASE Rest(q)
  BY <1>1, <1>2, <1>3, <1>7 DEF Rest
<1>8. CASE Greeting(k, q)
  BY <1>4, <1>5, <1>6, <1>8 DEF Greeting
<1> QED
  BY <1>7, <1>8

\* Who gets the notice a task takes: whoever expects it, of those it is for.
LEMMA ReceiversAre ==
  ASSUME TypeOK, NEW k \in Conns, NEW n \in Notices
  PROVE  /\ Receivers(k, n) \subseteq Conns
         /\ n.kind \in {"welcome", "roster"} => Receivers(k, n) = {k}
         /\ \A c \in Conns : Expects(c) /\ Meant(k, n, c) => c \in Receivers(k, n)
         /\ \A c \in Receivers(k, n) : Meant(k, n, c)
<1>1. \A id \in Members : session[id] \in Conns /\ IdOf[session[id]] = id
  BY DEF TypeOK, Members
<1>2. \A c \in Conns : Expects(c) => IdOf[c] \in Members /\ session[IdOf[c]] = c
  BY ExpectingAreMembers
<1>3. CASE n.kind \in {"welcome", "roster"}
  BY <1>3 DEF Receivers, Meant
<1>4. CASE n.kind \in {"joined", "left"}
  <2>1. Receivers(k, n) = {session[id] : id \in Members \ {IdOf[n.of]}}
    BY <1>4 DEF Receivers
  <2> QED
    BY <1>1, <1>2, <1>4, <2>1 DEF Meant
<1>5. CASE n.kind \notin {"welcome", "roster", "joined", "left"}
  <2>1. Receivers(k, n) = {session[id] : id \in Members}
    BY <1>5 DEF Receivers
  <2> QED
    BY <1>1, <1>2, <1>5, <2>1 DEF Meant
<1> QED
  BY <1>3, <1>4, <1>5

\* The next notice is taken from the queue and its receivers are looked up.  For
\* each member that waits for it, it passes from the queue to what is being sent.
LEMMA LookupPreserves ==
  ASSUME IndInv, NEW k \in Conns, Lookup(k)
  PROVE  IndInv'
<1>0. /\ TypeOK /\ out[k] = None /\ queue[k] # <<>> /\ step[k] # "committed"
      /\ UNCHANGED <<session, latest, host, version, step, peer, told>>
  BY DEF IndInv, Lookup, registry
<1>1. PICK a \in Notices, r \in Seq(Notices) :
        /\ Head(queue[k]) = a /\ Tail(queue[k]) = r /\ ToSet(queue[k]) = {a} \cup ToSet(r)
        /\ Rest(r) \/ Greeting(k, r)
        /\ a.kind = "roster" => r = <<Joined(k)>>
        /\ a.kind = "host" => queue[k] = <<a>>
        /\ \A h \in Notices : h.kind = "host" /\ r = <<h>> => a = Set(Mute(h.id), h.unmuted)
        /\ \A b \in ToSet(r) : b \in Notices
  BY <1>0, FirstOfQueue DEF IndInv, QueueShapes
<1>2. PICK n \in Notices :
        /\ n = Content(k, a) /\ n.kind = a.kind /\ (a.kind # "roster" => n = a)
        /\ a.kind = "roster" => n.of = {session[id] : id \in Members \ {IdOf[k]}}
                                /\ n.of \in SUBSET Conns
  <2>1. CASE a.kind # "roster"
    BY <2>1 DEF Content
  <2>2. CASE a.kind = "roster"
    <3>1. PICK ds \in SUBSET Conns : ds = {session[id] : id \in Members \ {IdOf[k]}}
      <4>1. \A id \in Members : session[id] \in Conns
        BY <1>0 DEF TypeOK, Members
      <4>2. {session[id] : id \in Members \ {IdOf[k]}} \in SUBSET Conns
        BY <4>1
      <4> QED
        BY <4>2
    <3>2. Content(k, a) = Roster(ds)
      BY <2>2, <3>1 DEF Content
    <3>3. Roster(ds) \in Notices /\ Roster(ds).kind = "roster" /\ Roster(ds).of = ds
      BY NoticesMade, OfKind
    <3> QED
      BY <2>2, <3>1, <3>2, <3>3
  <2> QED
    BY <2>1, <2>2
<1>3. PICK to \in SUBSET Conns :
        /\ to = Receivers(k, n)
        /\ n.kind \in {"welcome", "roster"} => to = {k}
        /\ \A c \in Conns : Expects(c) /\ Meant(k, n, c) => c \in to
        /\ \A c \in to : Meant(k, n, c)
  BY <1>0, ReceiversAre
<1>4. /\ out'[k] = IF to = {} THEN None ELSE [notice |-> n, to |-> to]
      /\ queue'[k] = r
      /\ \A j \in Conns \ {k} : out'[j] = out[j] /\ queue'[j] = queue[j]
      /\ queue' \in [Conns -> Seq(Notices)]
  <2>1. /\ out' = [out EXCEPT ![k] = IF to = {} THEN None ELSE [notice |-> n, to |-> to]]
        /\ queue' = [queue EXCEPT ![k] = Tail(queue[k])]
    BY <1>1, <1>2, <1>3 DEF Lookup
  <2> QED
    BY <2>1, <1>0, <1>1 DEF TypeOK
<1>5. /\ to # {} => /\ out'[k] # None /\ out'[k] \in Sendings
                    /\ out'[k].notice = n /\ out'[k].to = to
      /\ to = {} => out'[k] = None
  <2>1. to # {} => [notice |-> n, to |-> to] \in Sendings
    BY DEF Sendings
  <2> QED
    BY <2>1, <1>4, SendingsAssumption
<1>6. /\ \A c \in Conns : Expects(c)' <=> Expects(c)
      /\ \A c \in Conns : Current(c)' <=> Current(c)
      /\ Members' = Members
      /\ \A c \in Conns : Announced(c)' <=> Announced(c)
  BY <1>0 DEF Expects, Current, Members, Announced
<1>7. ASSUME NEW j \in Conns, NEW c \in Conns, NEW m, InFlight(j, c, m)
      PROVE  InFlight(j, c, m)' \/ (j = k /\ m = a)
  BY <1>7, <1>0, <1>1, <1>4 DEF InFlight, Meant
<1>8. ASSUME NEW c \in Conns, Expects(c), InFlight(k, c, a)
      PROVE  InFlight(k, c, n)'
  <2>1. Meant(k, a, c)
    BY <1>8, <1>0 DEF InFlight
  <2>2. Meant(k, n, c)
    BY <2>1, <1>2 DEF Meant
  <2>3. c \in to
    BY <1>3, <1>8, <2>2
  <2> QED
    BY <2>3, <1>5 DEF InFlight
<1>88. ASSUME NEW j \in Conns, NEW c \in Conns, NEW m, InFlight(j, c, m)', m.kind # "roster"
       PROVE  InFlight(j, c, m)
  <2>1. CASE j # k
    BY <2>1, <1>88, <1>4 DEF InFlight, Meant
  <2>2. CASE j = k /\ out'[k] # None /\ c \in out'[k].to /\ m = out'[k].notice
    <3>1. to # {} /\ c \in to /\ m = n
      BY <2>2, <1>5
    <3>2. m = a /\ Meant(k, a, c)
      BY <3>1, <1>2, <1>3, <1>88
    <3> QED
      BY <2>2, <3>2, <1>1 DEF InFlight
  <2>3. CASE j = k /\ m \in ToSet(queue'[k]) /\ Meant(k, m, c)
    <3>1. m \in ToSet(queue[k])
      BY <2>3, <1>1, <1>4
    <3> QED
      BY <2>3, <3>1 DEF InFlight
  <2> QED
    BY <2>1, <2>2, <2>3, <1>88 DEF InFlight, Meant
<1>9. ASSUME NEW j \in Conns, NEW m, Has(j, m)'
      PROVE  Has(j, m) \/ (j = k /\ m = n)
  BY <1>9, <1>0, <1>1, <1>4, <1>5 DEF Has
<1>10. Has(k, a)
  BY <1>1 DEF Has
<1>11. TypeOK'
  <2>1. out' \in [Conns -> Sendings \cup {None}]
    <3>1. out' = [out EXCEPT ![k] = out'[k]]
      BY <1>0, <1>4 DEF Lookup, TypeOK
    <3> QED
      BY <3>1, <1>0, <1>5 DEF TypeOK
  <2> QED
    BY <2>1, <1>0, <1>4, <1>6 DEF TypeOK
<1>12. LatestKept'
  BY <1>0, <1>6 DEF IndInv, LatestKept
<1>13. Phases'
  <2> SUFFICES ASSUME NEW c \in Conns
               PROVE  /\ step'[c] = "idle" => Free(c)' /\ ~Current(c)'
                      /\ step'[c] = "committed" =>
                           out'[c] = None /\ \E v \in Versions : queue'[c] = Introduction(c, v)
                      /\ step'[c] = "stale" => ~Expects(c)'
                      /\ c \in told' => step'[c] = "committed" /\ ~Expects(c)'
    BY DEF Phases, Introduction
  <2>1. /\ step[c] = "idle" => Free(c) /\ ~Current(c)
        /\ step[c] = "committed" =>
             out[c] = None /\ \E v \in Versions : queue[c] = Introduction(c, v)
        /\ step[c] = "stale" => ~Expects(c)
        /\ c \in told => step[c] = "committed" /\ ~Expects(c)
    BY DEF IndInv, Phases
  <2>2. step[k] # "idle"
    BY <1>0 DEF IndInv, Phases, Free
  <2> QED
    BY <2>1, <2>2, <1>0, <1>4, <1>6 DEF Free
<1>14. QueueShapes'
  <2>1. \A c \in Conns : Rest(queue'[c]) \/ Greeting(c, queue'[c])
    BY <1>1, <1>4 DEF IndInv, QueueShapes
  <2> QED
    BY <2>1 DEF QueueShapes, Rest, Greeting, Introduction, IsHandover
<1>15. OwnReplies'
  <2> SUFFICES ASSUME NEW c \in Conns, out'[c] # None
               PROVE  /\ out'[c].notice.kind \in {"welcome", "roster"} => out'[c].to = {c}
                      /\ out'[c].notice.kind = "roster" => out'[c].notice.of \in SUBSET Conns
                                                           /\ queue'[c] = <<Joined(c)>>
    BY DEF OwnReplies, Joined
  <2>1. CASE c = k
    BY <2>1, <1>1, <1>2, <1>3, <1>4, <1>5
  <2>2. CASE c # k
    BY <2>2, <1>4 DEF IndInv, OwnReplies
  <2> QED
    BY <2>1, <2>2
<1>16. NothingAhead'
  <2>1. Timely(n)
    <3>1. CASE a.kind = "roster"
      BY <3>1, <1>2 DEF Timely, About
    <3>2. CASE a.kind # "roster"
      BY <3>2, <1>2, <1>10 DEF IndInv, NothingAhead
    <3> QED
      BY <3>1, <3>2
  <2>2. \A m : Timely(m) => Timely(m)'
    BY <1>0 DEF Timely, About, VersionIn, Mute
  <2>3. ASSUME NEW j \in Conns, NEW m, Has(j, m)'
        PROVE  Timely(m)'
    <3>1. Timely(m)
      BY <2>1, <2>3, <1>9 DEF IndInv, NothingAhead
    <3> QED
      BY <3>1, <2>2
  <2> QED
    BY <2>3, <1>0, <1>6 DEF IndInv, NothingAhead
<1>17. RosterOnce'
  <2> SUFFICES ASSUME NEW c \in Conns, Expects(c), NEW m, Has(c, m)', m.kind = "roster"
               PROVE  peer[c].listed = {}
    BY <1>0, <1>6 DEF RosterOnce
  <2>1. \E x : Has(c, x) /\ x.kind = "roster"
    BY <1>2, <1>9, <1>10
  <2> QED
    BY <2>1 DEF IndInv, RosterOnce
<1>18. NewsComes'
  <2>1. ASSUME NEW c \in Conns, Expects(c), NEW f \in Facts, NEW v, ToHear(c, f, v)
        PROVE  ToHear(c, f, v)'
    <3>1. PICK j \in Conns, m \in Notices : InFlight(j, c, m) /\ Says(m, f, v)
      BY <2>1 DEF ToHear
    <3>2. InFlight(j, c, m)'
      <4>1. CASE j = k /\ m = a
        <5>1. a.kind # "roster"
          BY <3>1, <4>1 DEF Says, About
        <5> QED
          BY <2>1, <3>1, <4>1, <5>1, <1>2, <1>8
      <4> QED
        BY <3>1, <4>1, <1>7
    <3> QED
      BY <3>1, <3>2 DEF ToHear, Says, About, VersionIn, Mute
  <2>2. ASSUME NEW c \in Conns, NEW f \in Facts, NEW v, AllSay(c, f, v)
        PROVE  AllSay(c, f, v)'
    <3> SUFFICES ASSUME NEW j \in Conns, NEW m, InFlight(j, c, m)', About(m, f)
                 PROVE  VersionIn(m, f) = v
      BY DEF AllSay, About, VersionIn, Mute
    <3>1. m.kind # "roster"
      BY DEF About
    <3> QED
      BY <2>2, <3>1, <1>88 DEF AllSay
  <2> QED
    BY <2>1, <2>2, <1>0, <1>6 DEF IndInv, NewsComes
<1>19. MembersMeeting'
  <2> SUFFICES ASSUME NEW c \in Conns, NEW d \in Conns, c # d, Expects(c), Announced(d)
               PROVE  Meets(c, d)'
    BY <1>6 DEF MembersMeeting
  <2>1. Meets(c, d)
    BY DEF IndInv, MembersMeeting
  <2>2. IdOf[c] # IdOf[d] /\ IdOf[d] \in Members /\ session[IdOf[d]] = d
    BY <1>0, IdOfAssumption DEF TypeOK, Announced, Current, Members
  <2>3. ASSUME NEW j \in Conns, InFlight(j, c, Joined(d))
        PROVE  InFlight(j, c, Joined(d))'
    <3>1. CASE j = k /\ Joined(d) = a
      <4>1. a.kind = "joined" /\ a.of = d /\ n = a
        BY <3>1, <1>2, OfKind
      <4>2. InFlight(k, c, n)'
        BY <2>3, <3>1, <4>1, <1>8
      <4> QED
        BY <3>1, <4>1, <4>2 DEF Joined
    <3>2. CASE ~(j = k /\ Joined(d) = a)
      BY <2>3, <3>2, <1>7 DEF Joined
    <3> QED
      BY <3>1, <3>2
  <2>4. RosterShows(c, d) => RosterShows(c, d)'
    <3>1. CASE c # k
      BY <3>1, <1>4 DEF RosterShows
    <3>2. CASE c = k /\ a.kind # "roster"
      BY <3>2, <1>0, <1>1, <1>4 DEF RosterShows
    <3>3. CASE c = k /\ a.kind = "roster"
      <4>1. d \in n.of /\ to # {} /\ n.kind = "roster"
        BY <3>3, <2>2, <1>2, <1>3
      <4> QED
        BY <3>3, <4>1, <1>5 DEF RosterShows
    <3> QED
      BY <3>1, <3>2, <3>3
  <2> QED
    BY <2>1, <2>3, <2>4, <1>0 DEF Meets, Joined
<1>20. DeparturesComing'
  <2> SUFFICES ASSUME NEW c \in Conns, NEW d \in Conns, Expects(c), OnRoster(c, d)',
                      IdOf[d] \notin Members
               PROVE  Parted(c, IdOf[d])'
    BY <1>6 DEF DeparturesComing
  <2>1. OnRoster(c, d)
    <3>1. CASE c # k \/ a.kind # "roster"
      BY <3>1, <1>0, <1>2, <1>4, <1>5 DEF OnRoster
    <3>2. CASE c = k /\ a.kind = "roster"
      <4>0. \A id \in Members : IdOf[session[id]] = id
        BY <1>0 DEF TypeOK
      <4>1. d \notin n.of
        BY <3>2, <4>0, <1>2
      <4> QED
        BY <3>2, <4>1, <1>0, <1>4, <1>5 DEF OnRoster
    <3> QED
      BY <3>1, <3>2
  <2>2. PICK id \in ClientIds : id = IdOf[d]
    BY IdOfAssumption
  <2>3. Parted(c, id)
    BY <2>1, <2>2 DEF IndInv, DeparturesComing
  <2>4. PICK e : e = latest[id]
    OBVIOUS
  <2>5. ASSUME NEW j \in Conns, NEW m \in Notices, InFlight(j, c, m), m.kind = "left"
        PROVE  InFlight(j, c, m)'
    BY <2>5, <1>2, <1>7, <1>8
  <2>6. Parted(c, id)'
    BY <2>3, <2>4, <2>5, <1>0 DEF Parted
  <2> QED
    BY <2>2, <2>6
<1>21. UnmutedFirst'
  <2>1. ASSUME NEW c \in Conns, Expects(c), NEW i, NEW u, KnowsUnmuted(c, i, u)
        PROVE  KnowsUnmuted(c, i, u)'
    <3>1. ASSUME NEW m \in Notices, InFlight(c, c, m), m.kind = "welcome"
          PROVE  InFlight(c, c, m)'
      <4>1. CASE c = k /\ m = a
        BY <2>1, <3>1, <4>1, <1>2, <1>8
      <4> QED
        BY <3>1, <4>1, <1>7
    <3> QED
      BY <2>1, <3>1, <1>0 DEF KnowsUnmuted, Mute
  <2>2. ASSUME NEW j \in Conns, NEW c \in Conns, Expects(c), NEW h \in Notices,
               out'[j] # None, c \in out'[j].to, out'[j].notice = h, h.kind = "host"
        PROVE  KnowsUnmuted(c, h.id, h.unmuted)'
    <3>1. CASE j = k
      <4>1. h = a /\ queue[k] = <<h>>
        BY <2>2, <3>1, <1>1, <1>2, <1>5
      <4>2. KnowsUnmuted(c, h.id, h.unmuted)
        BY <2>2, <4>1, <1>0 DEF IndInv, UnmutedFirst
      <4> QED
        BY <2>1, <2>2, <4>2
    <3>2. CASE j # k
      <4>1. KnowsUnmuted(c, h.id, h.unmuted)
        BY <2>2, <3>2, <1>4 DEF IndInv, UnmutedFirst
      <4> QED
        BY <2>1, <2>2, <4>1
    <3> QED
      BY <3>1, <3>2
  <2>3. ASSUME NEW j \in Conns, NEW c \in Conns, Expects(c), NEW h \in Notices,
               h.kind = "host", queue'[j] = <<h>>
        PROVE  \/ KnowsUnmuted(c, h.id, h.unmuted)'
               \/ out'[j] # None /\ c \in out'[j].to /\ out'[j].notice = Set(Mute(h.id), h.unmuted)
    <3>1. CASE j = k
      <4>0. a = Set(Mute(h.id), h.unmuted)
        BY <2>3, <3>1, <1>1, <1>4
      <4>1. a.kind = "set" /\ n = a
        BY <4>0, <1>2, OfKind
      <4>2. c \in to
        BY <2>3, <4>1, <1>3 DEF Meant
      <4> QED
        BY <3>1, <4>0, <4>1, <4>2, <1>5
    <3>2. CASE j # k
      <4>1. \/ KnowsUnmuted(c, h.id, h.unmuted)
            \/ out[j] # None /\ c \in out[j].to /\ out[j].notice = Set(Mute(h.id), h.unmuted)
        BY <2>3, <3>2, <1>4 DEF IndInv, UnmutedFirst
      <4> QED
        BY <2>1, <2>3, <3>2, <4>1, <1>4
    <3> QED
      BY <3>1, <3>2
  <2>4. \A j \in Conns : out'[j] # None => out'[j].notice \in Notices
    BY <1>11 DEF TypeOK, Sendings
  <2> QED
    BY <2>2, <2>3, <2>4, <1>6 DEF UnmutedFirst, Set, Mute
<1> QED
  BY <1>11, <1>12, <1>13, <1>14, <1>15, <1>16, <1>17, <1>18, <1>19, <1>20, <1>21 DEF IndInv

\* One send ends: d has the notice, or expects nothing any more.
LEMMA DeliveryPreserves ==
  ASSUME IndInv, NEW k \in Conns, NEW d \in Conns, Deliver(k, d) \/ DeliverFails(k, d)
  PROVE  IndInv'
<1>0. /\ TypeOK /\ out[k] # None /\ d \in out[k].to /\ out[k] \in Sendings
      /\ UNCHANGED <<session, latest, host, version, step, queue>>
  BY DEF IndInv, TypeOK, Deliver, DeliverFails, registry
<1>1. PICK n \in Notices : n = out[k].notice
  BY <1>0 DEF Sendings
<1>2. /\ out' \in [Conns -> Sendings \cup {None}]
      /\ \A j \in Conns \ {k} : out'[j] = out[j]
      /\ out'[k] # None => out'[k].notice = n /\ out'[k].to = out[k].to \ {d}
      /\ out[k].to # {d} => out'[k] # None
      /\ out[k].to = {d} => out'[k] = None
  <2>1. out' = [out EXCEPT ![k] = IF out[k].to = {d} THEN None
                                  ELSE [out[k] EXCEPT !.to = out[k].to \ {d}]]
    BY DEF Deliver, DeliverFails, Sent
  <2>2. ASSUME out[k].to # {d}
        PROVE  /\ [out[k] EXCEPT !.to = out[k].to \ {d}] \in Sendings
               /\ [out[k] EXCEPT !.to = out[k].to \ {d}].notice = n
               /\ [out[k] EXCEPT !.to = out[k].to \ {d}].to = out[k].to \ {d}
    <3>1. out[k].to \ {d} \in (SUBSET Conns) \ {{}}
      BY <1>0, <2>2 DEF Sendings
    <3> QED
      BY <3>1, <1>0, <1>1 DEF Sendings
  <2>3. CASE out[k].to = {d}
    <3>1. out' = [out EXCEPT ![k] = None]
      BY <2>1, <2>3
    <3> QED
      BY <2>3, <3>1, <1>0 DEF TypeOK
  <2>4. CASE out[k].to # {d}
    <3>1. PICK e \in Sendings : e = [out[k] EXCEPT !.to = out[k].to \ {d}]
      BY <2>2, <2>4
    <3>2. e.notice = n /\ e.to = out[k].to \ {d} /\ e # None
      BY <2>2, <2>4, <3>1, SendingsAssumption
    <3>3. out' = [out EXCEPT ![k] = e]
      BY <2>1, <2>4, <3>1
    <3>4. out \in [Conns -> Sendings \cup {None}]
      BY <1>0 DEF TypeOK
    <3> QED
      BY <2>4, <3>2, <3>3, <3>4
  <2> QED
    BY <2>3, <2>4
<1>3. /\ n.kind \in {"welcome", "roster"} => d = k /\ out'[k] = None
      /\ n.kind = "roster" => n.of \in SUBSET Conns /\ queue[k] = <<Joined(k)>>
  BY <1>0, <1>1, <1>2 DEF IndInv, OwnReplies
<1>4. /\ \A c \in Conns \ {d} : peer'[c] = peer[c]
      /\ peer' \in [Conns -> Peers \cup {None}]
      /\ Expects(d)' => Expects(d) /\ peer[d] \in Peers /\ peer'[d] = After(peer[d], n)
  <2>1. peer[d] \in Peers => After(peer[d], n) \in Peers
    BY <1>3, AfterIs
  <2>2. CASE DeliverFails(k, d)
    <3>1. peer' = [peer EXCEPT ![d] = None]
      BY <2>2 DEF DeliverFails
    <3> QED
      BY <3>1, <1>0 DEF TypeOK, Expects
  <2>3. CASE Deliver(k, d)
    <3>1. peer' = [peer EXCEPT ![d] = IF peer[d] = None THEN None ELSE After(peer[d], n)]
      BY <2>3, <1>1 DEF Deliver
    <3> QED
      BY <3>1, <2>1, <1>0 DEF TypeOK, Expects
  <2> QED
    BY <2>2, <2>3
<1>5. /\ told \subseteq told'
      /\ \A c \in told' : c \in told \/ (c = d /\ step[d] = "committed" /\ ~Expects(d)')
      /\ told' \in SUBSET Conns
  <2>1. CASE Deliver(k, d)
    BY <2>1, <1>0 DEF Deliver, TypeOK
  <2>2. CASE DeliverFails(k, d)
    <3>1. peer'[d] = None
      BY <2>2, <1>0 DEF DeliverFails, TypeOK
    <3> QED
      BY <2>2, <3>1, <1>0 DEF DeliverFails, TypeOK, Expects
  <2> QED
    BY <2>1, <2>2
<1>6. /\ \A c \in Conns : Expects(c)' => Expects(c)
      /\ \A c \in Conns : Current(c)' <=> Current(c)
      /\ Members' = Members
      /\ \A c \in Conns : Announced(c)' => Announced(c)
  <2>1. \A c \in Conns : Expects(c)' => Expects(c)
    BY <1>4 DEF Expects
  <2>2. \A c \in Conns : Announced(c)' => Announced(c)
    BY <1>0, <1>5 DEF Announced, Current
  <2> QED
    BY <2>1, <2>2, <1>0 DEF Current, Members
<1>7. ASSUME NEW j \in Conns, NEW c \in Conns, NEW m, InFlight(j, c, m)
      PROVE  InFlight(j, c, m)' \/ (j = k /\ c = d /\ m = n)
  <2>1. CASE j = k /\ c \in out[k].to /\ m = out[k].notice /\ c # d
    <3>1. out[k].to # {d}
      BY <2>1
    <3> QED
      BY <2>1, <3>1, <1>1, <1>2 DEF InFlight
  <2>2. CASE ~(j = k /\ c \in out[k].to /\ m = out[k].notice)
    BY <2>2, <1>0, <1>2, <1>7 DEF InFlight, Meant
  <2> QED
    BY <2>1, <2>2, <1>1
<1>77. ASSUME NEW j \in Conns, NEW c \in Conns, NEW m, InFlight(j, c, m)'
       PROVE  InFlight(j, c, m)
  <2>1. CASE j = k
    BY <2>1, <1>77, <1>0, <1>1, <1>2 DEF InFlight, Meant
  <2>2. CASE j # k
    BY <2>2, <1>77, <1>0, <1>2 DEF InFlight, Meant
  <2> QED
    BY <2>1, <2>2
<1>8. \A j \in Conns : \A m : Has(j, m)' => Has(j, m)
  BY <1>0, <1>1, <1>2 DEF Has
<1>9. Has(k, n)
  BY <1>0, <1>1 DEF Has
<1>10. TypeOK'
  BY <1>0, <1>2, <1>4, <1>5, <1>6 DEF TypeOK
<1>11. LatestKept'
  BY <1>0, <1>6 DEF IndInv, LatestKept
<1>12. Phases'
  <2> SUFFICES ASSUME NEW c \in Conns
               PROVE  /\ step'[c] = "idle" => Free(c)' /\ ~Current(c)'
                      /\ step'[c] = "committed" =>
                           out'[c] = None /\ \E v \in Versions : queue'[c] = Introduction(c, v)
                      /\ step'[c] = "stale" => ~Expects(c)'
                      /\ c \in told' => step'[c] = "committed" /\ ~Expects(c)'
    BY DEF Phases, Introduction
  <2>1. /\ step[c] = "idle" => Free(c) /\ ~Current(c)
        /\ step[c] = "committed" =>
             out[c] = None /\ \E v \in Versions : queue[c] = Introduction(c, v)
        /\ step[c] = "stale" => ~Expects(c)
        /\ c \in told => step[c] = "committed" /\ ~Expects(c)
    BY DEF IndInv, Phases
  <2> QED
    BY <2>1, <1>0, <1>2, <1>5, <1>6 DEF Free
<1>13. QueueShapes' /\ OwnReplies'
  <2>1. QueueShapes'
    BY <1>0 DEF IndInv, QueueShapes, Rest, Greeting, Introduction, IsHandover
  <2>2. OwnReplies'
    <3> SUFFICES ASSUME NEW c \in Conns, out'[c] # None
                 PROVE  /\ out'[c].notice.kind \in {"welcome", "roster"} => out'[c].to = {c}
                        /\ out'[c].notice.kind = "roster" => out'[c].notice.of \in SUBSET Conns
                                                             /\ queue[c] = <<Joined(c)>>
      BY <1>0 DEF OwnReplies, Joined
    <3>1. CASE c = k
      BY <3>1, <1>2, <1>3
    <3>2. CASE c # k
      BY <3>2, <1>2 DEF IndInv, OwnReplies
    <3> QED
      BY <3>1, <3>2
  <2> QED
    BY <2>1, <2>2
<1>14. \A f \in Facts : Expects(d)' => /\ peer'[d].heard[f] >= peer[d].heard[f]
                                       /\ peer'[d].heard[f] <= version[f]
                                       /\ peer'[d].heard[f] \in Nat /\ peer[d].heard[f] \in Nat
                                       /\ version[f] \in Nat
  <2> SUFFICES ASSUME Expects(d)', NEW f \in Facts
               PROVE  /\ peer'[d].heard[f] >= peer[d].heard[f]
                      /\ peer'[d].heard[f] <= version[f]
                      /\ peer'[d].heard[f] \in Nat /\ peer[d].heard[f] \in Nat
                      /\ version[f] \in Nat
    OBVIOUS
  <2>1. PICK p \in Peers : p = peer[d]
    BY <1>4
  <2>2. peer'[d] = After(p, n) /\ Expects(d)
    BY <2>1, <1>4
  <2>3. Timely(n) /\ p.heard[f] <= version[f]
    BY <2>1, <2>2, <1>9 DEF IndInv, NothingAhead
  <2>4. /\ After(p, n) \in Peers
        /\ \/ About(n, f) /\ After(p, n).heard[f] >= p.heard[f]
              /\ After(p, n).heard[f] \in {p.heard[f], VersionIn(n, f)}
           \/ After(p, n).heard[f] = p.heard[f]
    BY <1>3, AfterIs
  <2>5. After(p, n).heard[f] <= version[f]
    BY <2>3, <2>4 DEF Timely
  <2>6. After(p, n).heard[f] \in Nat /\ p.heard[f] \in Nat /\ version[f] \in Nat
    BY <2>4, <1>0 DEF Peers, Versions, TypeOK
  <2> QED
    BY <2>1, <2>2, <2>4, <2>5, <2>6
<1>15. NothingAhead'
  <2>1. \A m : Timely(m) => Timely(m)'
    BY <1>0 DEF Timely, About, VersionIn, Mute
  <2>2. \A j \in Conns : \A m : Has(j, m)' => Timely(m)'
    BY <2>1, <1>8 DEF IndInv, NothingAhead
  <2>3. \A c \in Conns : Expects(c)' => \A f \in Facts : peer'[c].heard[f] <= version[f]
    BY <1>4, <1>6, <1>14 DEF IndInv, NothingAhead
  <2> QED
    BY <2>2, <2>3, <1>0 DEF NothingAhead
<1>16. Expects(d)' =>
         /\ peer'[d].raced = peer[d].raced
         /\ \A f \in Facts : IF About(n, f)
                              THEN peer'[d].heard[f] >= VersionIn(n, f) /\ peer'[d].shown[f] = VersionIn(n, f)
                              ELSE peer'[d].shown[f] = peer[d].shown[f]
         /\ peer'[d].listed = IF n.kind = "roster" THEN n.of ELSE peer[d].listed
         /\ peer'[d].joined = IF n.kind = "joined" THEN peer[d].joined \cup {n.of} ELSE peer[d].joined
         /\ peer'[d].left = IF n.kind = "left" THEN peer[d].left \cup {n.of} ELSE peer[d].left
  <2> SUFFICES ASSUME Expects(d)'
               PROVE  /\ peer'[d].raced = peer[d].raced
                      /\ \A f \in Facts : IF About(n, f)
                                           THEN peer'[d].heard[f] >= VersionIn(n, f) /\ peer'[d].shown[f] = VersionIn(n, f)
                                           ELSE peer'[d].shown[f] = peer[d].shown[f]
                      /\ peer'[d].listed = IF n.kind = "roster" THEN n.of ELSE peer[d].listed
                      /\ peer'[d].joined = IF n.kind = "joined" THEN peer[d].joined \cup {n.of}
                                           ELSE peer[d].joined
                      /\ peer'[d].left = IF n.kind = "left" THEN peer[d].left \cup {n.of}
                                         ELSE peer[d].left
    OBVIOUS
  <2>1. PICK p \in Peers : p = peer[d] /\ peer'[d] = After(p, n)
    BY <1>4
  <2>2. /\ After(p, n).raced = p.raced
        /\ \A f \in Facts : IF About(n, f)
                             THEN After(p, n).heard[f] >= VersionIn(n, f) /\ After(p, n).shown[f] = VersionIn(n, f)
                             ELSE After(p, n).shown[f] = p.shown[f]
        /\ After(p, n).listed = IF n.kind = "roster" THEN n.of ELSE p.listed
        /\ After(p, n).joined = IF n.kind = "joined" THEN p.joined \cup {n.of} ELSE p.joined
        /\ After(p, n).left = IF n.kind = "left" THEN p.left \cup {n.of} ELSE p.left
    BY <1>3, AfterIs
  <2> QED
    BY <2>1, <2>2
<1>17. RosterOnce'
  <2> SUFFICES ASSUME NEW c \in Conns, Expects(c)', NEW m, Has(c, m)', m.kind = "roster"
               PROVE  peer'[c].listed = {}
    BY DEF RosterOnce
  <2>1. peer[c].listed = {}
    BY <1>6, <1>8 DEF IndInv, RosterOnce
  <2>2. CASE c = d /\ n.kind = "roster"
    <3>1. d = k /\ out'[k] = None /\ queue'[k] = <<Joined(k)>>
      BY <2>2, <1>0, <1>3
    <3>2. m \in ToSet(<<Joined(k)>>)
      BY <2>2, <3>1 DEF Has
    <3> QED
      BY <3>2, ShortLists, OfKind
  <2>3. CASE c # d \/ n.kind # "roster"
    BY <2>1, <2>3, <1>4, <1>16
  <2> QED
    BY <2>2, <2>3
<1>18. NewsComes'
  <2> SUFFICES ASSUME NEW c \in Conns, Expects(c)', NEW f \in Facts
               PROVE  /\ peer'[c].heard[f] = version'[f] \/ ToHear(c, f, version[f])'
                      /\ f \notin peer'[c].raced =>
                           /\ peer'[c].shown[f] = version'[f] \/ ToHear(c, f, version[f])'
                           /\ AllSay(c, f, version[f])'
    BY DEF NewsComes
  <2>0. PICK v \in Nat : v = version[f] /\ v = version'[f]
    BY <1>0 DEF TypeOK, Versions
  <2>1. /\ peer[c].heard[f] = v \/ ToHear(c, f, v)
        /\ f \notin peer[c].raced =>
             /\ peer[c].shown[f] = v \/ ToHear(c, f, v)
             /\ AllSay(c, f, v)
    BY <2>0, <1>6 DEF IndInv, NewsComes
  <2>2. AllSay(c, f, v) => AllSay(c, f, v)'
    BY <1>77 DEF AllSay, About, VersionIn, Mute
  <2>3. peer'[c].raced = peer[c].raced
    BY <1>4, <1>16
  <2>33. ASSUME c = d
         PROVE  \E x, y \in Nat : /\ x = peer[c].heard[f] /\ y = peer'[c].heard[f]
                                  /\ x <= y /\ y <= v
    <3>1. /\ peer[c].heard[f] \in Nat /\ peer'[c].heard[f] \in Nat
          /\ peer'[c].heard[f] >= peer[c].heard[f] /\ peer'[c].heard[f] <= v
      BY <2>0, <2>33, <1>14
    <3> QED
      BY <3>1
  <2>4. CASE c = d /\ About(n, f)
    <3>1. InFlight(k, d, n)
      BY <1>0, <1>1 DEF InFlight
    <3>2. peer'[d].heard[f] >= VersionIn(n, f) /\ peer'[d].shown[f] = VersionIn(n, f)
      BY <2>4, <1>16
    <3>3. f \notin peer'[c].raced => peer'[c].shown[f] = v
      BY <2>1, <2>3, <2>4, <3>1, <3>2 DEF AllSay
    <3>4. peer'[c].heard[f] = v \/ ToHear(c, f, v)'
      <4>1. CASE peer[c].heard[f] = v
        BY <2>4, <2>33, <4>1
      <4>2. ASSUME NEW j \in Conns, NEW m \in Notices, InFlight(j, c, m), Says(m, f, v)
            PROVE  peer'[c].heard[f] = v \/ ToHear(c, f, v)'
        <5>1. CASE m = n
          <6>1. VersionIn(n, f) = v
            BY <4>2, <5>1 DEF Says
          <6>2. peer'[c].heard[f] >= v
            BY <2>4, <3>2, <6>1
          <6> QED
            BY <2>4, <2>33, <6>2
        <5>2. CASE m # n
          <6>1. InFlight(j, c, m)'
            BY <4>2, <5>2, <1>7
          <6> QED
            BY <4>2, <6>1 DEF ToHear, Says, About, VersionIn, Mute
        <5> QED
          BY <5>1, <5>2
      <4> QED
        BY <2>1, <4>1, <4>2 DEF ToHear
    <3> QED
      BY <2>0, <2>1, <2>2, <2>3, <3>3, <3>4
  <2>5. CASE ~(c = d /\ About(n, f))
    <3>1. peer'[c].shown[f] = peer[c].shown[f]
      BY <2>5, <1>4, <1>16
    <3>2. peer[c].heard[f] = v => peer'[c].heard[f] = v
      <4>1. CASE c = d
        BY <2>33, <4>1
      <4>2. CASE c # d
        BY <4>2, <1>4
      <4> QED
        BY <4>1, <4>2
    <3>3. ToHear(c, f, v) => ToHear(c, f, v)'
      <4> SUFFICES ASSUME NEW j \in Conns, NEW m \in Notices, InFlight(j, c, m), Says(m, f, v)
                   PROVE  InFlight(j, c, m)'
        BY DEF ToHear, Says, About, VersionIn, Mute
      <4>1. ~(c = d /\ m = n)
        BY <2>5 DEF Says
      <4> QED
        BY <4>1, <1>7
    <3> QED
      BY <2>0, <2>1, <2>2, <2>3, <3>1, <3>2, <3>3
  <2> QED
    BY <2>4, <2>5
<1>19. MembersMeeting'
  <2> SUFFICES ASSUME NEW c \in Conns, NEW x \in Conns, c # x, Expects(c)', Announced(x)'
               PROVE  Meets(c, x)'
    BY DEF MembersMeeting
  <2>1. Meets(c, x) /\ Expects(c)
    BY <1>6 DEF IndInv, MembersMeeting
  <2>2. CASE x \in peer[c].listed \cup peer[c].joined
    <3>1. CASE c = d /\ n.kind = "roster"
      <4>1. peer[c].listed = {}
        BY <2>1, <3>1, <1>3, <1>9 DEF IndInv, RosterOnce
      <4> QED
        BY <2>2, <3>1, <4>1, <1>16 DEF Meets
    <3>2. CASE c # d \/ n.kind # "roster"
      BY <2>2, <3>2, <1>4, <1>16 DEF Meets
    <3> QED
      BY <3>1, <3>2
  <2>3. CASE RosterShows(c, x)
    <3>1. CASE c = k /\ n.kind = "roster" /\ x \in n.of
      BY <3>1, <1>3, <1>16 DEF Meets
    <3>2. CASE ~(c = k /\ n.kind = "roster" /\ x \in n.of)
      <4>1. RosterShows(c, x)'
        BY <2>3, <3>2, <1>0, <1>1, <1>2 DEF RosterShows
      <4> QED
        BY <4>1 DEF Meets
    <3> QED
      BY <3>1, <3>2
  <2>4. ASSUME NEW j \in Conns, InFlight(j, c, Joined(x))
        PROVE  Meets(c, x)'
    <3>1. CASE c = d /\ Joined(x) = n
      <4>1. n.kind = "joined" /\ n.of = x
        BY <3>1, OfKind
      <4> QED
        BY <3>1, <4>1, <1>16 DEF Meets
    <3>2. CASE ~(c = d /\ Joined(x) = n)
      BY <2>4, <3>2, <1>7 DEF Meets, Joined
    <3> QED
      BY <3>1, <3>2
  <2> QED
    BY <2>1, <2>2, <2>3, <2>4 DEF Meets
<1>20. DeparturesComing'
  <2> SUFFICES ASSUME NEW c \in Conns, NEW x \in Conns, Expects(c)', OnRoster(c, x)',
                      IdOf[x] \notin Members
               PROVE  Parted(c, IdOf[x])'
    BY <1>6 DEF DeparturesComing
  <2>1. OnRoster(c, x)
    <3>1. CASE c = d /\ n.kind = "roster"
      <4>1. c = k /\ out'[c] = None /\ peer'[c].listed = n.of
        BY <3>1, <1>3, <1>16
      <4> QED
        BY <3>1, <4>1, <1>0, <1>1 DEF OnRoster
    <3>2. CASE c # d \/ n.kind # "roster"
      <4>1. peer'[c].listed = peer[c].listed
        BY <3>2, <1>4, <1>16
      <4> QED
        BY <4>1, <1>0, <1>1, <1>2 DEF OnRoster
    <3> QED
      BY <3>1, <3>2
  <2>2. PICK id \in ClientIds : id = IdOf[x]
    BY IdOfAssumption
  <2>3. Parted(c, id)
    BY <2>1, <2>2, <1>6 DEF IndInv, DeparturesComing
  <2>4. PICK e : e = latest[id]
    OBVIOUS
  <2>5. CASE e \in peer[c].left
    <3>1. e \in peer'[c].left
      BY <2>5, <1>4, <1>16
    <3> QED
      BY <2>2, <2>4, <3>1, <1>0 DEF Parted
  <2>6. ASSUME NEW j \in Conns, NEW m \in Notices, InFlight(j, c, m), m.kind = "left", m.of = e
        PROVE  e \in peer'[c].left \/ InFlight(j, c, m)'
    <3>1. CASE c = d /\ m = n
      BY <2>6, <3>1, <1>16
    <3>2. CASE ~(c = d /\ m = n)
      BY <2>6, <3>2, <1>7
    <3> QED
      BY <3>1, <3>2
  <2>7. Parted(c, id)'
    BY <2>2, <2>3, <2>4, <2>5, <2>6, <1>0 DEF Parted
  <2> QED
    BY <2>2, <2>7
<1>21. UnmutedFirst'
  <2>1. ASSUME NEW c \in Conns, Expects(c)', NEW i \in ClientIds, NEW u \in Nat, KnowsUnmuted(c, i, u)
        PROVE  KnowsUnmuted(c, i, u)'
    <3>0. Mute(i) \in Facts
      BY FactsDiffer
    <3>1. CASE peer[c].heard[Mute(i)] >= u
      <4>1. peer'[c].heard[Mute(i)] >= u
        BY <2>1, <3>0, <3>1, <1>4, <1>14
      <4> QED
        BY <4>1 DEF KnowsUnmuted, Mute
    <3>2. ASSUME NEW m \in Notices, InFlight(c, c, m), m.kind = "welcome", m.versions[Mute(i)] >= u
          PROVE  KnowsUnmuted(c, i, u)'
      <4>1. CASE c = d /\ m = n
        <5>1. peer'[c].heard[Mute(i)] >= m.versions[Mute(i)] /\ peer'[c].heard[Mute(i)] \in Nat
              /\ m.versions[Mute(i)] \in Nat
          BY <2>1, <3>0, <3>2, <4>1, <1>14, <1>16, NoticeParts DEF Versions, About, VersionIn
        <5>2. peer'[c].heard[Mute(i)] >= u
          BY <5>1, <3>2
        <5> QED
          BY <5>2 DEF KnowsUnmuted, Mute
      <4>2. CASE ~(c = d /\ m = n)
        BY <3>2, <4>2, <1>7 DEF KnowsUnmuted, Mute
      <4> QED
        BY <4>1, <4>2
    <3> QED
      BY <2>1, <3>1, <3>2 DEF KnowsUnmuted
  <2>2. ASSUME NEW j \in Conns, NEW c \in Conns, Expects(c)', NEW h \in Notices,
               out'[j] # None, c \in out'[j].to, out'[j].notice = h, h.kind = "host"
        PROVE  KnowsUnmuted(c, h.id, h.unmuted)'
    <3>1. out[j] # None /\ c \in out[j].to /\ out[j].notice = h
      BY <2>2, <1>0, <1>1, <1>2
    <3>2. KnowsUnmuted(c, h.id, h.unmuted)
      BY <2>2, <3>1, <1>6 DEF IndInv, UnmutedFirst
    <3> QED
      BY <2>1, <2>2, <3>2, NoticeParts
  <2>3. ASSUME NEW j \in Conns, NEW c \in Conns, Expects(c)', NEW h \in Notices,
               h.kind = "host", queue[j] = <<h>>
        PROVE  \/ KnowsUnmuted(c, h.id, h.unmuted)'
               \/ out'[j] # None /\ c \in out'[j].to /\ out'[j].notice = Set(Mute(h.id), h.unmuted)
    <3>0. h.id \in ClientIds /\ h.unmuted \in Nat /\ Mute(h.id) \in Facts
      BY <2>3, NoticeParts, FactsDiffer
    <3>1. \/ KnowsUnmuted(c, h.id, h.unmuted)
          \/ out[j] # None /\ c \in out[j].to /\ out[j].notice = Set(Mute(h.id), h.unmuted)
      BY <2>3, <1>6 DEF IndInv, UnmutedFirst
    <3>2. CASE KnowsUnmuted(c, h.id, h.unmuted)
      BY <2>1, <2>3, <3>0, <3>2
    <3>3. CASE out[j] # None /\ c \in out[j].to /\ out[j].notice = Set(Mute(h.id), h.unmuted)
      <4>1. CASE j = k /\ c = d
        <5>1. n.kind = "set" /\ n.fact = Mute(h.id) /\ n.version = h.unmuted
          BY <3>3, <4>1, <1>1, OfKind
        <5>2. peer'[c].heard[Mute(h.id)] >= h.unmuted
          BY <2>3, <3>0, <4>1, <5>1, <1>16 DEF About, VersionIn
        <5> QED
          BY <5>2 DEF KnowsUnmuted, Mute
      <4>2. CASE j = k /\ c # d
        <5>1. out[k].to # {d}
          BY <3>3, <4>2
        <5> QED
          BY <3>3, <4>2, <5>1, <1>1, <1>2
      <4>3. CASE j # k
        BY <3>3, <4>3, <1>2
      <4> QED
        BY <4>1, <4>2, <4>3
    <3> QED
      BY <3>1, <3>2, <3>3
  <2>4. \A j \in Conns : out'[j] # None => out'[j].notice \in Notices
    BY <1>10 DEF TypeOK, Sendings
  <2> QED
    BY <2>2, <2>3, <2>4, <1>0 DEF UnmutedFirst, Set, Mute
<1> QED
  BY <1>10, <1>11, <1>12, <1>13, <1>15, <1>17, <1>18, <1>19, <1>20, <1>21 DEF IndInv

LEMMA NothingMoves ==
  ASSUME IndInv, UNCHANGED vars
  PROVE  IndInv'
<1>0. UNCHANGED <<session, latest, host, version, step, queue, out, peer, told>>
  BY DEF vars, registry
<1>1. TypeOK' /\ LatestKept' /\ Phases' /\ QueueShapes' /\ OwnReplies'
  BY <1>0 DEF IndInv, TypeOK, LatestKept, Phases, QueueShapes, OwnReplies, Members, Expects, Current,
              Free, Rest, Greeting, Introduction, IsHandover
<1>2. NothingAhead' /\ RosterOnce'
  BY <1>0 DEF IndInv, NothingAhead, RosterOnce, Has, Timely, Expects, About, VersionIn, Mute
<1>3. NewsComes'
  <2>1. \A c \in Conns, f \in Facts : \A v : ToHear(c, f, v) => ToHear(c, f, v)'
    BY <1>0 DEF ToHear, InFlight, Meant, Says, About, VersionIn, Mute
  <2>2. \A c \in Conns, f \in Facts : \A v : AllSay(c, f, v) => AllSay(c, f, v)'
    BY <1>0 DEF AllSay, InFlight, Meant, About, VersionIn, Mute
  <2> QED
    BY <2>1, <2>2, <1>0 DEF IndInv, NewsComes, Expects
<1>4. MembersMeeting'
  BY <1>0 DEF IndInv, MembersMeeting, Meets, RosterShows, InFlight, Meant, Expects, Announced, Current,
              Joined
<1>5. DeparturesComing'
  BY <1>0 DEF IndInv, DeparturesComing, OnRoster, Parted, InFlight, Meant, Expects, Members
<1>6. UnmutedFirst'
  BY <1>0 DEF IndInv, UnmutedFirst, KnowsUnmuted, InFlight, Meant, Expects, Set, Mute
<1> QED
  BY <1>1, <1>2, <1>3, <1>4, <1>5, <1>6 DEF IndInv

LEMMA StepPreserves ==
  ASSUME IndInv, [Next]_vars
  PROVE  IndInv'
<1>1. CASE UNCHANGED vars
  BY <1>1, NothingMoves
<1>2. ASSUME NEW c \in Conns,
             \/ Join(c) \/ CheckCommit(c)
             \/ Lookup(c)
             \/ \E d \in Conns : Deliver(c, d) \/ DeliverFails(c, d)
             \/ \E id \in ClientIds :
                  \/ KickPlayer(c, id) \/ TransferHost(c, id)
                  \/ \E muted \in BOOLEAN : MutePlayer(c, id, muted)
             \/ SetLobbyOptions(c)
             \/ Leave(c) \/ LeaveReplaced(c)
      PROVE  IndInv'
  BY <1>2, JoinPreserves, CheckCommitPreserves, LookupPreserves, DeliveryPreserves, KickPreserves,
     RequestPreserves, LeavePreserves, LeaveReplacedPreserves
<1> QED
  BY <1>1, <1>2 DEF Next

LEMMA Inductive == Spec => []IndInv
<1>1. IndInv /\ [Next]_vars => IndInv'
  BY StepPreserves
<1> QED
  BY InitEstablishes, <1>1, PTL DEF Spec

-----------------------------------------------------------------------------
\* Registry, queues and peers keep their types, and the lobby has a host among
\* its members as long as it has any.
THEOREM TypesHold == Spec => []TypeOK
<1>1. IndInv => TypeOK
  BY DEF IndInv
<1> QED
  BY Inductive, <1>1, PTL

\* However the tasks interleave: whoever is a member has been sent the present
\* host, mutes and options, or will be, and it came last unless an older message
\* was on its way when it changed or when the member joined.  The commit of
\* handle_v3 takes the facts and the membership under one lock, and every
\* broadcast looks up its receivers after its change; nothing orders the sends of
\* two tasks, so where they overlap the last one may be the older.
THEOREM NewsReaches == Spec => []NewsIsComing
<1>1. ASSUME NEW c \in Conns, NEW f \in Facts, ToHear(c, f, version[f])
      PROVE  \E k \in Conns :
               \/ /\ out[k] # None /\ c \in out[k].to
                  /\ About(out[k].notice, f) /\ VersionIn(out[k].notice, f) = version[f]
               \/ \E n \in ToSet(queue[k]) :
                    (About(n, f) /\ VersionIn(n, f) = version[f]) /\ Meant(k, n, c)
  BY <1>1 DEF ToHear, InFlight, Says
<1>2. ASSUME IndInv, NEW c \in Conns, Expects(c), NEW f \in Facts
      PROVE  \/ /\ peer[c].heard[f] = version[f]
                /\ peer[c].shown[f] = version[f] \/ f \in peer[c].raced
             \/ ToHear(c, f, version[f])
  BY <1>2 DEF IndInv, NewsComes
<1>3. IndInv => NewsIsComing
  BY <1>1, <1>2 DEF NewsIsComing, Coming
<1> QED
  BY Inductive, <1>3, PTL

\* Two members that register at once do not miss each other: the roster is read
\* after the commit, and PlayerJoined goes to whoever is a member after it.
THEOREM MembersDoMeet == Spec => []MembersMeet
<1>1. ASSUME IndInv, NEW c \in Conns, NEW d \in Conns, c # d, Expects(c), Announced(d),
             d \notin peer[c].listed \cup peer[c].joined
      PROVE  \E k \in Conns :
               \/ /\ out[k] # None /\ c \in out[k].to
                  /\ \/ out[k].notice.kind = "joined" /\ out[k].notice.of = d
                     \/ out[k].notice.kind = "roster"
                        /\ (out[k].notice.of = None \/ d \in out[k].notice.of)
               \/ \E n \in ToSet(queue[k]) :
                    /\ \/ n.kind = "joined" /\ n.of = d
                       \/ n.kind = "roster" /\ (n.of = None \/ d \in n.of)
                    /\ Meant(k, n, c)
  <2> DEFINE Shown(k) ==
               \/ /\ out[k] # None /\ c \in out[k].to
                  /\ \/ out[k].notice.kind = "joined" /\ out[k].notice.of = d
                     \/ out[k].notice.kind = "roster"
                        /\ (out[k].notice.of = None \/ d \in out[k].notice.of)
               \/ \E n \in ToSet(queue[k]) :
                    /\ \/ n.kind = "joined" /\ n.of = d
                       \/ n.kind = "roster" /\ (n.of = None \/ d \in n.of)
                    /\ Meant(k, n, c)
  <2>1. RosterShows(c, d) \/ \E k \in Conns : InFlight(k, c, Joined(d))
    BY <1>1 DEF IndInv, MembersMeeting, Meets
  <2>2. ASSUME NEW k \in Conns, InFlight(k, c, Joined(d))
        PROVE  Shown(k)
    <3>1. Joined(d).kind = "joined" /\ Joined(d).of = d
      BY OfKind
    <3> QED
      BY <2>2, <3>1 DEF InFlight
  <2>3. ASSUME out[c] # None, out[c].notice.kind = "roster", d \in out[c].notice.of
        PROVE  Shown(c)
    <3>1. out[c].to = {c}
      BY <2>3, <1>1 DEF IndInv, OwnReplies
    <3> QED
      BY <2>3, <3>1
  <2>4. ASSUME NEW n \in ToSet(queue[c]), n.kind = "roster"
        PROVE  Shown(c)
    <3>1. Rest(queue[c]) \/ Greeting(c, queue[c])
      BY <1>1 DEF IndInv, QueueShapes
    <3>2. PICK q : q = queue[c]
      OBVIOUS
    <3>3. n \in ToSet(q)
      BY <2>4, <3>2
    <3>4. ASSUME NEW m, NEW h, IsHandover(m, h)
          PROVE  n \notin {m, h}
      BY <2>4, <3>4, OfKind DEF IsHandover
    <3>5. q # <<>>
      BY <3>3, ShortLists
    <3>6. ASSUME NEW a, a.kind \in {"left", "set", "host"}
          PROVE  q # <<a>>
      BY <2>4, <3>3, <3>6, ShortLists
    <3>7. ASSUME NEW m, NEW h, IsHandover(m, h)
          PROVE  q # <<m, h>>
      BY <3>3, <3>4, <3>7, ShortLists
    <3>8. ASSUME NEW l, NEW m, NEW h, l.kind = "left", IsHandover(m, h)
          PROVE  q # <<l, m, h>>
      BY <2>4, <3>3, <3>4, <3>8, ShortLists
    <3>9. Greeting(c, q)
      BY <3>1, <3>2, <3>5, <3>6, <3>7, <3>8 DEF Rest
    <3>10. n = Roster(None)
      <4>1. n # Joined(c) /\ \A v : n # Welcome(v)
        BY <2>4, OfKind
      <4>2. ASSUME NEW v, q = Introduction(c, v)
            PROVE  n = Roster(None)
        BY <4>1, <4>2, <3>3, ShortLists DEF Introduction
      <4>3. ASSUME q = <<Roster(None), Joined(c)>>
            PROVE  n = Roster(None)
        BY <4>1, <4>3, <3>3, ShortLists
      <4>4. q # <<Joined(c)>>
        BY <4>1, <3>3, ShortLists
      <4> QED
        BY <3>9, <4>2, <4>3, <4>4 DEF Greeting
    <3>11. n.of = None
      BY <3>10, OfKind
    <3>12. Meant(c, n, c)
      BY <2>4 DEF Meant
    <3> QED
      BY <2>4, <3>11, <3>12
  <2> HIDE DEF Shown
  <2>5. \E k \in Conns : Shown(k)
    BY <2>1, <2>2, <2>3, <2>4 DEF RosterShows
  <2> QED
    BY <2>5 DEF Shown
<1>2. IndInv => MembersMeet
  BY <1>1 DEF MembersMeet, Coming
<1> QED
  BY Inductive, <1>2, PTL

\* An identity that c was shown in its roster does not leave unnoticed, whatever
\* replaced it in between: PlayerLeft names the last session, and c is among the
\* receivers because the lookup follows the removal.
THEOREM ListedDeparturesDoReach == Spec => []ListedDeparturesReach
<1>1. ASSUME IndInv, NEW c \in Conns, Expects(c), NEW d \in peer[c].listed, IdOf[d] \notin Members,
             latest[IdOf[d]] \notin peer[c].left
      PROVE  \E k \in Conns :
               \/ /\ out[k] # None /\ c \in out[k].to
                  /\ out[k].notice.kind = "left" /\ out[k].notice.of = latest[IdOf[d]]
               \/ \E n \in ToSet(queue[k]) :
                    /\ n.kind = "left" /\ n.of = latest[IdOf[d]]
                    /\ Meant(k, n, c)
  <2>1. d \in Conns
    <3>1. peer[c] \in Peers
      BY <1>1 DEF IndInv, TypeOK, Expects
    <3> QED
      BY <3>1, <1>1 DEF Peers
  <2>2. PICK k \in Conns, n \in Notices :
          InFlight(k, c, n) /\ n.kind = "left" /\ n.of = latest[IdOf[d]]
    BY <1>1, <2>1 DEF IndInv, DeparturesComing, OnRoster, Parted
  <2> QED
    BY <2>2 DEF InFlight
<1>2. IndInv => ListedDeparturesReach
  BY <1>1 DEF ListedDeparturesReach, DeparturesReach, Coming
<1> QED
  BY Inductive, <1>2, PTL

\* The order of the two notices of a host transfer reaches every welcomed member,
\* also one that joins between them: its RegisterSuccess has the mute already.
THEOREM UnmutedComesFirst == Spec => []UnmutedBeforeHost
<1>1. ASSUME IndInv, NEW k \in Conns, NEW c \in Conns, Expects(c),
             out[k] # None, out[k].notice.kind = "host", c \in out[k].to,
             ~ \E n \in ToSet(queue[c]) : n.kind = "welcome",
             ~ (out[c] # None /\ out[c].notice.kind = "welcome")
      PROVE  peer[c].heard[Mute(out[k].notice.id)] >= out[k].notice.unmuted
  <2>1. KnowsUnmuted(c, out[k].notice.id, out[k].notice.unmuted)
    BY <1>1 DEF IndInv, UnmutedFirst
  <2> QED
    BY <1>1, <2>1 DEF KnowsUnmuted, InFlight
<1>2. IndInv => UnmutedBeforeHost
  BY <1>1 DEF UnmutedBeforeHost
<1> QED
  BY Inductive, <1>2, PTL
=============================================================================

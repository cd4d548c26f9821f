---------------------------- MODULE Announcements ----------------------------
(***************************************************************************)
(* What the members of one lobby are told of it: RegisterSuccess and the   *)
(* roster to the newcomer, PlayerJoined and PlayerLeft, HostChanged,       *)
(* PlayerMuteChanged and LobbyOptionsChanged to the others.                *)
(*                                                                         *)
(* The lobby changes inside a critical section.  The task that changed it  *)
(* then works through its notices one after the other: it looks up the     *)
(* receivers under a read lock, and sends outside any lock, in any order,  *)
(* while other tasks change the lobby and do the same.  The tokens are     *)
(* left to TokenDelivery, the guards of admission to Lobby.                *)
(***************************************************************************)
EXTENDS Naturals, Sequences, SequencesExt

CONSTANTS
  Conns,       \* connections; each has at most one session
  ClientIds,   \* identities
  IdOf,        \* the identity of each connection
  None,
  MaxRequests  \* bound: how often the host mutes, transfers or sets options

ASSUME IdOfAssumption == IdOf \in [Conns -> ClientIds] /\ None \notin Conns \cup ClientIds

\* What the host's requests change, besides the membership: "mute" of id.  A mute
\* ends with the membership of its player, and everything with the lobby.
Host == <<"host">>
Options == <<"options">>
Mute(id) == <<"mute", id>>
Facts == {Host, Options} \cup {Mute(id) : id \in ClientIds}

VARIABLES
  session,  \* client id -> the connection of its record, or None
  latest,   \* client id -> the connection of its last record, or None
  host,     \* host_id, or None if the lobby does not exist
  version,  \* fact -> how often it was set; the messages do not carry it
  step,     \* connection -> where its task stands
  queue,    \* connection -> the notices its task has still to look up
  out,      \* connection -> the notice it is sending and to whom, or None
  peer,     \* connection -> what its peer was sent while it is a member and no
            \* send to it has failed, None otherwise
  told,     \* connections told to end between their commit and its check
  requests  \* how many requests of the host were served, for their bound

registry == <<session, latest, host, version, requests>>
vars == <<registry, step, queue, out, peer, told>>

Members == {id \in ClientIds : session[id] # None}

Current(c) == session[IdOf[c]] = c

\* What a peer was sent: the newest version of each fact, the one that came last,
\* which is what it goes by, the sessions of its roster, and those whose
\* PlayerJoined and PlayerLeft it had.  raced: the facts that changed, or that it
\* joined, while an older version was still on its way to it.
NewPeer(raced) ==
  [heard |-> [f \in Facts |-> 0], shown |-> [f \in Facts |-> 0], raced |-> raced,
   listed |-> {}, joined |-> {}, left |-> {}]

\* A member all of whose notices were delivered so far.
Expects(c) == peer[c] # None

\* A task with no notice left.
Free(c) == queue[c] = <<>> /\ out[c] = None

-----------------------------------------------------------------------------
\* Notices

Welcome(v) == [kind |-> "welcome", versions |-> v]
Roster(ds) == [kind |-> "roster", of |-> ds]
Joined(c) == [kind |-> "joined", of |-> c]
Left(c, v) == [kind |-> "left", of |-> c, version |-> v]
Set(f, v) == [kind |-> "set", fact |-> f, version |-> v]
HostSet(id, v) == [kind |-> "host", fact |-> Host, version |-> v.host,
                   id |-> id, unmuted |-> v.mute]

Versions == [Facts -> Nat]

Notices ==
  [kind: {"welcome"}, versions: Versions]
    \cup [kind: {"roster"}, of: (SUBSET Conns) \cup {None}]
    \cup [kind: {"joined"}, of: Conns]
    \cup [kind: {"left"}, of: Conns, version: Nat]
    \cup [kind: {"set"}, fact: Facts, version: Nat]
    \cup [kind: {"host"}, fact: {Host}, version: Nat, id: ClientIds, unmuted: Nat]

Sendings == [notice: Notices, to: (SUBSET Conns) \ {{}}]

Peers == [heard: Versions, shown: Versions, raced: SUBSET Facts,
          listed: SUBSET Conns, joined: SUBSET Conns, left: SUBSET Conns]

\* A task that sends nothing has no sending.
ASSUME SendingsAssumption == None \notin Sendings

\* What a notice is about.  A player that left takes its mute with it.
About(n, f) ==
  \/ n.kind = "welcome"
  \/ n.kind \in {"set", "host"} /\ n.fact = f
  \/ n.kind = "left" /\ f = Mute(IdOf[n.of])

VersionIn(n, f) == IF n.kind = "welcome" THEN n.versions[f] ELSE n.version

\* Notice n of task k is for member c: a reply for the task's own peer, the
\* coming and going of an identity for the others.
Meant(k, n, c) ==
  /\ n.kind \in {"welcome", "roster"} => k = c
  /\ n.kind \in {"joined", "left"} => IdOf[n.of] # IdOf[c]

\* Some task is sending, or has still to send, such a notice to c.
Coming(c, Is(_)) ==
  \E k \in Conns :
    \/ out[k] # None /\ c \in out[k].to /\ Is(out[k].notice)
    \/ \E n \in ToSet(queue[k]) : Is(n) /\ Meant(k, n, c)

\* The facts of which something older than v is on its way to c.
Overtaken(c, v) ==
  {f \in Facts : LET IsOld(n) == About(n, f) /\ VersionIn(n, f) # v[f] IN Coming(c, IsOld)}

\* The peers when the facts change to v.
Racing(v) ==
  [d \in Conns |->
     IF peer[d] = None THEN None
     ELSE [peer[d] EXCEPT !.raced = {f \in @ : v[f] = version[f]} \cup Overtaken(d, v)]]

\* MUTANT of Receivers: members who are still registering are passed over.
ReceiversSettled(c, n) ==
  CASE n.kind \in {"welcome", "roster"} -> {c}
    [] n.kind \in {"joined", "left"}    ->
         {session[id] : id \in {i \in Members \ {IdOf[n.of]} : step[session[i]] = "live"}}
    [] OTHER -> {session[id] : id \in {i \in Members : step[session[i]] = "live"}}

\* broadcast_to_lobby snapshots the members' senders, but for the identity the
\* notice is about; send_response answers the task's own peer.
Receivers(c, n) ==
  CASE n.kind \in {"welcome", "roster"} -> {c}
    [] n.kind \in {"joined", "left"}    -> {session[id] : id \in Members \ {IdOf[n.of]}}
    [] OTHER                            -> {session[id] : id \in Members}

\* current_players is called when the roster's turn comes (None until then);
\* everything else was fixed at the change.
Content(c, n) ==
  IF n.kind = "roster" THEN Roster({session[id] : id \in Members \ {IdOf[c]}}) ELSE n

\* The task takes its next notice.
Lookup(c) ==
  /\ step[c] # "committed"
  /\ out[c] = None
  /\ queue[c] # <<>>
  /\ LET n  == Content(c, Head(queue[c]))
         to == Receivers(c, n)
     IN  out' = [out EXCEPT ![c] = IF to = {} THEN None ELSE [notice |-> n, to |-> to]]
  /\ queue' = [queue EXCEPT ![c] = Tail(@)]
  /\ UNCHANGED <<registry, step, peer, told>>

\* The send to d is over: the broadcast ends when its last send does.
Sent(c, d) ==
  out' = [out EXCEPT ![c] = IF @.to = {d} THEN None ELSE [@ EXCEPT !.to = out[c].to \ {d}]]

Newer(v, w) == IF v > w THEN v ELSE w

\* A peer with record p is sent notice n: what it says of a fact replaces what
\* was said before, be it older or newer.
After(p, n) ==
  [heard  |-> [f \in Facts |-> IF About(n, f) THEN Newer(VersionIn(n, f), p.heard[f])
                               ELSE p.heard[f]],
   shown  |-> [f \in Facts |-> IF About(n, f) THEN VersionIn(n, f) ELSE p.shown[f]],
   raced  |-> p.raced,
   listed |-> IF n.kind = "roster" THEN n.of ELSE p.listed,
   joined |-> IF n.kind = "joined" THEN p.joined \cup {n.of} ELSE p.joined,
   left   |-> IF n.kind = "left" THEN p.left \cup {n.of} ELSE p.left]

Deliver(c, d) ==
  /\ out[c] # None /\ d \in out[c].to
  /\ peer' = [peer EXCEPT ![d] = IF @ = None THEN None ELSE After(@, out[c].notice)]
  /\ Sent(c, d)
  /\ UNCHANGED <<registry, step, queue, told>>

\* A send fails or times out: a broadcast tells the receiver's task to end,
\* send_response ignores it.
DeliverFails(c, d) ==
  /\ out[c] # None /\ d \in out[c].to
  /\ peer' = [peer EXCEPT ![d] = None]
  /\ told' = IF step[d] = "committed" THEN told \cup {d} ELSE told
  /\ Sent(c, d)
  /\ UNCHANGED <<registry, step, queue>>

-----------------------------------------------------------------------------
\* handle_v3

\* MUTANT of Introduction: only an identity that was not there is announced.
IntroductionOfNew(c, v) ==
  <<Welcome(v), Roster(None)>> \o (IF session[IdOf[c]] = None THEN <<Joined(c)>> ELSE <<>>)

\* After the commit: what it saw, then the roster, then the others are told.
Introduction(c, v) == <<Welcome(v), Roster(None), Joined(c)>>

\* The commit: the record replaces an older one of the identity, whose mute stays;
\* who finds no lobby makes one, with all its facts, and is its host.
Join(c) ==
  LET id == IdOf[c]
      v  == IF host = None THEN [f \in Facts |-> version[f] + 1] ELSE version
  IN  /\ step[c] = "idle"
      /\ session' = [session EXCEPT ![id] = c]
      /\ latest' = [latest EXCEPT ![id] = c]
      /\ host' = IF host = None THEN id ELSE host
      /\ version' = v
      /\ peer' = [d \in Conns |-> IF d = c THEN NewPeer(Overtaken(c, v))
                                 ELSE IF d = session[id] THEN None ELSE peer[d]]
      /\ step' = [step EXCEPT ![c] = "committed"]
      /\ queue' = [queue EXCEPT ![c] = Introduction(c, v)]
      /\ UNCHANGED <<requests, out, told>>

\* A session that is no longer current is neither welcomed nor announced.
CheckCommit(c) ==
  /\ step[c] = "committed"
  /\ IF c \in told \/ ~Current(c)
     THEN /\ step' = [step EXCEPT ![c] = "stale"]
          /\ queue' = [queue EXCEPT ![c] = <<>>]
     ELSE step' = [step EXCEPT ![c] = "live"] /\ UNCHANGED queue
  /\ told' = told \ {c}
  /\ UNCHANGED <<registry, out, peer>>

-----------------------------------------------------------------------------
\* The host's requests

\* The loop reads on when the last request is done; the host is authorised
\* under the lobby's write lock.
MayModerate(c) ==
  /\ step[c] = "live"
  /\ Free(c)
  /\ Current(c)
  /\ host = IdOf[c]

\* The bound on requests.
Counted == requests < MaxRequests /\ requests' = requests + 1

Bump(f) == [version EXCEPT ![f] = @ + 1]

\* The kicked connection itself is signalled and sent Kicked first.  Its mute goes
\* with it, and there is no notice of that but PlayerLeft.
KickPlayer(c, id) ==
  /\ MayModerate(c)
  /\ id \in Members \ {IdOf[c]}
  /\ session' = [session EXCEPT ![id] = None]
  /\ version' = Bump(Mute(id))
  /\ queue' = [queue EXCEPT ![c] = <<Left(session[id], version'[Mute(id)])>>]
  /\ peer' = [Racing(version') EXCEPT ![session[id]] = None]
  /\ UNCHANGED <<latest, host, requests, step, out, told>>

\* Muting or unmuting, but for muting the host.
MutePlayer(c, id, muted) ==
  /\ MayModerate(c)
  /\ ~(id = host /\ muted)
  /\ id \in Members
  /\ Counted
  /\ version' = Bump(Mute(id))
  /\ queue' = [queue EXCEPT ![c] = <<Set(Mute(id), version'[Mute(id)])>>]
  /\ peer' = Racing(version')
  /\ UNCHANGED <<session, latest, host, step, out, told>>

\* From versions v the role goes to id, which is unmuted.
VersionsWithHost(v, id) == [v EXCEPT ![Host] = @ + 1, ![Mute(id)] = @ + 1]

\* MUTANT of Handover: the new host is announced before it is unmuted.
HandoverHostFirst(id, v) ==
  <<HostSet(id, [host |-> v[Host], mute |-> v[Mute(id)]]), Set(Mute(id), v[Mute(id)])>>

\* The two notices of a new host, in their order.
Handover(id, v) ==
  <<Set(Mute(id), v[Mute(id)]), HostSet(id, [host |-> v[Host], mute |-> v[Mute(id)]])>>

TransferHost(c, id) ==
  LET v == VersionsWithHost(version, id)
  IN  /\ MayModerate(c)
      /\ id \in Members
      /\ Counted
      /\ host' = id
      /\ version' = v
      /\ queue' = [queue EXCEPT ![c] = Handover(id, v)]
      /\ peer' = Racing(v)
      /\ UNCHANGED <<session, latest, step, out, told>>

SetLobbyOptions(c) ==
  /\ MayModerate(c)
  /\ Counted
  /\ version' = Bump(Options)
  /\ queue' = [queue EXCEPT ![c] = <<Set(Options, version'[Options])>>]
  /\ peer' = Racing(version')
  /\ UNCHANGED <<session, latest, host, step, out, told>>

-----------------------------------------------------------------------------
\* The end of a connection: the loop has ended for whatever reason.

Ended(c) == step[c] \in {"live", "stale"} /\ Free(c)

\* MUTANT of NextHosts: the role stays with who leaves.
NextHostsLeaver(id, rest) == {id}

\* Some other member, whichever the map yields first.
NextHosts(id, rest) == rest

\* MUTANT of Farewell: a departing host is only announced as replaced.
FarewellOfGuests(c, v, news) == IF news = <<>> THEN <<Left(c, v)>> ELSE news

\* The departure is announced before the new host.
Farewell(c, v, news) == <<Left(c, v)>> \o news

\* The cleanup of a current session removes its record and its mute, and with the
\* last one the lobby; a departing host hands the role over.
Leave(c) ==
  LET id   == IdOf[c]
      rest == Members \ {id}
      v    == Bump(Mute(id))
      left == v[Mute(id)]
  IN  /\ Ended(c) /\ Current(c)
      /\ session' = [session EXCEPT ![id] = None]
      /\ IF host = id /\ rest # {}
         THEN \E h \in NextHosts(id, rest) :
                /\ host' = h
                /\ version' = VersionsWithHost(v, h)
                /\ queue' = [queue EXCEPT ![c] = Farewell(c, left, Handover(h, version'))]
         ELSE /\ host' = IF rest = {} THEN None ELSE host
              /\ version' = v
              /\ queue' = [queue EXCEPT ![c] = Farewell(c, left, <<>>)]
      /\ step' = [step EXCEPT ![c] = "gone"]
      /\ peer' = [Racing(version') EXCEPT ![c] = None]
      /\ UNCHANGED <<latest, requests, out, told>>

\* The cleanup of a session that was replaced or kicked leaves all as it is.
LeaveReplaced(c) ==
  /\ Ended(c) /\ ~Current(c)
  /\ step' = [step EXCEPT ![c] = "gone"]
  /\ UNCHANGED <<registry, queue, out, peer, told>>

-----------------------------------------------------------------------------
Init ==
  /\ session = [id \in ClientIds |-> None]
  /\ latest = [id \in ClientIds |-> None]
  /\ host = None
  /\ version = [f \in Facts |-> 0]
  /\ step = [c \in Conns |-> "idle"]
  /\ queue = [c \in Conns |-> <<>>]
  /\ out = [c \in Conns |-> None]
  /\ peer = [c \in Conns |-> None]
  /\ told = {}
  /\ requests = 0

Next ==
  \E c \in Conns :
    \/ Join(c) \/ CheckCommit(c)
    \/ Lookup(c)
    \/ \E d \in Conns : Deliver(c, d) \/ DeliverFails(c, d)
    \/ \E id \in ClientIds :
         \/ KickPlayer(c, id) \/ TransferHost(c, id)
         \/ \E muted \in BOOLEAN : MutePlayer(c, id, muted)
    \/ SetLobbyOptions(c)
    \/ Leave(c) \/ LeaveReplaced(c)

Spec == Init /\ [][Next]_vars

-----------------------------------------------------------------------------
\* Properties

\* Registry, tasks and peers have their types; there is a lobby, and a host among
\* its members, exactly while there are members, and only they are sent notices.
TypeOK ==
  /\ session \in [ClientIds -> Conns \cup {None}]
  /\ latest \in [ClientIds -> Conns \cup {None}]
  /\ \A id \in Members : IdOf[session[id]] = id
  /\ IF Members = {} THEN host = None ELSE host \in Members
  /\ version \in Versions
  /\ step \in [Conns -> {"idle", "committed", "stale", "live", "gone"}]
  /\ queue \in [Conns -> Seq(Notices)]
  /\ out \in [Conns -> Sendings \cup {None}]
  /\ peer \in [Conns -> Peers \cup {None}]
  /\ \A c \in Conns : Expects(c) => Current(c)
  /\ told \in SUBSET Conns

\* However joins, departures and the host's requests overlap with the notices of
\* earlier ones: every member has been sent the present host, options and mutes,
\* by its RegisterSuccess or by a broadcast (the end of a mute whose player left
\* by PlayerLeft alone), or a task has still to.  Messages carry no version and a
\* client goes by the last: it is the present one, once nothing more is coming,
\* unless an older one was on its way to this member when the fact changed or
\* when the member joined.
NewsIsComing ==
  \A c \in Conns : Expects(c) =>
    \A f \in Facts :
      LET Tells(n) == About(n, f) /\ VersionIn(n, f) = version[f]
      IN  \/ /\ peer[c].heard[f] = version[f]
             /\ peer[c].shown[f] = version[f] \/ f \in peer[c].raced
          \/ Coming(c, Tells)

\* A member who is not going to be turned away by the check of its commit.
Announced(d) == Current(d) /\ step[d] # "stale" /\ d \notin told

\* Of two members each has been sent the other's session, by its roster or by
\* PlayerJoined, or is about to be: two who register at once do not miss each
\* other, although the roster is read after the commit and without its lock.
MembersMeet ==
  \A c, d \in Conns : (c # d /\ Expects(c) /\ Announced(d)) =>
    LET Shows(n) == \/ n.kind = "joined" /\ n.of = d
                    \/ n.kind = "roster" /\ (n.of = None \/ d \in n.of)
    IN  d \in peer[c].listed \cup peer[c].joined \/ Coming(c, Shows)

\* Whose departure member c has to be told of, if it knows the sessions ds.
DeparturesReach(c, ds) ==
  \A id \in ClientIds \ Members : (\E d \in ds : IdOf[d] = id) =>
    LET Tells(n) == n.kind = "left" /\ n.of = latest[id]
    IN  latest[id] \in peer[c].left \/ Coming(c, Tells)

\* A member is told when an identity its roster named leaves, however often
\* that identity was replaced before.
ListedDeparturesReach ==
  \A c \in Conns : Expects(c) => DeparturesReach(c, peer[c].listed)

\* docs/architecture.md: "Host transfer unmutes the new host before broadcasting
\* host-changed".  Nobody who was welcomed is sent the new host before having
\* been sent that it is unmuted, those who join between the two included.
UnmutedBeforeHost ==
  \A k, c \in Conns :
    ( /\ out[k] # None /\ out[k].notice.kind = "host"
      /\ c \in out[k].to /\ Expects(c)
      /\ ~ \E n \in ToSet(queue[c]) : n.kind = "welcome"
      /\ ~ (out[c] # None /\ out[c].notice.kind = "welcome") )
    => peer[c].heard[Mute(out[k].notice.id)] >= out[k].notice.unmuted

\* registration.rs promises "ordered membership events": a member that was sent
\* the PlayerJoined of a session is sent the PlayerLeft of that identity when it
\* is gone.
JoinedDeparturesReach ==
  \A c \in Conns : Expects(c) => DeparturesReach(c, peer[c].joined)
=============================================================================

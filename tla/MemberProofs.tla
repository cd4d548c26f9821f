---------------------------- MODULE MemberProofs ----------------------------
(***************************************************************************)
(* Proofs about what the members of a lobby receive: Relay and             *)
(* TokenDelivery, for any sets of connections, clients, lobbies,           *)
(* generations and message types, and any number of messages.              *)
(***************************************************************************)
EXTENDS Relay, TokenDelivery, TLAPS

-----------------------------------------------------------------------------
(***************************************************************************)
(* Relay.                                                                  *)
(***************************************************************************)
\* The inductive invariant.

\* A connection keeps its session for good, and has none before it registers.
OwnBeforeRegistering ==
  \A c \in Conns : stage[c] = "unregistered" => own[c] = None

\* The session of a member is the one its socket registered.
MembersOwn ==
  \A i \in ClientIds : member[i] # None =>
    own[member[i].sender] =
      [client_id |-> i, lobby_id |-> member[i].lobby_id, generation |-> member[i].generation]

\* A message in hand names its own connection's client as the sender.
InHandIsGenuine ==
  \A c \in Conns : msg[c] # None => own[c] # None /\ msg[c].from = own[c].client_id

\* The sockets a message still goes to are of the lobby it was routed to.
ReceiversOfRoute ==
  \A c, d \in Conns : d \in out[c] => own[d] # None /\ own[d].lobby_id = route[c]

\* Some connection has registered client id in lobby l with generation g.
Registered(id, l, g) ==
  \E e \in Conns :
    own[e] # None /\ own[e] = [client_id |-> id, lobby_id |-> l, generation |-> g]

\* The generation put into a message is of a session the routed lobby has had.
StampOfRoute ==
  \A c \in Conns : stamp[c] # None => Registered(msg[c].from, route[c], stamp[c])

\* What was delivered went to a connection with a session, and still names a
\* session of that session's lobby.
DeliveredIsGenuine ==
  \A m \in delivered :
    /\ own[m.origin] # None /\ m.from = own[m.origin].client_id
    /\ own[m.receiver] # None
    /\ m.generation # None => Registered(m.from, own[m.receiver].lobby_id, m.generation)

RelayInv ==
  /\ RelayTypeOK
  /\ OwnBeforeRegistering /\ MembersOwn /\ InHandIsGenuine
  /\ ReceiversOfRoute /\ StampOfRoute /\ DeliveredIsGenuine

-----------------------------------------------------------------------------
\* Facts about the operators.

\* A session of the types is not None.
LEMMA SessionsAreSome ==
  ASSUME NEW id \in ClientIds, NEW l \in LobbyIds, NEW g \in Generations
  PROVE  [client_id |-> id, lobby_id |-> l, generation |-> g] # None
BY RelayAssumption DEF OwnSession

\* The receivers are sockets of members of the lobby, so of sessions in it.
LEMMA ReceiversAreThere ==
  ASSUME RelayTypeOK, MembersOwn, NEW l, NEW m, NEW d \in Receivers(l, m)
  PROVE  d \in Conns /\ own[d] # None /\ own[d].lobby_id = l
<1>1. PICK i \in ClientIds : InLobby(l, i) /\ d = member[i].sender
  BY DEF Receivers
<1>2. member[i] \in [lobby_id : LobbyIds, sender : Conns, generation : Generations]
  BY <1>1 DEF RelayTypeOK, MembershipTypeOK, InLobby
<1>3. own[d] = [client_id |-> i, lobby_id |-> l, generation |-> member[i].generation]
  BY <1>1 DEF MembersOwn, InLobby
<1>4. l \in LobbyIds /\ member[i].generation \in Generations
  BY <1>1, <1>2 DEF InLobby
<1> QED
  BY <1>1, <1>2, <1>3, <1>4, SessionsAreSome

\* The stamp names a session that the lobby has now.
LEMMA StampIsRegistered ==
  ASSUME RelayTypeOK, MembersOwn, NEW l, NEW m \in Messages, StampFor(l, m) # None
  PROVE  /\ StampFor(l, m) \in Generations
         /\ Registered(m.from, l, StampFor(l, m))
<1>1. m.from \in ClientIds /\ InLobby(l, m.from) /\ StampFor(l, m) = member[m.from].generation
  BY DEF StampFor, Messages
<1>2. member[m.from] \in [lobby_id : LobbyIds, sender : Conns, generation : Generations]
  BY <1>1 DEF RelayTypeOK, MembershipTypeOK, InLobby
<1>3. member[m.from].lobby_id = l /\ member[m.from].sender \in Conns /\ l \in LobbyIds
  BY <1>1, <1>2 DEF InLobby
<1>4. own[member[m.from].sender] =
        [client_id |-> m.from, lobby_id |-> l, generation |-> StampFor(l, m)]
  BY <1>1, <1>3 DEF MembersOwn, InLobby
<1> QED
  BY <1>1, <1>2, <1>3, <1>4, SessionsAreSome DEF Registered

\* What was delivered stays genuine while connections keep their sessions.
LEMMA DeliveredKept ==
  ASSUME RelayTypeOK, DeliveredIsGenuine, UNCHANGED delivered,
         \A c \in Conns : own[c] # None => own'[c] = own[c]
  PROVE  DeliveredIsGenuine'
<1> SUFFICES ASSUME NEW m \in delivered
             PROVE  /\ own'[m.origin] # None /\ m.from = own'[m.origin].client_id
                    /\ own'[m.receiver] # None
                    /\ m.generation # None =>
                         Registered(m.from, own[m.receiver].lobby_id, m.generation)'
  BY DEF DeliveredIsGenuine
<1>1. m.origin \in Conns /\ m.receiver \in Conns
  BY DEF RelayTypeOK
<1>2. /\ own[m.origin] # None /\ m.from = own[m.origin].client_id
      /\ own[m.receiver] # None
      /\ m.generation # None => Registered(m.from, own[m.receiver].lobby_id, m.generation)
  BY DEF DeliveredIsGenuine
<1>3. own'[m.origin] = own[m.origin] /\ own'[m.receiver] = own[m.receiver]
  BY <1>1, <1>2
<1> QED
  BY <1>2, <1>3 DEF Registered

-----------------------------------------------------------------------------
\* RelayInit and the steps.

LEMMA InitEstablishes == RelayInit => RelayInv
BY MaxMessagesAssumption
DEF RelayInit, MembershipInit, RelayInv, RelayTypeOK, MembershipTypeOK, Stages, OwnBeforeRegistering,
    MembersOwn, InHandIsGenuine, ReceiversOfRoute, StampOfRoute, DeliveredIsGenuine

LEMMA RegisterPreserves ==
  ASSUME RelayInv,
         NEW c \in Conns, NEW id \in ClientIds, NEW l \in LobbyIds, NEW g \in Generations,
         Register(c, id, l, g)
  PROVE  RelayInv'
<1> DEFINE s == [client_id |-> id, lobby_id |-> l, generation |-> g]
           r == [lobby_id |-> l, sender |-> c, generation |-> g]
<1>s. s # None /\ s \in OwnSession /\ r # None
  BY SessionsAreSome, NoneAssumption DEF OwnSession
<1>0. RelayTypeOK /\ own[c] = None /\ own \in [Conns -> OwnSession \cup {None}]
  BY DEF RelayInv, RelayTypeOK, Register, OwnBeforeRegistering
<1>1. /\ own' = [own EXCEPT ![c] = s]
      /\ member' = [member EXCEPT ![id] = r]
      /\ stage' = [stage EXCEPT ![c] = "live"]
      /\ stage[c] = "unregistered"
      /\ UNCHANGED <<msg, route, out, stamp, delivered, count>>
  BY DEF Register, Enter, StageTo
<1>k. \A d \in Conns : own[d] # None => own'[d] = own[d]
  BY <1>0, <1>1
<1> HIDE DEF s, r
<1>2. RelayTypeOK'
  <2>1. MembershipTypeOK'
    BY <1>0 DEF Register, Enter, MembershipTypeOK, RelayTypeOK
  <2> QED
    BY <2>1, <1>0, <1>1, <1>s DEF RelayTypeOK, Stages
<1>3. OwnBeforeRegistering'
  BY <1>0, <1>1 DEF RelayInv, OwnBeforeRegistering, RelayTypeOK
<1>4. MembersOwn'
  <2> SUFFICES ASSUME NEW i \in ClientIds, member'[i] # None
               PROVE  own'[member'[i].sender] =
                        [client_id |-> i, lobby_id |-> member'[i].lobby_id,
                         generation |-> member'[i].generation]
    BY DEF MembersOwn
  <2>1. CASE i = id
    BY <2>1, <1>0, <1>1 DEF RelayTypeOK, MembershipTypeOK, s, r
  <2>2. CASE i # id
    <3>1. member'[i] = member[i]
      BY <2>2, <1>0, <1>1 DEF RelayTypeOK, MembershipTypeOK
    <3>2. member[i] \in [lobby_id : LobbyIds, sender : Conns, generation : Generations]
      BY <3>1, <1>0 DEF RelayTypeOK, MembershipTypeOK
    <3>3. own[member[i].sender] =
            [client_id |-> i, lobby_id |-> member[i].lobby_id,
             generation |-> member[i].generation]
      BY <3>1 DEF RelayInv, MembersOwn
    <3>4. own[member[i].sender] # None
      BY <3>2, <3>3, SessionsAreSome
    <3> QED
      BY <3>1, <3>2, <3>3, <3>4, <1>k
  <2> QED
    BY <2>1, <2>2
<1>5. InHandIsGenuine'
  BY <1>1, <1>k DEF RelayInv, InHandIsGenuine
<1>6. ReceiversOfRoute'
  BY <1>1, <1>k DEF RelayInv, ReceiversOfRoute
<1>7. StampOfRoute'
  <2> SUFFICES ASSUME NEW e \in Conns, stamp[e] # None
               PROVE  Registered(msg[e].from, route[e], stamp[e])'
    BY <1>1 DEF StampOfRoute
  <2>1. Registered(msg[e].from, route[e], stamp[e])
    BY DEF RelayInv, StampOfRoute
  <2> QED
    BY <2>1, <1>1, <1>k DEF Registered
<1>8. DeliveredIsGenuine'
  BY <1>0, <1>1, <1>k, DeliveredKept DEF RelayInv
<1> QED
  BY <1>2, <1>3, <1>4, <1>5, <1>6, <1>7, <1>8 DEF RelayInv

LEMMA DepartPreserves ==
  ASSUME RelayInv, NEW id \in ClientIds, SessionEnds(id)
  PROVE  RelayInv'
<1>1. RelayTypeOK /\ member' = [member EXCEPT ![id] = None] /\ UNCHANGED <<used, relaying>>
  BY DEF RelayInv, SessionEnds, Depart
<1>2. RelayTypeOK'
  BY <1>1 DEF RelayTypeOK, MembershipTypeOK, relaying
<1>3. MembersOwn'
  BY <1>1 DEF RelayInv, MembersOwn, RelayTypeOK, MembershipTypeOK, relaying
<1>4. DeliveredIsGenuine'
  BY <1>1, DeliveredKept DEF RelayInv, relaying
<1> QED
  BY <1>1, <1>2, <1>3, <1>4
  DEF RelayInv, relaying, OwnBeforeRegistering, InHandIsGenuine, ReceiversOfRoute,
      StampOfRoute, Registered

\* A step that leaves membership and sessions alone keeps what is said of them;
\* the rest is of the one connection that moves.
LEMMA RelayQuietStep ==
  ASSUME RelayInv, RelayTypeOK', NEW c \in Conns, UNCHANGED <<member, own>>,
         DeliveredIsGenuine',
         \A d \in Conns \ {c} : /\ stage'[d] = stage[d] /\ msg'[d] = msg[d]
                               /\ route'[d] = route[d] /\ out'[d] = out[d]
                               /\ stamp'[d] = stamp[d],
         stage'[c] = "unregistered" => own[c] = None,
         msg'[c] # None => own[c] # None /\ msg'[c].from = own[c].client_id,
         \A d \in out'[c] : own[d] # None /\ own[d].lobby_id = route'[c],
         stamp'[c] # None => Registered(msg'[c].from, route'[c], stamp'[c])
  PROVE  RelayInv'
<1>1. OwnBeforeRegistering'
  BY DEF RelayInv, OwnBeforeRegistering
<1>2. MembersOwn'
  BY DEF RelayInv, MembersOwn
<1>3. InHandIsGenuine'
  BY DEF RelayInv, InHandIsGenuine
<1>4. ReceiversOfRoute'
  BY DEF RelayInv, ReceiversOfRoute
<1>5. StampOfRoute'
  BY DEF RelayInv, StampOfRoute, Registered
<1> QED
  BY <1>1, <1>2, <1>3, <1>4, <1>5 DEF RelayInv

LEMMA DropPreserves ==
  ASSUME RelayInv, NEW c \in Conns, Drop(c), UNCHANGED <<membership, own, delivered, count>>
  PROVE  RelayInv'
<1>1. RelayTypeOK'
  BY DEF RelayInv, RelayTypeOK, MembershipTypeOK, membership, Stages, Drop, StageTo
<1>2. DeliveredIsGenuine'
  BY DeliveredKept DEF RelayInv
<1> QED
  BY <1>1, <1>2, RelayQuietStep DEF Drop, StageTo, RelayInv, RelayTypeOK, membership

\* A task that closes its connection has no message in hand.
LEMMA GonePreserves ==
  ASSUME RelayInv, NEW c \in Conns, stage[c] \in {"unregistered", "live"}, StageTo(c, "gone"),
         UNCHANGED <<membership, own, msg, route, out, stamp, delivered, count>>
  PROVE  RelayInv'
<1>1. RelayTypeOK'
  BY DEF RelayInv, RelayTypeOK, MembershipTypeOK, membership, Stages, StageTo
<1>2. DeliveredIsGenuine'
  BY DeliveredKept DEF RelayInv
<1>3. /\ msg[c] # None => own[c] # None /\ msg[c].from = own[c].client_id
      /\ \A d \in out[c] : own[d] # None /\ own[d].lobby_id = route[c]
      /\ stamp[c] # None => Registered(msg[c].from, route[c], stamp[c])
  BY DEF RelayInv, InHandIsGenuine, ReceiversOfRoute, StampOfRoute, RelayTypeOK
<1> QED
  BY <1>1, <1>2, <1>3, RelayQuietStep DEF StageTo, RelayInv, RelayTypeOK, membership

LEMMA ReceivePreserves ==
  ASSUME RelayInv, NEW c \in Conns, NEW m \in Messages, Receive(c, m)
  PROVE  RelayInv'
<1>0. RelayTypeOK /\ m # None
  BY RelayAssumption DEF RelayInv
<1>1. RelayTypeOK'
  <2>1. count' \in 0 .. MaxMessages
    BY <1>0, MaxMessagesAssumption DEF Receive, RelayTypeOK
  <2> QED
    BY <1>0, <2>1 DEF Receive, RelayTypeOK, MembershipTypeOK, membership, Stages, StageTo
<1>2. DeliveredIsGenuine'
  BY <1>0, DeliveredKept DEF RelayInv, Receive
<1>3. /\ out[c] = {} /\ stamp[c] = None
      /\ stage[c] = "unregistered" => own[c] = None
      /\ msg[c] # None => own[c] # None /\ msg[c].from = own[c].client_id
  BY <1>0 DEF RelayInv, RelayTypeOK, OwnBeforeRegistering, InHandIsGenuine, Receive
<1> QED
  BY <1>0, <1>1, <1>2, <1>3, RelayQuietStep DEF Receive, SenderMatches, StageTo, RelayTypeOK, membership

\* Routing fixes the lobby while no receiver and no stamp is chosen.
LEMMA RoutePreserves ==
  ASSUME RelayInv, NEW c \in Conns, NEW l \in LobbyIds, stage[c] = "checked",
         route' = [route EXCEPT ![c] = l], StageTo(c, "routed"),
         UNCHANGED <<membership, own, msg, out, stamp, delivered, count>>
  PROVE  RelayInv'
<1>1. RelayTypeOK'
  BY DEF RelayInv, RelayTypeOK, MembershipTypeOK, membership, Stages, StageTo
<1>2. DeliveredIsGenuine'
  BY DeliveredKept DEF RelayInv
<1>3. /\ out[c] = {} /\ stamp[c] = None
      /\ msg[c] # None => own[c] # None /\ msg[c].from = own[c].client_id
  BY DEF RelayInv, RelayTypeOK, InHandIsGenuine
<1> QED
  BY <1>1, <1>2, <1>3, RelayQuietStep DEF StageTo, RelayInv, RelayTypeOK, membership

\* The two ways of routing find a lobby.
LEMMA RoutedSomewhere ==
  ASSUME RelayInv, NEW c \in Conns, RouteByOwnLobby(c) \/ RouteByMap(c)
  PROVE  RelayInv'
<1>0. /\ RelayTypeOK /\ InHandIsGenuine
      /\ stage[c] = "checked" /\ msg[c] # None
  BY DEF RelayInv, RelayTypeOK, RouteByOwnLobby, RouteByMap
<1>1. CASE RouteByOwnLobby(c)
  <2>1. own[c] \in OwnSession
    BY <1>0 DEF RelayTypeOK, InHandIsGenuine
  <2>2. own[c].lobby_id \in LobbyIds
    BY <2>1 DEF OwnSession
  <2> QED
    BY <1>1, <2>2, RoutePreserves DEF RouteByOwnLobby
<1>2. CASE RouteByMap(c)
  <2>1. msg[c].from \in ClientIds
    BY <1>0 DEF RelayTypeOK, Messages
  <2>2. member[msg[c].from].lobby_id \in LobbyIds
    BY <2>1, <1>0, <1>2 DEF RelayTypeOK, MembershipTypeOK, RouteByMap
  <2> QED
    BY <1>2, <2>2, RoutePreserves DEF RouteByMap
<1> QED
  BY <1>1, <1>2

LEMMA LookUpPreserves ==
  ASSUME RelayInv, NEW c \in Conns, LookUp(c)
  PROVE  RelayInv'
<1>0. /\ RelayTypeOK /\ MembersOwn /\ InHandIsGenuine
      /\ msg[c] \in Messages /\ msg[c] # None
      /\ stage[c] = "routed"
  BY DEF RelayInv, RelayTypeOK, LookUp
<1>1. /\ out' = [out EXCEPT ![c] = Receivers(route[c], msg[c])]
      /\ stamp' = [stamp EXCEPT ![c] = StampFor(route[c], msg[c])]
      /\ stage' = [stage EXCEPT ![c] = "sending"]
      /\ UNCHANGED <<member, used, own, msg, route, delivered, count>>
  BY DEF LookUp, StageTo, membership
<1>2. \A d \in Receivers(route[c], msg[c]) :
        d \in Conns /\ own[d] # None /\ own[d].lobby_id = route[c]
  BY <1>0, ReceiversAreThere
<1>3. StampFor(route[c], msg[c]) # None =>
        /\ StampFor(route[c], msg[c]) \in Generations
        /\ Registered(msg[c].from, route[c], StampFor(route[c], msg[c]))
  BY <1>0, StampIsRegistered
<1>4. RelayTypeOK'
  BY <1>0, <1>1, <1>2, <1>3 DEF RelayTypeOK, MembershipTypeOK, Stages
<1>5. DeliveredIsGenuine'
  BY <1>0, <1>1, DeliveredKept DEF RelayInv
<1>6. own[c] # None /\ msg[c].from = own[c].client_id
  BY <1>0 DEF InHandIsGenuine
<1> QED
  BY <1>0, <1>1, <1>2, <1>3, <1>4, <1>5, <1>6, RelayQuietStep DEF RelayTypeOK

\* A socket taken from the receivers, with or without a delivery.
LEMMA TakePreserves ==
  ASSUME RelayInv, NEW c \in Conns, NEW d \in Conns, Send(c, d) \/ SendFails(c, d)
  PROVE  RelayInv'
<1> DEFINE sent == [origin |-> c, from |-> msg[c].from, generation |-> stamp[c],
                    receiver |-> d]
<1>0. /\ RelayTypeOK /\ InHandIsGenuine /\ ReceiversOfRoute /\ StampOfRoute
      /\ msg[c] \in Messages /\ msg[c] # None
      /\ stage[c] = "sending" /\ d \in out[c]
  BY DEF RelayInv, RelayTypeOK, Send, SendFails
<1>1. /\ out' = [out EXCEPT ![c] = @ \ {d}]
      /\ UNCHANGED <<member, used, own, stage, msg, route, stamp, count>>
      /\ delivered' = delivered \/ delivered' = delivered \cup {sent}
  BY DEF Send, SendFails, membership
<1>2. /\ own[c] # None /\ msg[c].from = own[c].client_id
      /\ \A e \in out[c] : own[e] # None /\ own[e].lobby_id = route[c]
      /\ stamp[c] # None => Registered(msg[c].from, route[c], stamp[c])
  BY <1>0 DEF InHandIsGenuine, ReceiversOfRoute, StampOfRoute, RelayTypeOK
<1>3. RelayTypeOK'
  <2>1. sent \in [origin : Conns, from : ClientIds,
                  generation : Generations \cup {None}, receiver : Conns]
    BY <1>0 DEF RelayTypeOK, Messages
  <2> HIDE DEF sent
  <2> QED
    BY <1>0, <1>1, <2>1 DEF RelayTypeOK, MembershipTypeOK
<1>4. DeliveredIsGenuine'
  <2>1. DeliveredIsGenuine
    BY DEF RelayInv
  <2>2. /\ own[sent.origin] # None /\ sent.from = own[sent.origin].client_id
        /\ own[sent.receiver] # None
        /\ sent.generation # None =>
             Registered(sent.from, own[sent.receiver].lobby_id, sent.generation)
    BY <1>0, <1>2
  <2> HIDE DEF sent
  <2> QED
    BY <1>1, <2>1, <2>2 DEF DeliveredIsGenuine, Registered
<1> QED
  BY <1>0, <1>1, <1>2, <1>3, <1>4, RelayQuietStep DEF RelayTypeOK

LEMMA StepPreserves ==
  ASSUME RelayInv, [RelayNext]_relay_vars
  PROVE  RelayInv'
<1>1. CASE \E c \in Conns, id \in ClientIds, l \in LobbyIds, g \in Generations :
             Register(c, id, l, g)
  BY <1>1, RegisterPreserves
<1>2. CASE \E c \in Conns : StaleSpeaks(c) \/ Misbehaves(c)
  BY <1>2, GonePreserves DEF StaleSpeaks, Misbehaves
<1>3. CASE \E c \in Conns, m \in Messages : Receive(c, m)
  BY <1>3, ReceivePreserves
<1>4. CASE \E c \in Conns : IgnoreUnhandled(c) \/ SenderNowhere(c) \/ NobodyThere(c)
                           \/ AllSent(c)
  BY <1>4, DropPreserves DEF IgnoreUnhandled, SenderNowhere, NobodyThere, AllSent
<1>5. CASE \E c \in Conns : RouteByOwnLobby(c) \/ RouteByMap(c)
  BY <1>5, RoutedSomewhere
<1>6. CASE \E c \in Conns : LookUp(c)
  BY <1>6, LookUpPreserves
<1>7. CASE \E c, d \in Conns : Send(c, d) \/ SendFails(c, d)
  BY <1>7, TakePreserves
<1>8. CASE \E id \in ClientIds : SessionEnds(id)
  BY <1>8, DepartPreserves
<1>9. CASE UNCHANGED relay_vars
  BY <1>9
  DEF RelayInv, relay_vars, relaying, membership, RelayTypeOK, MembershipTypeOK, OwnBeforeRegistering,
      MembersOwn, InHandIsGenuine, ReceiversOfRoute, StampOfRoute, DeliveredIsGenuine,
      Registered
<1> QED
  BY <1>1, <1>2, <1>3, <1>4, <1>5, <1>6, <1>7, <1>8, <1>9 DEF RelayNext

-----------------------------------------------------------------------------
\* Whom a received message names as its sender is whom it came from: the client
\* id is the one the origin socket registered, and a session generation names a
\* session that the receiver's own lobby has had, although the message is
\* checked, routed, looked up and sent at four moments between which sessions
\* end, are replaced and appear in other lobbies.
THEOREM SendersAreGenuine == RelaySpec => []SenderIsGenuine
<1>1. RelaySpec => []RelayInv
  BY InitEstablishes, StepPreserves, PTL DEF RelaySpec
<1>2. RelayInv => SenderIsGenuine
  BY DEF RelayInv, SenderIsGenuine, IdIsGenuine, StampNamesSessionOfLobby, DeliveredIsGenuine,
         Registered
<1> QED
  BY <1>1, <1>2, PTL

-----------------------------------------------------------------------------
(***************************************************************************)
(* TokenDelivery.                                                          *)
(***************************************************************************)
\* The inductive invariant.

\* The steps in which a task carries a notification.
Busy == {"committed", "welcoming", "kicking", "rotating", "sending"}

\* The task has registered its session and not yet answered it.
Answering(c) == step[c] \in {"committed", "welcoming"}

\* Member i is on socket d in lobby l.
On(i, d, l) == member[i] # None /\ member[i].sender = d /\ member[i].lobby_id = l

\* A session belongs to a connection that has left "idle", and no two sessions
\* share one.
SessionsBound ==
  /\ \A c \in Conns : step[c] = "idle" <=> c \notin used
  /\ \A i \in ClientIds : member[i] # None => member[i].sender \in used
  /\ \A i, j \in ClientIds :
       member[i] # None /\ member[j] # None /\ member[i].sender = member[j].sender => i = j

\* Exactly the busy tasks carry a notification, to connections that registered.
JobsBound ==
  \A c \in Conns :
    /\ job[c] # None <=> step[c] \in Busy
    /\ job[c] # None => job[c].targets \subseteq used
    /\ step[c] = "kicking" => job[c].victim \in Conns
    /\ newest[c] # None => c \in used
    /\ Answering(c) => newest[c] # Lost

\* A lobby with members has a token, made in its present life.
TokensBound ==
  /\ \A i \in ClientIds : member[i] # None => token[member[i].lobby_id] # None
  /\ \A l \in LobbyIds : token[l] # None => token[l].lobby_id = l /\ token[l].birth = births[l]

\* No token was made after the one in force.
NotAhead(t) ==
  /\ t.birth <= births[t.lobby_id]
  /\ token[t.lobby_id] # None /\ t.birth = births[t.lobby_id]
       => t.epoch <= token[t.lobby_id].epoch

NothingAhead ==
  \A c \in Conns : /\ job[c] # None => NotAhead(job[c].token)
                   /\ newest[c] \notin {None, Lost} => NotAhead(newest[c])

\* A socket has, and is sent, only tokens of the lobby it is in.
Home ==
  \A i \in ClientIds : member[i] # None =>
    LET d == member[i].sender
        l == member[i].lobby_id
    IN  /\ newest[d] \notin {None, Lost} => newest[d].lobby_id = l
        /\ Answering(d) => job[d].token.lobby_id = l
        /\ \A c \in Conns : job[c] # None /\ d \in job[c].targets => job[c].token.lobby_id = l

InForce(t) == token[t.lobby_id] = t

\* While the token of a notification is in force the membership is as it was
\* when the token was made: its targets are members, and so is who registered,
\* whom nobody else has a token for.
ForceMeansPresent ==
  \A c \in Conns : job[c] # None /\ InForce(job[c].token) =>
    /\ \A d \in job[c].targets : \E i \in ClientIds : On(i, d, job[c].token.lobby_id)
    /\ Answering(c) =>
         /\ \E i \in ClientIds : On(i, c, job[c].token.lobby_id)
         /\ newest[c] = None
         /\ \A e \in Conns : job[e] # None => c \notin job[e].targets

\* Nobody has a token for socket d.
NoneFor(d) == \A e \in Conns : job[e] # None => d \notin job[e].targets

\* NoMemberForgotten, where a lost RegisterSuccess is an excuse only until the
\* next token is made.
NobodyForgotten ==
  \A i \in ClientIds : member[i] # None =>
    LET d == member[i].sender
        t == token[member[i].lobby_id]
    IN  \/ newest[d] = t
        \/ newest[d] = Lost /\ NoneFor(d)
        \/ d \in told
        \/ \E c \in Conns : Owes(c, t, d)

Structure == TypeOK /\ SessionsBound /\ JobsBound /\ TokensBound

IndInv ==
  /\ Structure
  /\ NothingAhead
  /\ Home
  /\ ForceMeansPresent
  /\ TokenKnownOnlyToMembers
  /\ NobodyForgotten

-----------------------------------------------------------------------------
USE DEF Steps, Busy

\* What the types say of one token, one notification and one session.
LEMMA TokenFields ==
  ASSUME NEW t \in Token
  PROVE  t.lobby_id \in LobbyIds /\ t.birth \in Nat /\ t.epoch \in Nat
  BY DEF Token

LEMMA JobFields ==
  ASSUME TypeOK, NEW c \in Conns, job[c] # None
  PROVE  /\ job[c] \in Job
         /\ job[c].token \in Token
         /\ job[c].token.lobby_id \in LobbyIds
         /\ job[c].targets \subseteq Conns
         /\ job[c].after \in {"live", "gone"}
<1>1. job[c] \in Job
  BY DEF TypeOK
<1>2. job[c].token \in Token
  BY <1>1 DEF Job
<1> QED BY <1>1, <1>2 DEF Job, Token

LEMMA MemberFields ==
  ASSUME TypeOK, NEW i \in ClientIds, member[i] # None
  PROVE  member[i].lobby_id \in LobbyIds /\ member[i].sender \in Conns
  BY DEF TypeOK, MembershipTypeOK

LEMMA RotatedIsToken ==
  ASSUME NEW t \in Token
  PROVE  /\ Rotated(t) \in Token
         /\ Rotated(t).lobby_id = t.lobby_id
         /\ Rotated(t).birth = t.birth
         /\ Rotated(t).epoch = t.epoch + 1
  BY DEF Rotated, Token

LEMMA NewTokenIsToken ==
  ASSUME TypeOK, NEW l \in LobbyIds
  PROVE  /\ NewToken(l) \in Token
         /\ NewToken(l).lobby_id = l
         /\ NewToken(l).birth = births[l] + 1
  BY DEF NewToken, Token, TypeOK

(***************************************************************************)
(* Every step keeps the structure.                                         *)
(***************************************************************************)
LEMMA StructureInit ==
  ASSUME Init
  PROVE  Structure
<1>1. TypeOK
  BY DEF Init, MembershipInit, TypeOK, MembershipTypeOK
<1>2. SessionsBound /\ JobsBound /\ TokensBound
  BY DEF Init, MembershipInit, SessionsBound, JobsBound, TokensBound, Answering
<1> QED BY <1>1, <1>2 DEF Structure

(***************************************************************************)
(* A step of task c that leaves the membership and the tokens alone, and   *)
(* of its notification keeps at most the token and some of the targets.    *)
(* At most one socket hears of the token, or will never.                   *)
(***************************************************************************)
Hears(c, d) ==
  /\ d \in job[c].targets \/ (d = c /\ step[c] = "welcoming")
  /\ job[c] # None
  /\ newest[d] \in {None, Lost} \/ Newer(job[c].token, newest[d])
  /\ newest' = [newest EXCEPT ![d] = job[c].token]

LosesWelcome(c) ==
  /\ step[c] = "welcoming"
  /\ newest[c] = None
  /\ newest' = [newest EXCEPT ![c] = Lost]

Quiet(c) ==
  /\ UNCHANGED <<membership, token, births>>
  /\ step' = [step EXCEPT ![c] = step'[c]]
  /\ step[c] # "idle" /\ step'[c] \in Steps \ {"idle", "committed", "kicking"}
  /\ step'[c] = "welcoming" => step[c] = "committed" /\ UNCHANGED newest
  /\ job' = [job EXCEPT ![c] = job'[c]]
  /\ job'[c] # None <=> step'[c] \in Busy
  /\ job'[c] # None =>
       /\ job[c] # None /\ job'[c] \in Job
       /\ job'[c].token = job[c].token
       /\ job'[c].targets \subseteq job[c].targets
  /\ told \subseteq told' /\ told' \subseteq Conns
  /\ UNCHANGED newest \/ (\E d \in Conns : Hears(c, d)) \/ LosesWelcome(c)

LEMMA QuietNewest ==
  ASSUME Structure, NEW c \in Conns, Quiet(c)
  PROVE  /\ newest' \in [Conns -> Token \cup {None, Lost}]
         /\ \A d \in Conns : newest'[d] # None => newest[d] # None \/ d \in used
<1>1. CASE UNCHANGED newest
  BY <1>1 DEF Structure, TypeOK
<1>2. ASSUME NEW d \in Conns, Hears(c, d)
      PROVE  /\ newest' \in [Conns -> Token \cup {None, Lost}]
             /\ \A e \in Conns : newest'[e] # None => newest[e] # None \/ e \in used
  <2>1. d \in used
    BY <1>2 DEF Hears, Structure, JobsBound, SessionsBound
  <2>2. job[c].token \in Token
    BY <1>2, JobFields DEF Hears, Structure
  <2> QED BY <1>2, <2>1, <2>2 DEF Hears, Structure, TypeOK
<1>3. CASE LosesWelcome(c)
  BY <1>3 DEF LosesWelcome, Structure, TypeOK, SessionsBound
<1> QED BY <1>1, <1>2, <1>3 DEF Quiet

LEMMA QuietStructure ==
  ASSUME Structure, NEW c \in Conns, Quiet(c)
  PROVE  Structure'
<1>0. /\ newest' \in [Conns -> Token \cup {None, Lost}]
      /\ \A d \in Conns : newest'[d] # None => newest[d] # None \/ d \in used
  BY QuietNewest
<1>1. TypeOK'
  <2>1. MembershipTypeOK'
    BY DEF Structure, TypeOK, Quiet, membership, MembershipTypeOK
  <2>2. /\ token' \in [LobbyIds -> Token \cup {None}] /\ births' \in [LobbyIds -> Nat]
        /\ step' \in [Conns -> Steps] /\ told' \subseteq Conns
    BY DEF Structure, TypeOK, Quiet
  <2>3. job' \in [Conns -> Job \cup {None}]
    BY DEF Structure, TypeOK, Quiet
  <2> QED BY <1>0, <2>1, <2>2, <2>3 DEF TypeOK
<1>2. SessionsBound'
  BY DEF Structure, TypeOK, SessionsBound, Quiet, membership
<1>3. JobsBound'
  <2> SUFFICES ASSUME NEW e \in Conns
               PROVE  /\ job'[e] # None <=> step'[e] \in Busy
                      /\ job'[e] # None => job'[e].targets \subseteq used'
                      /\ step'[e] = "kicking" => job'[e].victim \in Conns
                      /\ newest'[e] # None => e \in used'
                      /\ step'[e] \in {"committed", "welcoming"} => newest'[e] # Lost
    BY DEF JobsBound, Answering
  <2>1. newest'[e] # None => e \in used'
    BY <1>0 DEF Structure, JobsBound, Quiet, membership
  <2>2. ASSUME step'[e] \in {"committed", "welcoming"}
        PROVE  newest'[e] # Lost
    <3>0. Answering(e) /\ newest[e] # Lost /\ (e = c => UNCHANGED newest)
      BY <2>2 DEF Quiet, Structure, TypeOK, JobsBound, Answering
    <3>1. ASSUME NEW d \in Conns, Hears(c, d) PROVE newest'[e] # Lost
      <4>1. job[c].token \in Token
        BY <3>1, JobFields DEF Hears, Structure
      <4> QED BY <3>0, <3>1, <4>1, AbsentAssumption DEF Hears, Structure, TypeOK
    <3> QED BY <3>0, <3>1 DEF Quiet, LosesWelcome, Structure, TypeOK
  <2>3. CASE e = c
    BY <2>1, <2>2, <2>3 DEF Structure, TypeOK, JobsBound, Quiet, membership
  <2>4. CASE e # c
    BY <2>1, <2>2, <2>4 DEF Structure, TypeOK, JobsBound, Quiet, membership
  <2> QED BY <2>3, <2>4
<1>4. TokensBound'
  BY DEF Structure, TokensBound, Quiet, membership
<1> QED BY <1>1, <1>2, <1>3, <1>4 DEF Structure

LEMMA QuietAheadHome ==
  ASSUME IndInv, NEW c \in Conns, Quiet(c)
  PROVE  NothingAhead' /\ Home'
<1>0. /\ \A t : NotAhead(t)' <=> NotAhead(t)
      /\ \A e \in Conns : job'[e] # None => job[e] # None /\ job'[e].token = job[e].token
                                            /\ job'[e].targets \subseteq job[e].targets
      /\ \A e \in Conns : step'[e] \in {"committed", "welcoming"} =>
                            Answering(e) /\ job'[e] # None
  BY DEF Quiet, NotAhead, IndInv, Structure, TypeOK, Answering, JobsBound, membership
<1>1. \A e \in Conns : newest'[e] \notin {None, Lost} =>
        newest'[e] = newest[e] \/ (Hears(c, e) /\ newest'[e] = job[c].token)
  BY DEF Quiet, Hears, LosesWelcome, IndInv, Structure, TypeOK
<1>2. NothingAhead'
  BY <1>0, <1>1 DEF NothingAhead, IndInv, Hears
<1>3. Home'
  <2> SUFFICES ASSUME NEW i \in ClientIds, member[i] # None
               PROVE  LET d == member[i].sender
                          l == member[i].lobby_id
                      IN  /\ newest'[d] \notin {None, Lost} => newest'[d].lobby_id = l
                          /\ step'[d] \in {"committed", "welcoming"} => job'[d].token.lobby_id = l
                          /\ \A e \in Conns : job'[e] # None /\ d \in job'[e].targets
                                               => job'[e].token.lobby_id = l
    BY DEF Home, Quiet, membership, Answering
  <2> DEFINE d == member[i].sender
             l == member[i].lobby_id
  <2>0. d \in Conns
    BY MemberFields DEF IndInv, Structure
  <2>1. /\ newest[d] \notin {None, Lost} => newest[d].lobby_id = l
        /\ Answering(d) => job[d].token.lobby_id = l
        /\ \A e \in Conns : job[e] # None /\ d \in job[e].targets => job[e].token.lobby_id = l
    BY DEF Home, IndInv
  <2> HIDE DEF d, l
  <2>2. Hears(c, d) => job[c].token.lobby_id = l
    BY <2>1 DEF Hears, Answering
  <2>3. newest'[d] \notin {None, Lost} => newest'[d].lobby_id = l
    BY <1>1, <2>0, <2>1, <2>2
  <2>4. step'[d] \in {"committed", "welcoming"} => job'[d].token.lobby_id = l
    BY <1>0, <2>0, <2>1 DEF Answering
  <2>5. \A e \in Conns : job'[e] # None /\ d \in job'[e].targets => job'[e].token.lobby_id = l
    BY <1>0, <2>1
  <2> QED BY <2>3, <2>4, <2>5 DEF d, l
<1> QED BY <1>2, <1>3

LEMMA QuietForce ==
  ASSUME IndInv, NEW c \in Conns, Quiet(c)
  PROVE  ForceMeansPresent'
<1> SUFFICES ASSUME NEW e \in Conns, job'[e] # None, InForce(job[e].token)'
             PROVE  /\ \A d \in job'[e].targets :
                         \E i \in ClientIds : On(i, d, job[e].token.lobby_id)'
                    /\ Answering(e)' =>
                         /\ \E i \in ClientIds : On(i, e, job[e].token.lobby_id)'
                         /\ newest'[e] = None
                         /\ \A k \in Conns : job'[k] # None => e \notin job'[k].targets
  BY DEF ForceMeansPresent
<1>0. \A k \in Conns : job'[k] # None => job[k] # None /\ job'[k].token = job[k].token
                                         /\ job'[k].targets \subseteq job[k].targets
  BY DEF Quiet, IndInv, Structure, TypeOK
<1>1. \A i, d, l : On(i, d, l)' <=> On(i, d, l)
  BY DEF On, Quiet, membership
<1>2. InForce(job[e].token)
  BY <1>0 DEF InForce, Quiet
<1>3. ASSUME Answering(e)'
      PROVE  newest'[e] = None
  <2>1. Answering(e) /\ newest[e] = None /\ NoneFor(e) /\ (e = c => UNCHANGED newest)
    BY <1>0, <1>2, <1>3
    DEF Answering, Quiet, IndInv, Structure, TypeOK, ForceMeansPresent, NoneFor
  <2> QED BY <2>1 DEF Quiet, Hears, LosesWelcome, NoneFor, IndInv, Structure, TypeOK
<1>4. Answering(e)' => Answering(e)
  BY DEF Answering, Quiet, IndInv, Structure, TypeOK
<1> QED BY <1>0, <1>1, <1>2, <1>3, <1>4 DEF ForceMeansPresent, IndInv

LEMMA QuietKnown ==
  ASSUME IndInv, NEW c \in Conns, Quiet(c)
  PROVE  TokenKnownOnlyToMembers'
<1> SUFFICES ASSUME NEW l \in LobbyIds, token[l] # None,
                    NEW d \in Conns, newest'[d] = token[l]
             PROVE  d \in Sockets(l)
  BY DEF TokenKnownOnlyToMembers, Quiet, Sockets, IdsIn, membership
<1>1. CASE newest'[d] = newest[d]
  BY <1>1 DEF IndInv, TokenKnownOnlyToMembers
<1>2. CASE newest'[d] # newest[d]
  <2>0. token[l] \in Token
    BY DEF IndInv, Structure, TypeOK
  <2>1. Hears(c, d) /\ job[c].token = token[l]
    BY <1>2, <2>0, AbsentAssumption DEF Quiet, Hears, LosesWelcome, IndInv, Structure, TypeOK
  <2>2. job[c] # None /\ InForce(job[c].token) /\ job[c].token.lobby_id = l
    BY <2>1 DEF Hears, InForce, IndInv, Structure, TokensBound
  <2>3. \E i \in ClientIds : On(i, d, l)
    BY <2>1, <2>2 DEF Hears, IndInv, ForceMeansPresent, Answering
  <2> QED BY <2>3 DEF On, Sockets, IdsIn
<1> QED BY <1>1, <1>2

\* What NobodyForgotten says of the member on socket d, of a lobby with token t.
Served(d, t) ==
  \/ newest[d] = t
  \/ newest[d] = Lost /\ NoneFor(d)
  \/ d \in told
  \/ \E c \in Conns : Owes(c, t, d)

\* Two tokens of a lobby, one of them in force, are the same or the other is older.
LEMMA InForceIsNewest ==
  ASSUME Structure, NEW l \in LobbyIds, token[l] # None, NEW u \in Token,
         u.lobby_id = l, NotAhead(u)
  PROVE  /\ ~Newer(u, token[l])
         /\ u = token[l] \/ Newer(token[l], u)
<1>1. /\ token[l] \in Token
      /\ token[l].lobby_id = l /\ token[l].birth = births[l]
  BY DEF Structure, TypeOK, TokensBound
<1>2. u.birth <= token[l].birth /\ (u.birth = token[l].birth => u.epoch <= token[l].epoch)
  BY <1>1 DEF NotAhead
<1>3. u.birth = token[l].birth /\ u.epoch = token[l].epoch => u = token[l]
  BY <1>1 DEF Token
<1>4. /\ u.birth \in Nat /\ u.epoch \in Nat
      /\ token[l].birth \in Nat /\ token[l].epoch \in Nat
  BY <1>1, TokenFields
<1> QED BY <1>2, <1>3, <1>4 DEF Newer

\* A quiet step forgets nobody but whom its own task owed a token.
LEMMA QuietForgets ==
  ASSUME IndInv, NEW c \in Conns, Quiet(c),
         \A i \in ClientIds :
           member[i] # None /\ Owes(c, token[member[i].lobby_id], member[i].sender)
             => Served(member[i].sender, token[member[i].lobby_id])'
  PROVE  NobodyForgotten'
<1> SUFFICES ASSUME NEW i \in ClientIds, member[i] # None
             PROVE  Served(member[i].sender, token[member[i].lobby_id])'
  BY DEF NobodyForgotten, Served, Quiet, membership
<1> DEFINE d == member[i].sender
           l == member[i].lobby_id
           t == token[l]
<1>0. d \in Conns /\ l \in LobbyIds /\ t # None /\ t \in Token
  BY MemberFields DEF IndInv, Structure, TokensBound, TypeOK
<1>1. d' = d /\ t' = t
  BY DEF Quiet, membership
<1>2. Served(d, t)
  BY DEF IndInv, NobodyForgotten, Served
<1>3. CASE newest[d] = t
  <2>1. ~Hears(c, d)
    <3> SUFFICES ASSUME Hears(c, d) PROVE FALSE
      OBVIOUS
    <3>1. job[c] # None /\ job[c].token \in Token /\ NotAhead(job[c].token)
      BY JobFields DEF Hears, IndInv, Structure, NothingAhead
    <3>2. job[c].token.lobby_id = l
      BY DEF Hears, IndInv, Home, Answering
    <3>3. ~Newer(job[c].token, t)
      BY <1>0, <3>1, <3>2, InForceIsNewest DEF IndInv
    <3> QED BY <1>0, <1>3, <3>3, AbsentAssumption DEF Hears
  <2>2. newest'[d] = t
    BY <1>0, <1>3, <2>1 DEF Quiet, Hears, LosesWelcome, IndInv, Structure, TypeOK
  <2> QED BY <1>1, <2>2 DEF Served
<1>4. CASE newest[d] = Lost /\ NoneFor(d)
  <2>1. NoneFor(d)'
    BY <1>1, <1>4 DEF NoneFor, Quiet, IndInv, Structure, TypeOK
  <2>2. ~Answering(d)
    BY <1>0, <1>4 DEF IndInv, Structure, JobsBound
  <2>3. newest'[d] = Lost
    BY <1>0, <1>4, <2>2
    DEF Quiet, Hears, LosesWelcome, NoneFor, Answering, IndInv, Structure, TypeOK
  <2> QED BY <1>1, <2>1, <2>3 DEF Served
<1>5. CASE d \in told
  BY <1>1, <1>5 DEF Served, Quiet
<1>6. ASSUME NEW e \in Conns, e # c, Owes(e, t, d)
      PROVE  Served(d, t)'
  <2>1. step'[e] = step[e] /\ job'[e] = job[e]
    BY <1>6 DEF Quiet, IndInv, Structure, TypeOK
  <2>2. Owes(e, t, d)'
    BY <1>1, <1>6, <2>1 DEF Owes, Sockets, IdsIn, Quiet, membership
  <2> QED BY <2>2 DEF Served
<1> QED BY <1>2, <1>3, <1>4, <1>5, <1>6 DEF Served

(***************************************************************************)
(* The quiet steps, and that none of them forgets whom its task owed a     *)
(* token.                                                                  *)
(***************************************************************************)
OwedStaysServed(c) ==
  \A i \in ClientIds :
    member[i] # None /\ Owes(c, token[member[i].lobby_id], member[i].sender)
      => Served(member[i].sender, token[member[i].lobby_id])'

LEMMA QuietStep ==
  ASSUME IndInv, NEW c \in Conns, Quiet(c), OwedStaysServed(c)
  PROVE  IndInv'
<1>1. Structure'
  BY QuietStructure DEF IndInv
<1>2. NobodyForgotten'
  BY QuietForgets DEF OwedStaysServed
<1> QED BY <1>1, <1>2, QuietAheadHome, QuietForce, QuietKnown DEF IndInv

\* A task that owes a token in force to d, itself or another member.
LEMMA OwedInForce ==
  ASSUME IndInv, NEW c \in Conns, NEW i \in ClientIds, member[i] # None,
         step[c] \in Busy, Owes(c, token[member[i].lobby_id], member[i].sender)
  PROVE  /\ job[c] # None /\ job[c].token = token[member[i].lobby_id]
         /\ InForce(job[c].token)
         /\ job[c].token.lobby_id = member[i].lobby_id
         /\ member[i].sender \in job[c].targets \/ (member[i].sender = c /\ Answering(c))
<1>1. member[i].lobby_id \in LobbyIds /\ token[member[i].lobby_id] # None
  BY MemberFields DEF IndInv, Structure, TokensBound
<1>2. token[member[i].lobby_id].lobby_id = member[i].lobby_id
  BY <1>1 DEF IndInv, Structure, TokensBound
<1> QED BY <1>1, <1>2 DEF Owes, Answering, InForce, IndInv, Structure, JobsBound

LEMMA StepCheckCommit ==
  ASSUME IndInv, NEW c \in Conns, CheckCommit(c)
  PROVE  IndInv'
<1>1. job[c] # None /\ job[c] \in Job /\ step[c] = "committed"
  BY JobFields DEF CheckCommit, IndInv, Structure, JobsBound
<1>2. Quiet(c)
  BY <1>1 DEF CheckCommit, GoTo, Quiet, IndInv, Structure, TypeOK, membership
<1>3. OwedStaysServed(c)
  <2> SUFFICES ASSUME NEW i \in ClientIds, member[i] # None,
                      Owes(c, token[member[i].lobby_id], member[i].sender)
               PROVE  Served(member[i].sender, token[member[i].lobby_id])'
    BY DEF OwedStaysServed
  <2>1. /\ InForce(job[c].token) /\ job[c].token = token[member[i].lobby_id]
        /\ job[c].token.lobby_id = member[i].lobby_id
        /\ member[i].sender \in job[c].targets \/ (member[i].sender = c /\ Answering(c))
    BY <1>1, OwedInForce
  <2>2. PICK j \in ClientIds : On(j, c, job[c].token.lobby_id)
    BY <1>1, <2>1 DEF IndInv, ForceMeansPresent, Answering
  <2>3. c \in Sockets(job[c].token.lobby_id) /\ IdsOn(c) # {}
    BY <2>2 DEF On, Sockets, IdsIn, IdsOn
  <2>4. /\ membership' = membership /\ token' = token
        /\ step'[c] = "leaving" \/ (step'[c] = "welcoming" /\ job' = job)
    BY <2>3 DEF CheckCommit, GoTo, IndInv, Structure, TypeOK
  <2>5. Owes(c, token[member[i].lobby_id], member[i].sender)'
    BY <1>1, <2>1, <2>3, <2>4 DEF Owes, Sockets, IdsIn, membership
  <2> QED BY <2>5 DEF Served
<1> QED BY <1>2, <1>3, QuietStep

\* Who has answered its session still owes the others their token.
LEMMA WelcomedOwes ==
  ASSUME IndInv, NEW c \in Conns, step[c] = "welcoming", Welcomed(c),
         UNCHANGED <<membership, token>>, NEW i \in ClientIds, member[i] # None,
         Owes(c, token[member[i].lobby_id], member[i].sender), member[i].sender # c
  PROVE  Served(member[i].sender, token[member[i].lobby_id])'
<1>1. /\ job[c].token = token[member[i].lobby_id]
      /\ member[i].sender \in job[c].targets
  BY OwedInForce
<1>2. step'[c] = "rotating" /\ job' = job
  BY <1>1 DEF Welcomed, GoTo, IndInv, Structure, TypeOK
<1>3. Owes(c, token[member[i].lobby_id], member[i].sender)'
  BY <1>1, <1>2 DEF Owes, membership
<1> QED BY <1>3 DEF Served

LEMMA StepWelcome ==
  ASSUME IndInv, NEW c \in Conns, SendWelcome(c) \/ LoseWelcome(c)
  PROVE  IndInv'
<1>1. job[c] # None /\ job[c] \in Job /\ step[c] = "welcoming" /\ Welcomed(c)
  BY JobFields DEF SendWelcome, LoseWelcome, IndInv, Structure, JobsBound
<1>2. UNCHANGED newest \/ Hears(c, c) \/ LosesWelcome(c)
  BY <1>1 DEF SendWelcome, LoseWelcome, Reaches, Hears, LosesWelcome, IndInv, Structure,
              TypeOK
<1>3. /\ UNCHANGED <<membership, token, births, told>>
      /\ \/ step' = [step EXCEPT ![c] = "live"] /\ job' = [job EXCEPT ![c] = None]
         \/ step' = [step EXCEPT ![c] = "rotating"] /\ job' = job
  BY <1>1 DEF SendWelcome, LoseWelcome, Welcomed, GoTo
<1>4. Quiet(c)
  BY <1>1, <1>2, <1>3 DEF Quiet, IndInv, Structure, TypeOK
<1>5. OwedStaysServed(c)
  <2> SUFFICES ASSUME NEW i \in ClientIds, member[i] # None,
                      Owes(c, token[member[i].lobby_id], member[i].sender)
               PROVE  Served(member[i].sender, token[member[i].lobby_id])'
    BY DEF OwedStaysServed
  <2>1. CASE member[i].sender # c
    BY <1>1, <1>3, <2>1, WelcomedOwes
  <2>2. CASE member[i].sender = c
    <3>1. /\ InForce(job[c].token) /\ job[c].token = token[member[i].lobby_id]
      BY <1>1, OwedInForce
    <3>2. newest[c] = None /\ NoneFor(c)
      BY <1>1, <3>1 DEF IndInv, ForceMeansPresent, Answering, NoneFor
    <3>3. NoneFor(c)'
      BY <1>3, <3>2 DEF NoneFor, IndInv, Structure, TypeOK
    <3>4. newest'[c] = job[c].token \/ newest'[c] = Lost
      BY <3>2 DEF SendWelcome, LoseWelcome, Reaches, IndInv, Structure, TypeOK
    <3>5. member'[i].sender = c /\ token'[member'[i].lobby_id] = job[c].token
      BY <1>3, <2>2, <3>1 DEF membership
    <3> QED BY <3>3, <3>4, <3>5 DEF Served
  <2> QED BY <2>1, <2>2
<1> QED BY <1>4, <1>5, QuietStep

LEMMA StepLoop ==
  ASSUME IndInv, NEW c \in Conns, EndLoop(c) \/ LeaveReplaced(c)
  PROVE  IndInv'
<1>1. job[c] = None /\ step[c] \in {"live", "leaving"}
  BY DEF EndLoop, LeaveReplaced, IndInv, Structure, JobsBound
<1>2. Quiet(c)
  BY <1>1 DEF EndLoop, LeaveReplaced, GoTo, Quiet, IndInv, Structure, TypeOK
<1>3. OwedStaysServed(c)
  BY <1>1 DEF OwedStaysServed, Owes, EndLoop, LeaveReplaced, Sockets, IdsIn, IdsOn
<1> QED BY <1>2, <1>3, QuietStep

LEMMA StepSignalKicked ==
  ASSUME IndInv, NEW c \in Conns, SignalKicked(c)
  PROVE  IndInv'
<1>1. job[c] # None /\ job[c] \in Job /\ step[c] = "kicking" /\ job[c].victim \in Conns
  BY JobFields DEF SignalKicked, IndInv, Structure, JobsBound
<1>2. Quiet(c)
  BY <1>1 DEF SignalKicked, GoTo, Quiet, IndInv, Structure, TypeOK
<1>3. OwedStaysServed(c)
  <2>1. /\ membership' = membership /\ token' = token /\ job' = job
        /\ step'[c] = "rotating"
    BY DEF SignalKicked, GoTo, IndInv, Structure, TypeOK
  <2> QED BY <1>1, <2>1 DEF OwedStaysServed, Owes, Served, membership
<1> QED BY <1>2, <1>3, QuietStep

LEMMA StepCheckRotation ==
  ASSUME IndInv, NEW c \in Conns, CheckRotation(c)
  PROVE  IndInv'
<1>1. job[c] # None /\ job[c] \in Job /\ step[c] = "rotating"
      /\ job[c].targets \subseteq Conns /\ job[c].after \in {"live", "gone"}
  BY JobFields DEF CheckRotation, IndInv, Structure, JobsBound
<1>2. CASE InForce(job[c].token)
  <2>1. \A d \in job[c].targets : d \in Sockets(job[c].token.lobby_id)
    BY <1>1, <1>2 DEF IndInv, ForceMeansPresent, On, Sockets, IdsIn
  <2>2. job[c].targets \cap Sockets(job[c].token.lobby_id) = job[c].targets
    BY <2>1
  <2>3. [job[c] EXCEPT !.targets = job[c].targets] = job[c]
    BY <1>1 DEF Job
  <2>4. /\ job' = [job EXCEPT ![c] = job[c]] /\ step' = [step EXCEPT ![c] = "sending"]
        /\ UNCHANGED <<membership, token, births, newest, told>>
    BY <1>2, <2>2, <2>3 DEF CheckRotation, GoTo, InForce
  <2>5. Quiet(c)
    BY <1>1, <2>4 DEF Quiet, IndInv, Structure, TypeOK
  <2>6. OwedStaysServed(c)
    <3>1. job'[c] = job[c] /\ step'[c] = "sending"
      BY <2>4 DEF IndInv, Structure, TypeOK
    <3> QED BY <1>1, <2>4, <3>1 DEF OwedStaysServed, Owes, Served, membership
  <2> QED BY <2>5, <2>6, QuietStep
<1>3. CASE ~InForce(job[c].token)
  <2>1. /\ job' = [job EXCEPT ![c] = None] /\ step' = [step EXCEPT ![c] = job[c].after]
        /\ UNCHANGED <<membership, token, births, newest, told>>
    BY <1>3 DEF CheckRotation, Finish, GoTo, InForce
  <2>2. Quiet(c)
    BY <1>1, <2>1 DEF Quiet, IndInv, Structure, TypeOK
  <2>3. OwedStaysServed(c)
    BY <1>1, <1>3, OwedInForce DEF OwedStaysServed
  <2> QED BY <2>2, <2>3, QuietStep
<1> QED BY <1>2, <1>3

\* One send, whether it gets through or not.
LEMMA StepDelivery ==
  ASSUME IndInv, NEW c \in Conns, NEW d \in Conns,
         Deliver(c, d) \/ DeliveryFails(c, d)
  PROVE  IndInv'
<1>1. job[c] # None /\ job[c] \in Job /\ step[c] = "sending" /\ d \in job[c].targets
      /\ job[c].token \in Token
  BY JobFields DEF Deliver, DeliveryFails, IndInv, Structure, JobsBound
<1>2. /\ UNCHANGED <<membership, token, births, step>>
      /\ job' = [job EXCEPT ![c] = [job[c] EXCEPT !.targets = job[c].targets \ {d}]]
      /\ told \subseteq told' /\ told' \subseteq Conns
  BY DEF Deliver, DeliveryFails, IndInv, Structure, TypeOK
<1>3. /\ job'[c] \in Job /\ job'[c].token = job[c].token
      /\ job'[c].targets = job[c].targets \ {d}
  BY <1>1, <1>2 DEF Job, IndInv, Structure, TypeOK
<1>4. UNCHANGED newest \/ Hears(c, d)
  BY <1>1 DEF Deliver, DeliveryFails, Reaches, Hears, IndInv, Structure, TypeOK
<1>5. Quiet(c)
  BY <1>1, <1>2, <1>3, <1>4, AbsentAssumption DEF Quiet, IndInv, Structure, TypeOK
<1>6. OwedStaysServed(c)
  <2> SUFFICES ASSUME NEW i \in ClientIds, member[i] # None,
                      Owes(c, token[member[i].lobby_id], member[i].sender)
               PROVE  Served(member[i].sender, token[member[i].lobby_id])'
    BY DEF OwedStaysServed
  <2>1. /\ job[c].token = token[member[i].lobby_id]
        /\ job[c].token.lobby_id = member[i].lobby_id
        /\ member[i].sender \in job[c].targets
    BY <1>1, OwedInForce DEF Answering
  <2>2. member' = member /\ token' = token /\ step' = step
    BY <1>2 DEF membership
  <2>3. CASE member[i].sender # d
    <3>1. Owes(c, token[member[i].lobby_id], member[i].sender)'
      BY <1>1, <1>3, <2>1, <2>2, <2>3 DEF Owes
    <3> QED BY <3>1 DEF Served
  <2>4. CASE member[i].sender = d
    <3>1. CASE DeliveryFails(c, d)
      BY <2>2, <2>4, <3>1 DEF DeliveryFails, Served
    <3>2. CASE Deliver(c, d)
      <4>1. newest[d] \notin {None, Lost} =>
              /\ newest[d] \in Token /\ newest[d].lobby_id = member[i].lobby_id
              /\ NotAhead(newest[d])
        BY <2>4 DEF IndInv, Structure, TypeOK, Home, NothingAhead
      <4>2. member[i].lobby_id \in LobbyIds /\ token[member[i].lobby_id] # None
        BY MemberFields DEF IndInv, Structure, TokensBound
      <4>3. newest[d] \notin {None, Lost} =>
              newest[d] = token[member[i].lobby_id]
                \/ Newer(token[member[i].lobby_id], newest[d])
        BY <4>1, <4>2, InForceIsNewest DEF IndInv
      <4>4. newest'[d] = token[member[i].lobby_id]
        BY <2>1, <3>2, <4>3 DEF Deliver, Reaches, IndInv, Structure, TypeOK
      <4> QED BY <2>2, <2>4, <4>4 DEF Served
    <3> QED BY <3>1, <3>2
  <2> QED BY <2>3, <2>4
<1> QED BY <1>5, <1>6, QuietStep

LEMMA StepRotationSent ==
  ASSUME IndInv, NEW c \in Conns, RotationSent(c)
  PROVE  IndInv'
<1>1. job[c] # None /\ step[c] = "sending" /\ job[c].targets = {}
      /\ job[c].after \in {"live", "gone"}
  BY JobFields DEF RotationSent, IndInv, Structure, JobsBound
<1>2. Quiet(c)
  BY <1>1 DEF RotationSent, Finish, GoTo, Quiet, IndInv, Structure, TypeOK
<1>3. OwedStaysServed(c)
  BY <1>1, OwedInForce DEF OwedStaysServed, Answering
<1> QED BY <1>2, <1>3, QuietStep

(***************************************************************************)
(* A change of the membership of lobby l, by task c and for identity id,   *)
(* that gives the lobby token t and leaves c to tell the others.           *)
(***************************************************************************)
Fresh(t) ==
  \/ t.birth > births[t.lobby_id]
  \/ /\ token[t.lobby_id] # None
     /\ t.birth = births[t.lobby_id] /\ t.epoch > token[t.lobby_id].epoch

Entered(c, id, l) ==
  /\ step[c] = "idle" /\ step'[c] = "committed"
  /\ member'[id] # None /\ member'[id].sender = c /\ member'[id].lobby_id = l

Departed(c, id, l) ==
  /\ member'[id] = None
  /\ step[c] = "live" \/ (step[c] = "leaving" /\ On(id, c, l))
  /\ step'[c] \in {"kicking", "rotating"}

Rotates(c, id, l, t) ==
  /\ t \in Token /\ t.lobby_id = l /\ Fresh(t)
  /\ token' = [token EXCEPT ![l] = t]
  /\ births' = [births EXCEPT ![l] = t.birth]
  /\ job' = [job EXCEPT ![c] = job'[c]]
  /\ job'[c] # None /\ job'[c].token = t /\ job'[c].targets = OtherSockets(l, id)
  /\ step' = [step EXCEPT ![c] = step'[c]]
  /\ newest' = newest
  /\ told \subseteq told'
  /\ member[id] # None => member[id].lobby_id = l
  /\ \A i \in ClientIds \ {id} : member'[i] = member[i]
  /\ Entered(c, id, l) \/ Departed(c, id, l)

LEMMA StaleNow ==
  ASSUME Structure, NEW c \in Conns, NEW id \in ClientIds, NEW l \in LobbyIds, NEW t,
         Rotates(c, id, l, t), NEW u \in Token, NotAhead(u)
  PROVE  u # t /\ NotAhead(u)'
<1>1. /\ u.lobby_id \in LobbyIds /\ u.birth \in Nat /\ u.epoch \in Nat
      /\ t.lobby_id = l /\ t.birth \in Nat /\ t.epoch \in Nat
  BY TokenFields DEF Rotates
<1>2. births[l] \in Nat /\ (token[l] # None => token[l].epoch \in Nat)
  BY TokenFields DEF Structure, TypeOK
<1>3. u # t
  BY <1>1, <1>2 DEF NotAhead, Rotates, Fresh
<1>4. CASE u.lobby_id = l
  <2>1. token'[l] = t /\ births'[l] = t.birth
    BY DEF Rotates, Structure, TypeOK
  <2>2. u.birth <= t.birth /\ (u.birth = t.birth => u.epoch <= t.epoch)
    BY <1>1, <1>2, <1>4 DEF NotAhead, Rotates, Fresh
  <2> QED BY <1>3, <1>4, <2>1, <2>2 DEF NotAhead
<1>5. CASE u.lobby_id # l
  <2>1. token'[u.lobby_id] = token[u.lobby_id] /\ births'[u.lobby_id] = births[u.lobby_id]
    BY <1>1, <1>5 DEF Rotates, Structure, TypeOK
  <2> QED BY <1>3, <2>1 DEF NotAhead
<1> QED BY <1>4, <1>5

LEMMA RotatesAhead ==
  ASSUME IndInv, NEW c \in Conns, NEW id \in ClientIds,
         NEW l \in LobbyIds, NEW t, Rotates(c, id, l, t)
  PROVE  NothingAhead'
<1>1. NotAhead(t)'
  BY TokenFields DEF NotAhead, Rotates, IndInv, Structure, TypeOK
<1>2. \A u \in Token : NotAhead(u) => NotAhead(u)'
  BY StaleNow DEF IndInv
<1> SUFFICES ASSUME NEW e \in Conns
             PROVE  /\ job'[e] # None => NotAhead(job[e].token)'
                    /\ newest'[e] \notin {None, Lost} => NotAhead(newest[e])'
  BY DEF NothingAhead
<1>3. newest'[e] \notin {None, Lost} => NotAhead(newest[e])'
  <2>1. newest' = newest
    BY DEF Rotates
  <2>2. newest[e] \notin {None, Lost} => newest[e] \in Token /\ NotAhead(newest[e])
    BY DEF IndInv, Structure, TypeOK, NothingAhead
  <2> QED BY <1>2, <2>1, <2>2 DEF NotAhead
<1>4. job'[e] # None => NotAhead(job[e].token)'
  <2>1. CASE e = c
    BY <1>1, <2>1 DEF Rotates, NotAhead
  <2>2. CASE e # c
    <3>1. job'[e] = job[e]
      BY <2>2 DEF Rotates, IndInv, Structure, TypeOK
    <3>2. job[e] # None => job[e].token \in Token /\ NotAhead(job[e].token)
      BY JobFields DEF IndInv, Structure, NothingAhead
    <3> QED BY <1>2, <3>1, <3>2 DEF NotAhead
  <2> QED BY <2>1, <2>2
<1> QED BY <1>3, <1>4

\* The others of lobby l are the sockets of its members but for id.
LEMMA OthersAre ==
  ASSUME NEW l, NEW id, NEW d
  PROVE  d \in OtherSockets(l, id) <=> \E i \in ClientIds \ {id} : On(i, d, l)
  BY DEF OtherSockets, IdsIn, On

\* Who is on socket d after the change.
LEMMA WhoIsWhere ==
  ASSUME IndInv, NEW c \in Conns, NEW id \in ClientIds, NEW l \in LobbyIds, NEW t,
         Rotates(c, id, l, t), NEW i \in ClientIds, member'[i] # None
  PROVE  \/ i # id /\ member'[i] = member[i]
         \/ i = id /\ Entered(c, id, l)
  BY DEF Rotates, Departed

\* The task that changes the membership is nobody's target if it enters.
LEMMA NewcomerUnknown ==
  ASSUME IndInv, NEW c \in Conns, NEW id \in ClientIds, NEW l \in LobbyIds, NEW t,
         Rotates(c, id, l, t), Entered(c, id, l)
  PROVE  /\ newest[c] = None
         /\ \A e \in Conns : job'[e] # None => c \notin job'[e].targets
         /\ \A i \in ClientIds : member[i] # None => member[i].sender # c
<1>1. c \notin used
  BY DEF Entered, IndInv, Structure, SessionsBound
<1>2. newest[c] = None
  BY <1>1 DEF IndInv, Structure, JobsBound
<1>3. \A i \in ClientIds : member[i] # None => member[i].sender # c
  BY <1>1 DEF IndInv, Structure, SessionsBound
<1>4. c \notin OtherSockets(l, id)
  BY <1>3, OthersAre DEF On
<1>5. \A e \in Conns : job'[e] # None => c \notin job'[e].targets
  BY <1>1, <1>4 DEF Rotates, IndInv, Structure, JobsBound, TypeOK
<1> QED BY <1>2, <1>3, <1>5

LEMMA RotatesHome ==
  ASSUME IndInv, NEW c \in Conns, NEW id \in ClientIds,
         NEW l \in LobbyIds, NEW t, Rotates(c, id, l, t)
  PROVE  Home'
<1> SUFFICES ASSUME NEW i \in ClientIds, member'[i] # None
             PROVE  LET d == member'[i].sender
                        k == member'[i].lobby_id
                    IN  /\ newest[d] \notin {None, Lost} => newest[d].lobby_id = k
                        /\ step'[d] \in {"committed", "welcoming"} =>
                             job'[d].token.lobby_id = k
                        /\ \A e \in Conns : job'[e] # None /\ d \in job'[e].targets
                                             => job'[e].token.lobby_id = k
  BY DEF Home, Rotates, Answering
<1>1. CASE i # id /\ member'[i] = member[i]
  <2> DEFINE d == member[i].sender
             k == member[i].lobby_id
  <2>0. d \in Conns /\ member[i] # None
    BY <1>1, MemberFields DEF IndInv, Structure
  <2>1. /\ newest[d] \notin {None, Lost} => newest[d].lobby_id = k
        /\ Answering(d) => job[d].token.lobby_id = k
        /\ \A e \in Conns : job[e] # None /\ d \in job[e].targets => job[e].token.lobby_id = k
    BY <2>0 DEF Home, IndInv
  <2>2. d \in OtherSockets(l, id) => k = l
    BY <2>0, OthersAre DEF On, IndInv, Structure, SessionsBound
  <2>3. step'[d] \in {"committed", "welcoming"} => d # c
    BY <2>0, NewcomerUnknown DEF Rotates, Departed
  <2> HIDE DEF d, k
  <2>4. d # c => step'[d] = step[d] /\ job'[d] = job[d]
    BY <2>0 DEF Rotates, IndInv, Structure, TypeOK
  <2>5. step'[d] \in {"committed", "welcoming"} => job'[d].token.lobby_id = k
    BY <2>1, <2>3, <2>4 DEF Answering
  <2>6. \A e \in Conns : job'[e] # None /\ d \in job'[e].targets => job'[e].token.lobby_id = k
    <3> SUFFICES ASSUME NEW e \in Conns, job'[e] # None, d \in job'[e].targets
                 PROVE  job'[e].token.lobby_id = k
      OBVIOUS
    <3>1. CASE e = c
      BY <2>2, <3>1 DEF Rotates
    <3>2. CASE e # c
      BY <2>1, <3>2 DEF Rotates, IndInv, Structure, TypeOK
    <3> QED BY <3>1, <3>2
  <2> QED BY <1>1, <2>1, <2>5, <2>6 DEF d, k
<1>2. CASE i = id /\ Entered(c, id, l)
  BY <1>2, NewcomerUnknown DEF Entered, Rotates
<1> QED BY <1>1, <1>2, WhoIsWhere

\* What is on a socket in another lobby stays.
LEMMA OtherLobbies ==
  ASSUME IndInv, NEW c \in Conns, NEW id \in ClientIds, NEW l \in LobbyIds, NEW t,
         Rotates(c, id, l, t), NEW k \in LobbyIds, k # l
  PROVE  /\ token'[k] = token[k]
         /\ \A i \in ClientIds, d \in Conns : On(i, d, k)' <=> On(i, d, k)
         /\ \A i \in ClientIds, d \in Conns : On(i, d, k) => d \notin OtherSockets(l, id)
<1>1. token'[k] = token[k]
  BY DEF Rotates, IndInv, Structure, TypeOK
<1>2. ASSUME NEW i \in ClientIds, NEW d \in Conns
      PROVE  On(i, d, k)' <=> On(i, d, k)
  <2>1. CASE i # id
    BY <2>1 DEF On, Rotates
  <2>2. CASE i = id
    BY <2>2 DEF On, Rotates, Entered, Departed
  <2> QED BY <2>1, <2>2
<1>3. ASSUME NEW i \in ClientIds, NEW d \in Conns, On(i, d, k)
      PROVE  d \notin OtherSockets(l, id)
  BY <1>3, OthersAre DEF On, IndInv, Structure, SessionsBound
<1> QED BY <1>1, <1>2, <1>3

LEMMA RotatesForce ==
  ASSUME IndInv, NEW c \in Conns, NEW id \in ClientIds,
         NEW l \in LobbyIds, NEW t, Rotates(c, id, l, t)
  PROVE  ForceMeansPresent'
<1> SUFFICES ASSUME NEW e \in Conns, job'[e] # None, InForce(job[e].token)'
             PROVE  /\ \A d \in job'[e].targets :
                         \E i \in ClientIds : On(i, d, job[e].token.lobby_id)'
                    /\ Answering(e)' =>
                         /\ \E i \in ClientIds : On(i, e, job[e].token.lobby_id)'
                         /\ newest'[e] = None
                         /\ \A k \in Conns : job'[k] # None => e \notin job'[k].targets
  BY DEF ForceMeansPresent
<1>1. CASE e = c
  <2>1. /\ job'[c].token = t /\ t.lobby_id = l /\ job'[c].targets = OtherSockets(l, id)
        /\ newest' = newest
    BY DEF Rotates
  <2>2. ASSUME NEW d \in OtherSockets(l, id)
        PROVE  \E i \in ClientIds : On(i, d, l)'
    <3>1. PICK i \in ClientIds \ {id} : On(i, d, l)
      BY <2>2, OthersAre
    <3>2. On(i, d, l)'
      BY <3>1 DEF On, Rotates
    <3> QED BY <3>2
  <2>3. Answering(c)' => Entered(c, id, l)
    BY DEF Answering, Rotates, Departed
  <2>4. Entered(c, id, l) => On(id, c, l)'
    BY DEF Entered, On
  <2>5. \A i, d : On(i, d, job[e].token.lobby_id)' <=> On(i, d, l)'
    BY <1>1, <2>1 DEF On
  <2> QED BY <1>1, <2>1, <2>2, <2>3, <2>4, <2>5, NewcomerUnknown
<1>2. CASE e # c
  <2> DEFINE u == job[e].token
             k == job[e].token.lobby_id
  <2>0. job'[e] = job[e] /\ step'[e] = step[e]
    BY <1>2 DEF Rotates, IndInv, Structure, TypeOK
  <2>1. u \in Token /\ k \in LobbyIds /\ NotAhead(u)
    BY <2>0, JobFields DEF IndInv, Structure, NothingAhead
  <2>2. u # t
    BY <2>1, StaleNow DEF IndInv
  <2>3. token'[k] = u
    BY <2>0 DEF InForce
  <2>4. k # l
    BY <2>2, <2>3 DEF Rotates, IndInv, Structure, TypeOK
  <2>5. InForce(u) /\ token'[k] = token[k]
    BY <2>1, <2>3, <2>4, OtherLobbies DEF InForce
  <2>6. /\ \A d \in job[e].targets : \E i \in ClientIds : On(i, d, k)
        /\ Answering(e) => /\ \E i \in ClientIds : On(i, e, k)
                           /\ newest[e] = None
                           /\ \A j \in Conns : job[j] # None => e \notin job[j].targets
    BY <2>0, <2>5 DEF IndInv, ForceMeansPresent
  <2>7. job[e].targets \subseteq Conns
    BY <2>0, JobFields DEF IndInv, Structure
  <2>8. \A i \in ClientIds, d \in Conns : On(i, d, job[e].token.lobby_id)' <=> On(i, d, k)
    <3>1. \A i, d : On(i, d, job[e].token.lobby_id)' <=> On(i, d, k)'
      BY <2>0 DEF On
    <3>2. \A i \in ClientIds, d \in Conns :
            /\ member'[i] # None /\ member'[i].sender = d /\ member'[i].lobby_id = k
            <=> On(i, d, k)
      BY <2>1, <2>4, OtherLobbies DEF On
    <3> QED BY <2>0, <3>2 DEF On
  <2>9. Answering(e)' => Answering(e) /\ e \notin OtherSockets(l, id)
    BY <2>0, <2>1, <2>4, <2>6, OtherLobbies DEF Answering
  <2>10. ASSUME Answering(e)', NEW j \in Conns, job'[j] # None
         PROVE  e \notin job'[j].targets
    <3>1. CASE j = c
      BY <2>9, <2>10, <3>1 DEF Rotates
    <3>2. CASE j # c
      BY <2>6, <2>9, <2>10, <3>2 DEF Rotates, IndInv, Structure, TypeOK
    <3> QED BY <3>1, <3>2
  <2>11. newest' = newest
    BY DEF Rotates
  <2> HIDE DEF k, u
  <2> QED BY <2>0, <2>6, <2>7, <2>8, <2>9, <2>10, <2>11
<1> QED BY <1>1, <1>2

LEMMA RotatesKnown ==
  ASSUME IndInv, NEW c \in Conns, NEW id \in ClientIds,
         NEW l \in LobbyIds, NEW t, Rotates(c, id, l, t)
  PROVE  TokenKnownOnlyToMembers'
<1> SUFFICES ASSUME NEW k \in LobbyIds, token'[k] # None,
                    NEW d \in Conns, newest'[d] = token'[k]
             PROVE  d \in Sockets(k)'
  BY DEF TokenKnownOnlyToMembers
<1>0. newest' = newest
  BY DEF Rotates
<1>1. k # l
  <2> SUFFICES ASSUME k = l PROVE FALSE
    OBVIOUS
  <2>1. newest[d] = t /\ t \in Token
    BY <1>0 DEF Rotates, IndInv, Structure, TypeOK
  <2>2. NotAhead(t)
    BY <2>1, AbsentAssumption DEF IndInv, NothingAhead
  <2> QED BY <2>1, <2>2, StaleNow DEF IndInv
<1>2. d \in Sockets(k)
  BY <1>0, <1>1, OtherLobbies DEF IndInv, TokenKnownOnlyToMembers
<1>3. PICK i \in ClientIds : On(i, d, k)
  BY <1>2 DEF Sockets, IdsIn, On
<1>4. On(i, d, k)'
  BY <1>1, <1>3, OtherLobbies
<1> QED BY <1>4 DEF Sockets, IdsIn, On

LEMMA RotatesForgets ==
  ASSUME IndInv, NEW c \in Conns, NEW id \in ClientIds,
         NEW l \in LobbyIds, NEW t, Rotates(c, id, l, t)
  PROVE  NobodyForgotten'
<1> SUFFICES ASSUME NEW i \in ClientIds, member'[i] # None
             PROVE  Served(member[i].sender, token[member[i].lobby_id])'
  BY DEF NobodyForgotten, Served
<1>0. token'[l] = t /\ job'[c].token = t /\ job'[c].targets = OtherSockets(l, id)
      /\ step'[c] \in {"committed", "kicking", "rotating"}
  BY DEF Rotates, Entered, Departed, IndInv, Structure, TypeOK
<1>1. CASE i = id /\ Entered(c, id, l)
  <2>1. Owes(c, token[member[i].lobby_id], member[i].sender)'
    BY <1>0, <1>1 DEF Entered, Owes
  <2> QED BY <2>1 DEF Served
<1>2. CASE i # id /\ member'[i] = member[i] /\ member[i].lobby_id = l
  <2>1. member[i].sender \in OtherSockets(l, id)
    BY <1>2, OthersAre DEF On
  <2>2. Owes(c, token[member[i].lobby_id], member[i].sender)'
    BY <1>0, <1>2, <2>1 DEF Owes
  <2> QED BY <2>2 DEF Served
<1>3. CASE i # id /\ member'[i] = member[i] /\ member[i].lobby_id # l
  <2> PICK d \in Conns, k \in LobbyIds : d = member[i].sender /\ k = member[i].lobby_id
    BY <1>3, MemberFields DEF IndInv, Structure
  <2>0. k # l /\ On(i, d, k)
    BY <1>3 DEF On
  <2>1. /\ token'[k] = token[k] /\ d \notin OtherSockets(l, id)
        /\ newest' = newest /\ told \subseteq told'
        /\ member'[i].sender = d /\ member'[i].lobby_id = k
    <3>1. token'[k] = token[k] /\ d \notin OtherSockets(l, id)
      BY <2>0, OtherLobbies
    <3> QED BY <1>3, <3>1 DEF Rotates
  <2>2. Served(d, token[k])
    BY <1>3 DEF IndInv, NobodyForgotten, Served
  <2>3. NoneFor(d) => \A e \in Conns : job'[e] # None => d \notin job'[e].targets
    <3> SUFFICES ASSUME NoneFor(d), NEW e \in Conns, job'[e] # None
                 PROVE  d \notin job'[e].targets
      OBVIOUS
    <3>1. CASE e = c
      BY <1>0, <2>1, <3>1
    <3>2. CASE e # c
      BY <3>2 DEF NoneFor, Rotates, IndInv, Structure, TypeOK
    <3> QED BY <3>1, <3>2
  <2>4. ASSUME NEW e \in Conns, Owes(e, token[k], d)
        PROVE  Owes(e, token[member[i].lobby_id], member[i].sender)'
    <3>0. token[k] # None /\ token[k].lobby_id = k
      BY <2>0 DEF On, IndInv, Structure, TokensBound
    <3>1. CASE step[e] # "leaving"
      <4>1. e # c
        BY <2>4, <3>1 DEF Owes, Rotates, Entered, Departed
      <4>2. step'[e] = step[e] /\ job'[e] = job[e]
        BY <4>1 DEF Rotates, IndInv, Structure, TypeOK
      <4> QED BY <2>1, <2>4, <3>1, <4>2 DEF Owes
    <3>2. CASE step[e] = "leaving"
      <4>1. PICK j \in ClientIds : On(j, e, k)
        BY <2>4, <3>0, <3>2 DEF Owes, Sockets, IdsIn, On
      <4>2. e # c
        BY <2>0, <3>2, <4>1 DEF Rotates, Entered, Departed, On, IndInv, Structure,
                                SessionsBound
      <4>3. step'[e] = step[e]
        BY <4>2 DEF Rotates, IndInv, Structure, TypeOK
      <4>4. On(j, e, k)'
        BY <2>0, <4>1, OtherLobbies
      <4>5. e \in Sockets(k)'
        BY <4>4 DEF Sockets, IdsIn, On
      <4>6. token'[k].lobby_id = k
        BY <2>1, <3>0
      <4>7. e \in Sockets(token[member[i].lobby_id].lobby_id)'
        BY <2>1, <4>5, <4>6 DEF Sockets, IdsIn
      <4> QED BY <3>2, <4>3, <4>7 DEF Owes
    <3> QED BY <3>1, <3>2
  <2>5. CASE \E e \in Conns : Owes(e, token[k], d)
    BY <2>4, <2>5 DEF Served
  <2>6. CASE newest[d] = token[k] \/ d \in told \/ (newest[d] = Lost /\ NoneFor(d))
    BY <2>1, <2>3, <2>6 DEF Served, NoneFor
  <2> QED BY <2>2, <2>5, <2>6 DEF Served
<1> QED BY <1>1, <1>2, <1>3, WhoIsWhere

LEMMA RotationStep ==
  ASSUME IndInv, NEW c \in Conns, NEW id \in ClientIds,
         NEW l \in LobbyIds, NEW t, Rotates(c, id, l, t), Structure'
  PROVE  IndInv'
  BY RotatesAhead, RotatesHome, RotatesForce, RotatesKnown, RotatesForgets DEF IndInv

\* The members' sockets, as values of their types.
LEMMA OthersTyped ==
  ASSUME Structure, NEW l, NEW id
  PROVE  OtherSockets(l, id) \subseteq Conns \cap used
  BY MemberFields DEF OtherSockets, IdsIn, Structure, SessionsBound

LEMMA StepJoin ==
  ASSUME IndInv, NEW c \in Conns, NEW id \in ClientIds,
         NEW l \in LobbyIds, NEW g \in Generations, Join(c, id, l, g)
  PROVE  IndInv'
<1>0. Structure
  BY DEF IndInv
<1> DEFINE t == IF token[l] = None THEN NewToken(l) ELSE Rotated(token[l])
<1>1. /\ t \in Token /\ t.lobby_id = l /\ Fresh(t)
      /\ t.birth \in Nat /\ t.birth >= births[l]
  <2>1. CASE token[l] = None
    BY <1>0, <2>1, NewTokenIsToken DEF Fresh, Structure, TypeOK
  <2>2. CASE token[l] # None
    <3>1. token[l] \in Token /\ token[l].lobby_id = l /\ token[l].birth = births[l]
      BY <1>0, <2>2 DEF Structure, TypeOK, TokensBound
    <3> QED BY <2>2, <3>1, RotatedIsToken, TokenFields DEF Fresh
  <2> QED BY <2>1, <2>2
<1>2. /\ step[c] = "idle" /\ c \notin used
      /\ member' = [member EXCEPT ![id] = [lobby_id |-> l, sender |-> c, generation |-> g]]
      /\ used' = used \cup {c}
      /\ member[id] # None => member[id].lobby_id = l
      /\ token' = [token EXCEPT ![l] = t]
      /\ births' = [births EXCEPT ![l] = t.birth]
      /\ told' = IF member[id] = None THEN told ELSE told \cup {member[id].sender}
      /\ job' = [job EXCEPT ![c] = [token |-> t, targets |-> OtherSockets(l, id),
                                    victim |-> None, after |-> "live"]]
      /\ step' = [step EXCEPT ![c] = "committed"]
      /\ newest' = newest
  BY DEF Join, Enter, GoTo
<1> HIDE DEF t
<1>3. [lobby_id |-> l, sender |-> c, generation |-> g] # None
  BY NoneAssumption
<1>4. /\ OtherSockets(l, id) \subseteq Conns \cap used
      /\ [token |-> t, targets |-> OtherSockets(l, id), victim |-> None,
          after |-> "live"] \in Job
  BY <1>0, <1>1, OthersTyped DEF Job
<1>5. Structure'
  <2>1. TypeOK'
    <3>1. MembershipTypeOK'
      BY <1>0, <1>2 DEF Structure, TypeOK, MembershipTypeOK
    <3>2. told' \subseteq Conns
      BY <1>0, <1>2, MemberFields DEF Structure, TypeOK
    <3> QED BY <1>0, <1>1, <1>2, <1>4, <3>1, <3>2 DEF Structure, TypeOK
  <2>2. SessionsBound'
    BY <1>0, <1>2 DEF Structure, TypeOK, MembershipTypeOK, SessionsBound
  <2>3. JobsBound'
    <3> SUFFICES ASSUME NEW e \in Conns
                 PROVE  /\ job'[e] # None <=> step'[e] \in Busy
                        /\ job'[e] # None => job'[e].targets \subseteq used'
                        /\ step'[e] = "kicking" => job'[e].victim \in Conns
                        /\ newest'[e] # None => e \in used'
                        /\ step'[e] \in {"committed", "welcoming"} => newest'[e] # Lost
      BY DEF JobsBound, Answering
    <3>1. CASE e = c
      <4>1. newest[c] = None
        BY <1>0, <1>2 DEF Structure, JobsBound
      <4> QED BY <1>0, <1>2, <1>4, <3>1, <4>1, AbsentAssumption DEF Structure, TypeOK
    <3>2. CASE e # c
      BY <1>0, <1>2, <3>2 DEF Structure, TypeOK, JobsBound, Answering
    <3> QED BY <3>1, <3>2
  <2>4. TokensBound'
    <3>1. t # None
      BY <1>1, AbsentAssumption
    <3> QED BY <1>0, <1>1, <1>2, <3>1
            DEF Structure, TypeOK, MembershipTypeOK, TokensBound
  <2> QED BY <2>1, <2>2, <2>3, <2>4 DEF Structure
<1>6. Rotates(c, id, l, t)
  <2>1. Entered(c, id, l)
    BY <1>0, <1>2, <1>3 DEF Entered, Structure, TypeOK, MembershipTypeOK
  <2>2. job'[c] # None /\ job'[c].token = t /\ job'[c].targets = OtherSockets(l, id)
    BY <1>0, <1>2, <1>4, AbsentAssumption DEF Structure, TypeOK
  <2>3. \A i \in ClientIds \ {id} : member'[i] = member[i]
    BY <1>0, <1>2 DEF Structure, TypeOK, MembershipTypeOK
  <2>4. job' = [job EXCEPT ![c] = job'[c]] /\ step' = [step EXCEPT ![c] = step'[c]]
    BY <1>0, <1>2 DEF Structure, TypeOK
  <2> QED BY <1>1, <1>2, <2>1, <2>2, <2>3, <2>4 DEF Rotates
<1> QED BY <1>5, <1>6, RotationStep

\* A kick, or a departure that leaves others behind.
LEMMA StepDeparts ==
  ASSUME IndInv, NEW c \in Conns, NEW id \in ClientIds,
         NEW l \in LobbyIds, NEW v \in Conns \cup {None}, NEW p \in {"kicking", "rotating"},
         NEW a \in {"live", "gone"},
         p = "kicking" => v \in Conns,
         Depart(id), member[id].lobby_id = l,
         step[c] = "live" \/ (step[c] = "leaving" /\ member[id].sender = c),
         token' = [token EXCEPT ![l] = Rotated(@)],
         job' = [job EXCEPT ![c] = [token |-> Rotated(token[l]),
                                    targets |-> OtherSockets(l, id),
                                    victim |-> v, after |-> a]],
         step' = [step EXCEPT ![c] = p],
         UNCHANGED <<births, newest, told>>
  PROVE  IndInv'
<1>0. Structure
  BY DEF IndInv
<1>1. /\ member[id] # None /\ member' = [member EXCEPT ![id] = None] /\ used' = used
      /\ token[l] # None
  BY <1>0 DEF Depart, Structure, TokensBound
<1>2. token[l] \in Token /\ token[l].lobby_id = l /\ token[l].birth = births[l]
  BY <1>0, <1>1 DEF Structure, TypeOK, TokensBound
<1>3. PICK t \in Token : t = Rotated(token[l])
  BY <1>2, RotatedIsToken
<1>4. t.lobby_id = l /\ t.birth = births[l] /\ Fresh(t)
  BY <1>1, <1>2, <1>3, RotatedIsToken, TokenFields DEF Fresh
<1>5. /\ OtherSockets(l, id) \subseteq Conns \cap used
      /\ [token |-> t, targets |-> OtherSockets(l, id), victim |-> v, after |-> a] \in Job
  BY <1>0, <1>3, OthersTyped DEF Job
<1>6. /\ token' = [token EXCEPT ![l] = t]
      /\ job' = [job EXCEPT ![c] = [token |-> t, targets |-> OtherSockets(l, id),
                                    victim |-> v, after |-> a]]
  BY <1>3
<1>7. Structure'
  <2>1. TypeOK'
    BY <1>0, <1>1, <1>5, <1>6 DEF Structure, TypeOK, MembershipTypeOK
  <2>2. SessionsBound'
    BY <1>0, <1>1 DEF Structure, TypeOK, MembershipTypeOK, SessionsBound
  <2>3. JobsBound'
    <3> SUFFICES ASSUME NEW e \in Conns
                 PROVE  /\ job'[e] # None <=> step'[e] \in Busy
                        /\ job'[e] # None => job'[e].targets \subseteq used'
                        /\ step'[e] = "kicking" => job'[e].victim \in Conns
                        /\ newest'[e] # None => e \in used'
                        /\ step'[e] \in {"committed", "welcoming"} => newest'[e] # Lost
      BY DEF JobsBound, Answering
    <3>1. CASE e = c
      BY <1>0, <1>1, <1>5, <1>6, <3>1, AbsentAssumption DEF Structure, TypeOK, JobsBound
    <3>2. CASE e # c
      BY <1>0, <1>1, <1>6, <3>2 DEF Structure, TypeOK, JobsBound, Answering
    <3> QED BY <3>1, <3>2
  <2>4. TokensBound'
    <3>1. t # None
      BY AbsentAssumption
    <3> QED BY <1>0, <1>1, <1>4, <1>6, <3>1
            DEF Structure, TypeOK, MembershipTypeOK, TokensBound
  <2> QED BY <2>1, <2>2, <2>3, <2>4 DEF Structure
<1>8. Rotates(c, id, l, t)
  <2>1. Departed(c, id, l)
    BY <1>0, <1>1 DEF Departed, On, Structure, TypeOK, MembershipTypeOK
  <2>2. job'[c] # None /\ job'[c].token = t /\ job'[c].targets = OtherSockets(l, id)
    BY <1>0, <1>5, <1>6, AbsentAssumption DEF Structure, TypeOK
  <2>3. \A i \in ClientIds \ {id} : member'[i] = member[i]
    BY <1>0, <1>1 DEF Structure, TypeOK, MembershipTypeOK
  <2>4. job' = [job EXCEPT ![c] = job'[c]] /\ step' = [step EXCEPT ![c] = step'[c]]
    BY <1>0, <1>6 DEF Structure, TypeOK
  <2>5. births' = [births EXCEPT ![l] = t.birth]
    BY <1>0, <1>4 DEF Structure, TypeOK
  <2> QED BY <1>4, <1>6, <2>1, <2>2, <2>3, <2>4, <2>5 DEF Rotates
<1> QED BY <1>7, <1>8, RotationStep

LEMMA StepKick ==
  ASSUME IndInv, NEW c \in Conns, NEW id \in ClientIds, Kick(c, id)
  PROVE  IndInv'
<1>1. PICK l \in LobbyIds, v \in Conns : l = member[id].lobby_id /\ v = member[id].sender
  BY MemberFields DEF Kick, IndInv, Structure
<1> QED BY <1>1, StepDeparts DEF Kick, GoTo

\* The last member leaves: the lobby and its token are gone.
LEMMA StepLeaveLast ==
  ASSUME IndInv, NEW c \in Conns, NEW id \in ClientIds, Leave(c, id),
         OtherSockets(member[id].lobby_id, id) = {}
  PROVE  IndInv'
<1>0. Structure
  BY DEF IndInv
<1>1. PICK l \in LobbyIds : l = member[id].lobby_id
  BY MemberFields DEF Leave, Depart, IndInv, Structure
<1>2. /\ member[id] # None /\ member[id].sender = c /\ step[c] = "leaving"
      /\ member' = [member EXCEPT ![id] = None] /\ used' = used
      /\ token' = [token EXCEPT ![l] = None]
      /\ step' = [step EXCEPT ![c] = "gone"]
      /\ UNCHANGED <<job, births, newest, told>>
  BY <1>1 DEF Leave, Depart, IdsOn, GoTo
<1>3. \A i \in ClientIds : member'[i] # None =>
        i # id /\ member'[i] = member[i] /\ member[i].lobby_id # l
  <2> SUFFICES ASSUME NEW i \in ClientIds, member'[i] # None
               PROVE  i # id /\ member'[i] = member[i] /\ member[i].lobby_id # l
    OBVIOUS
  <2>1. i # id /\ member'[i] = member[i]
    BY <1>0, <1>2 DEF Structure, TypeOK, MembershipTypeOK
  <2>2. member[i].lobby_id = l => member[i].sender \in OtherSockets(l, id)
    BY <2>1 DEF OtherSockets, IdsIn
  <2> QED BY <1>1, <2>1, <2>2
<1>4. Structure'
  <2>1. TypeOK'
    BY <1>0, <1>2 DEF Structure, TypeOK, MembershipTypeOK
  <2>2. SessionsBound'
    BY <1>0, <1>2, <1>3 DEF Structure, TypeOK, SessionsBound
  <2>3. JobsBound'
    BY <1>0, <1>2 DEF Structure, TypeOK, JobsBound, Answering
  <2>4. TokensBound'
    BY <1>0, <1>2, <1>3, MemberFields DEF Structure, TypeOK, TokensBound
  <2> QED BY <2>1, <2>2, <2>3, <2>4 DEF Structure
<1>5. NothingAhead'
  <2>1. \A u \in Token : NotAhead(u) => NotAhead(u)'
    BY <1>0, <1>2, TokenFields DEF NotAhead, Structure, TypeOK
  <2>2. \A e \in Conns : /\ job[e] # None => job[e].token \in Token
                         /\ newest[e] \notin {None, Lost} => newest[e] \in Token
    BY <1>0, JobFields DEF Structure, TypeOK
  <2> QED BY <1>2, <2>1, <2>2 DEF NothingAhead, IndInv, NotAhead
<1>6. Home'
  <2>1. \A e \in Conns : step'[e] \in {"committed", "welcoming"} => step'[e] = step[e]
    BY <1>0, <1>2 DEF Structure, TypeOK
  <2>2. \A i \in ClientIds : member[i] # None => member[i].sender \in Conns
    BY <1>0, MemberFields DEF Structure
  <2> QED BY <1>2, <1>3, <2>1, <2>2 DEF Home, IndInv, Answering
<1>7. \A k \in LobbyIds \ {l} :
        /\ token'[k] = token[k]
        /\ \A i \in ClientIds : \A d : On(i, d, k) <=> On(i, d, k)'
  <2>1. \A k \in LobbyIds \ {l} : token'[k] = token[k]
    BY <1>0, <1>2 DEF Structure, TypeOK
  <2>2. \A k \in LobbyIds \ {l} : \A i \in ClientIds : \A d : On(i, d, k) <=> On(i, d, k)'
    BY <1>0, <1>1, <1>2 DEF On, Structure, TypeOK, MembershipTypeOK
  <2> QED BY <2>1, <2>2
<1>8. ForceMeansPresent'
  <2> SUFFICES ASSUME NEW e \in Conns, job'[e] # None, InForce(job[e].token)'
               PROVE  /\ \A d \in job'[e].targets :
                           \E i \in ClientIds : On(i, d, job[e].token.lobby_id)'
                      /\ Answering(e)' =>
                           /\ \E i \in ClientIds : On(i, e, job[e].token.lobby_id)'
                           /\ newest'[e] = None
                           /\ \A j \in Conns : job'[j] # None => e \notin job'[j].targets
    BY DEF ForceMeansPresent
  <2>1. PICK k \in LobbyIds : k = job[e].token.lobby_id
    BY <1>0, <1>2, JobFields DEF Structure
  <2>2. k # l /\ InForce(job[e].token)
    <3>1. token'[k] = job[e].token /\ job[e].token # None
      BY <1>0, <1>2, <2>1, JobFields, AbsentAssumption DEF InForce, Structure
    <3>2. k # l
      BY <1>0, <1>2, <3>1 DEF Structure, TypeOK
    <3> QED BY <1>7, <2>1, <3>1, <3>2 DEF InForce
  <2>3. Answering(e)' => Answering(e)
    BY <1>0, <1>2 DEF Answering, Structure, TypeOK
  <2>4. \A i \in ClientIds : \A d : On(i, d, k) => On(i, d, job[e].token.lobby_id)'
    BY <1>2, <1>7, <2>1, <2>2 DEF On
  <2> QED BY <1>2, <2>1, <2>2, <2>3, <2>4 DEF IndInv, ForceMeansPresent
<1>9. TokenKnownOnlyToMembers'
  <2> SUFFICES ASSUME NEW k \in LobbyIds, token'[k] # None,
                      NEW d \in Conns, newest'[d] = token'[k]
               PROVE  d \in Sockets(k)'
    BY DEF TokenKnownOnlyToMembers
  <2>1. k # l /\ token'[k] = token[k]
    BY <1>0, <1>2 DEF Structure, TypeOK
  <2>2. d \in Sockets(k)
    BY <1>2, <2>1 DEF IndInv, TokenKnownOnlyToMembers
  <2>3. PICK i \in ClientIds : On(i, d, k)
    BY <2>2 DEF Sockets, IdsIn, On
  <2>4. On(i, d, k)'
    BY <1>7, <2>1, <2>3
  <2> QED BY <2>4 DEF Sockets, IdsIn, On
<1>10. NobodyForgotten'
  <2> SUFFICES ASSUME NEW i \in ClientIds, member'[i] # None
               PROVE  Served(member[i].sender, token[member[i].lobby_id])'
    BY DEF NobodyForgotten, Served
  <2>1. i # id /\ member'[i] = member[i] /\ member[i].lobby_id # l
    BY <1>3
  <2>2. PICK d \in Conns, k \in LobbyIds : d = member[i].sender /\ k = member[i].lobby_id
    BY <1>0, <2>1, MemberFields DEF Structure
  <2>3. /\ token'[k] = token[k] /\ token[k] # None /\ token[k].lobby_id = k
        /\ member'[i].sender = d /\ member'[i].lobby_id = k
    BY <1>0, <1>7, <2>1, <2>2 DEF Structure, TokensBound
  <2>4. Served(d, token[k])
    BY <2>1, <2>2 DEF IndInv, NobodyForgotten, Served
  <2>5. ASSUME NEW e \in Conns, Owes(e, token[k], d)
        PROVE  Owes(e, token[member[i].lobby_id], member[i].sender)'
    <3>1. CASE step[e] # "leaving"
      <4>1. step'[e] = step[e] /\ job' = job
        BY <1>0, <1>2, <3>1 DEF Structure, TypeOK
      <4> QED BY <2>3, <2>5, <3>1, <4>1 DEF Owes
    <3>2. CASE step[e] = "leaving"
      <4>1. PICK j \in ClientIds : On(j, e, k)
        BY <2>3, <2>5, <3>2 DEF Owes, Sockets, IdsIn, On
      <4>2. e # c
        BY <1>0, <1>1, <1>2, <2>1, <2>2, <4>1 DEF On, Structure, SessionsBound
      <4>3. step'[e] = step[e]
        BY <1>0, <1>2, <4>2 DEF Structure, TypeOK
      <4>4. On(j, e, k)'
        BY <1>7, <2>1, <2>2, <4>1
      <4>5. e \in Sockets(k)'
        BY <4>4 DEF Sockets, IdsIn, On
      <4>6. e \in Sockets(token[member[i].lobby_id].lobby_id)'
        BY <2>3, <4>5 DEF Sockets, IdsIn
      <4> QED BY <3>2, <4>3, <4>6 DEF Owes
    <3> QED BY <3>1, <3>2
  <2>6. CASE \E e \in Conns : Owes(e, token[k], d)
    BY <2>5, <2>6 DEF Served
  <2>7. CASE newest[d] = token[k] \/ d \in told \/ (newest[d] = Lost /\ NoneFor(d))
    BY <1>2, <2>3, <2>7 DEF Served, NoneFor
  <2> QED BY <2>4, <2>6, <2>7 DEF Served
<1> QED BY <1>4, <1>5, <1>6, <1>8, <1>9, <1>10 DEF IndInv

LEMMA StepLeave ==
  ASSUME IndInv, NEW c \in Conns, NEW id \in ClientIds, Leave(c, id)
  PROVE  IndInv'
<1>1. CASE OtherSockets(member[id].lobby_id, id) = {}
  BY <1>1, StepLeaveLast
<1>2. CASE OtherSockets(member[id].lobby_id, id) # {}
  <2>1. PICK l \in LobbyIds : l = member[id].lobby_id
    BY MemberFields DEF Leave, Depart, IndInv, Structure
  <2> QED BY <1>2, <2>1, StepDeparts DEF Leave, IdsOn, GoTo
<1> QED BY <1>1, <1>2

-----------------------------------------------------------------------------
LEMMA IndInvInit ==
  ASSUME Init
  PROVE  IndInv
<1>1. Structure
  BY StructureInit
<1>2. NothingAhead /\ Home /\ ForceMeansPresent /\ TokenKnownOnlyToMembers
      /\ NobodyForgotten
  BY DEF Init, MembershipInit, NothingAhead, Home, ForceMeansPresent,
         TokenKnownOnlyToMembers, NobodyForgotten
<1> QED BY <1>1, <1>2 DEF IndInv

LEMMA IndInvNext ==
  ASSUME IndInv, [Next]_vars
  PROVE  IndInv'
<1>1. CASE UNCHANGED vars
  BY <1>1
  DEF vars, membership, IndInv, Structure, TypeOK, MembershipTypeOK, SessionsBound,
      JobsBound, TokensBound, NothingAhead, NotAhead, Home, Answering, ForceMeansPresent,
      InForce, On, TokenKnownOnlyToMembers, NobodyForgotten, NoneFor, Owes, Sockets, IdsIn
<1>2. CASE Next
  BY <1>2, StepJoin, StepKick, StepCheckCommit, StepWelcome, StepLoop, StepSignalKicked,
     StepCheckRotation, StepDelivery, StepRotationSent, StepLeave
  DEF Next, Proceed
<1> QED BY <1>1, <1>2

LEMMA Invariance == Spec => []IndInv
  BY IndInvInit, IndInvNext, PTL DEF Spec

\* A lobby's chat token is known to no socket that has left it, was kicked from
\* it or was replaced in it, whatever notifications were under way when that
\* happened (send_chat_token_rotation checks the token and the sockets again).
THEOREM TokensStayWithMembers == Spec => []TokenKnownOnlyToMembers
<1>1. IndInv => TokenKnownOnlyToMembers
  BY DEF IndInv
<1> QED BY <1>1, Invariance, PTL

\* Dropping the notifications of superseded tokens leaves no member behind: who
\* has not the token in force is owed it by a task, is told to end, or lost its
\* RegisterSuccess and has not been sent a token since.
THEOREM EveryMemberIsServed == Spec => []NoMemberForgotten
<1>1. ASSUME IndInv PROVE NoMemberForgotten
  <2> SUFFICES ASSUME NEW l \in LobbyIds, token[l] # None, NEW d \in Sockets(l)
               PROVE  \/ newest[d] \in {token[l], Lost}
                      \/ d \in told
                      \/ \E c \in Conns : Owes(c, token[l], d)
    BY <1>1 DEF NoMemberForgotten, EveryMemberServed, IndInv, Structure
  <2>1. PICK i \in ClientIds : member[i] # None /\ member[i].lobby_id = l
                               /\ member[i].sender = d
    BY DEF Sockets, IdsIn
  <2> QED BY <1>1, <2>1 DEF IndInv, NobodyForgotten
<1> QED BY <1>1, Invariance, PTL
=============================================================================

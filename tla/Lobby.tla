-------------------------------- MODULE Lobby --------------------------------
(***************************************************************************)
(* The lobby registry of the signaling server and the connection tasks     *)
(* that change it: registration, moderation, replacement of a session by   *)
(* a reconnect of the same identity, and the cleanup of an ended           *)
(* connection.                                                             *)
(*                                                                         *)
(* The registry is `Lobbies` (a RwLock around a map of LobbyInfo) and      *)
(* `ClientLobbyMap`.  LobbyInfo's fields are functions of the lobby id     *)
(* here: host_id[l] is lobbies[l].host_id.  One critical section under     *)
(* `lobbies.write()` is one action; what a task does before taking the     *)
(* lock and after releasing it are actions of their own, so that the steps *)
(* of other tasks fall between them.                                       *)
(***************************************************************************)
EXTENDS Naturals, FiniteSets

CONSTANTS
  Conns,              \* accepted WebSocket connections, each with its own task
  ClientIds,          \* identities derived from a client's public key
  LobbyIds,           \* hashes of lobby names
  VirtualIps,         \* addresses 10.126.126.1-254
  Passwords,          \* lobby passwords
  EmptyPassword,      \* the password of a passwordless lobby
  Generations,        \* random session generations: nothing says they differ
  Sources,            \* quota sources (client addresses)
  SourceOf,           \* the quota source of each connection
  MaxRequests,        \* what a host may ask max_players to be
  MAX_LOBBY_MEMBERS,  \* absolute capacity of a lobby (64 in the code)
  MAX_FAILURES,       \* wrong passwords that lock a (source, lobby) (5 in the code)
  None                \* Option::None

ASSUME ConstantsAssumption ==
  /\ IsFiniteSet(ClientIds)
  /\ EmptyPassword \in Passwords
  /\ SourceOf \in [Conns -> Sources]
  /\ MaxRequests \subseteq Nat
  /\ MAX_LOBBY_MEMBERS \in Nat \ {0}
  /\ MAX_FAILURES \in Nat \ {0}
  /\ None \notin ClientIds \cup LobbyIds \cup Conns \cup Passwords \cup Nat

\* What `lobby.clients` stores for a client.
ClientInfo == [sender : Conns, generation : Generations, virtual_ip : VirtualIps]

ASSUME NoneIsNoClient == None \notin ClientInfo

\* What a task knows of the session it registered.
Session == [client_id : ClientIds, lobby_id : LobbyIds, generation : Generations]

ASSUME NoneIsNoSession == None \notin Session

ASSUME NoneIsNoRecord ==
  None \notin [lobby_id : LobbyIds, sender : Conns, generation : Generations]

EntryModes == {"create", "join", "any"}

Requests == [client_id : ClientIds, lobby_id : LobbyIds, virtual_ip : VirtualIps,
             password : Passwords, entry_mode : EntryModes]

(***************************************************************************)
(* Where a connection task stands:                                         *)
(*   unborn     not accepted yet                                           *)
(*   reading    at the select! of the message loop                         *)
(*   committed  handle_v3 has released the lock, result not yet checked    *)
(*   welcoming  handle_v3 is sending RegisterSuccess and the broadcasts    *)
(*   checked    a message passed the per-message session check             *)
(*   mapped     a moderation message passed the client_lobby_map check     *)
(*   kicking    kick_player released the lock, victim not yet signalled    *)
(*   announcing a moderation handler is broadcasting                       *)
(*   ending     left the loop, cleanup not done                            *)
(*   parting    cleanup done, broadcasting the departure                   *)
(*   gone       the task returned                                          *)
(***************************************************************************)
Phases == {"unborn", "reading", "committed", "welcoming", "checked", "mapped",
           "kicking", "announcing", "ending", "parting", "gone"}

VARIABLES
  lobbies,          \* keys of the lobby map
  clients,          \* per lobby: client id -> ClientInfo or None
  host_id,          \* per lobby, None if the lobby does not exist
  max_players,      \* per lobby, 0 for Option::None
  public,           \* the lobbies whose is_public is set
  password,         \* per lobby, None if the lobby does not exist
  muted,            \* per lobby
  epoch,            \* per lobby: chat_token_epoch, 0 if it does not exist
  client_lobby_map, \* client id -> lobby id or None
  failures,         \* wrong passwords remembered per (source, lobby)
  phase,            \* per connection
  pending,          \* RegisteredSession held inside handle_v3, or None
  session,          \* client_id, lobby_id, session_generation of the loop, or None
  victim,           \* connection a kick removed and has still to signal, or None
  disconnect,       \* the connections whose disconnect watch holds true
  peer_open         \* the connections whose peer is still there

registry == <<lobbies, clients, host_id, max_players, public, password, muted,
              epoch, client_lobby_map>>
tasks == <<phase, pending, session, victim, disconnect, peer_open>>
vars == <<registry, failures, tasks>>

-----------------------------------------------------------------------------
\* Reading the registry

Members(l) == {id \in ClientIds : clients[l][id] # None}

\* The sockets that a broadcast to lobby l reaches.
Senders(l) == {clients[l][id].sender : id \in Members(l)}

\* is_current_session: the record is this session's, by generation and by socket.
IsCurrentSession(s, c) ==
  LET info == clients[s.lobby_id][s.client_id]
  IN  info # None /\ info.generation = s.generation /\ info.sender = c

IsRegistered(c) == session[c] # None

\* The session a task will clean up after: stored by the loop, or still in handle_v3.
Bound(c) == IF session[c] # None THEN session[c] ELSE pending[c]

-----------------------------------------------------------------------------
\* Connection life cycle

\* handle_connection after the handshake: a new socket, watch and challenge.
Accept(c) ==
  /\ phase[c] = "unborn"
  /\ phase' = [phase EXCEPT ![c] = "reading"]
  /\ peer_open' = peer_open \cup {c}
  /\ UNCHANGED <<registry, failures, pending, session, victim, disconnect>>

\* The client's host or network goes away; the server is not told.
PeerVanishes(c) ==
  /\ c \in peer_open
  /\ peer_open' = peer_open \ {c}
  /\ UNCHANGED <<registry, failures, phase, pending, session, victim, disconnect>>

\* Every way out of the loop that a present peer causes: a close frame, Leave,
\* silence past a timeout, a message over the rate, one that does not parse or has
\* a bad shape, one that needs a registration, a legacy or second registration, a
\* refused proof.
PeerEndsLoop(c) ==
  /\ phase[c] = "reading"
  /\ c \in peer_open
  /\ phase' = [phase EXCEPT ![c] = "ending"]
  /\ UNCHANGED <<registry, failures, pending, session, victim, disconnect, peer_open>>

\* MUTANT of TimeoutEndsLoop: only the registration deadline ends a read.
OnlyDeadlineEndsLoop(c) ==
  /\ phase[c] = "reading"
  /\ c \notin peer_open
  /\ ~IsRegistered(c)
  /\ phase' = [phase EXCEPT ![c] = "ending"]
  /\ UNCHANGED <<registry, failures, pending, session, victim, disconnect, peer_open>>

\* Nothing to read: end of stream, idle_timeout, or registration_deadline.
TimeoutEndsLoop(c) ==
  /\ phase[c] = "reading"
  /\ c \notin peer_open
  /\ phase' = [phase EXCEPT ![c] = "ending"]
  /\ UNCHANGED <<registry, failures, pending, session, victim, disconnect, peer_open>>

\* MUTANT of DisconnectEndsLoop: the watch is seen only when nothing is read.
DisconnectSeenWhenQuiet(c) ==
  /\ phase[c] = "reading"
  /\ IsRegistered(c)
  /\ c \in disconnect
  /\ c \notin peer_open
  /\ phase' = [phase EXCEPT ![c] = "ending"]
  /\ UNCHANGED <<registry, failures, pending, session, victim, disconnect, peer_open>>

\* The select! branch of a registered connection on its disconnect watch.
DisconnectEndsLoop(c) ==
  /\ phase[c] = "reading"
  /\ IsRegistered(c)
  /\ c \in disconnect
  /\ phase' = [phase EXCEPT ![c] = "ending"]
  /\ UNCHANGED <<registry, failures, pending, session, victim, disconnect, peer_open>>

\* A message of a registered connection, checked before it is looked at.
ReceiveMessage(c) ==
  /\ phase[c] = "reading"
  /\ IsRegistered(c)
  /\ c \in peer_open
  /\ phase' = [phase EXCEPT ![c] =
                 IF IsCurrentSession(session[c], c) THEN "checked" ELSE "ending"]
  /\ UNCHANGED <<registry, failures, pending, session, victim, disconnect, peer_open>>

\* A message that changes nothing in the registry has been dealt with.
MessageDone(c) ==
  /\ phase[c] = "checked"
  /\ phase' = [phase EXCEPT ![c] = "reading"]
  /\ UNCHANGED <<registry, failures, pending, session, victim, disconnect, peer_open>>

\* The lobbies a task's sends go to: its own and, for a relayed message, the
\* one client_lobby_map gives for the sender's id.
TargetLobbies(c) ==
  LET s == Bound(c)
  IN  {s.lobby_id, client_lobby_map[s.client_id]} \ {None}

\* A send to socket d by task c is over budget or times out: d is told to end.
SendFails(c, d) ==
  /\ phase[c] \in {"welcoming", "checked", "announcing", "parting"}
  /\ \E l \in TargetLobbies(c) : d \in Senders(l)
  /\ phase[c] = "welcoming" => d # c
  /\ d \notin disconnect
  /\ disconnect' = disconnect \cup {d}
  /\ UNCHANGED <<registry, failures, phase, pending, session, victim, peer_open>>

-----------------------------------------------------------------------------
\* Registration: handle_v3 from lobbies.write() on

EntryError(r) ==
  \/ r.entry_mode = "create" /\ r.lobby_id \in lobbies
  \/ r.entry_mode = "join" /\ r.lobby_id \notin lobbies

\* MUTANT of InAnotherLobby: only the lobby asked for is looked at.
OtherLobbiesIgnored(r) == FALSE

\* The identity is a member of another lobby.
InAnotherLobby(r) ==
  \E l \in LobbyIds \ {r.lobby_id} : clients[l][r.client_id] # None

FailureKey(c, r) == <<SourceOf[c], r.lobby_id>>

IsLocked(key) == failures[key] >= MAX_FAILURES

WrongPassword(r) ==
  r.lobby_id \in lobbies /\ password[r.lobby_id] # r.password

\* MUTANT of VirtualIpInUse: a reconnect is not checked.
VirtualIpInUseByJoin(r) ==
  /\ r.client_id \notin Members(r.lobby_id)
  /\ \E id \in Members(r.lobby_id) : clients[r.lobby_id][id].virtual_ip = r.virtual_ip

VirtualIpInUse(r) ==
  \E id \in Members(r.lobby_id) :
    id # r.client_id /\ clients[r.lobby_id][id].virtual_ip = r.virtual_ip

\* The absolute capacity holds for a reconnect too, the host's only for a newcomer.
LobbyFull(r) ==
  LET n == Cardinality(Members(r.lobby_id))
      max == max_players[r.lobby_id]
  IN  \/ n >= MAX_LOBBY_MEMBERS
      \/ max # 0 /\ r.client_id \notin Members(r.lobby_id) /\ n >= max

\* A right password for an existing lobby forgets the source's failures.
ClearFailures(c, r) ==
  failures' = IF r.lobby_id \in lobbies
              THEN [failures EXCEPT ![FailureKey(c, r)] = 0]
              ELSE failures

Registering(c) ==
  /\ phase[c] = "reading"
  /\ ~IsRegistered(c)
  /\ c \in peer_open

Refused(c, r) == EntryError(r) \/ InAnotherLobby(r) \/ IsLocked(FailureKey(c, r))

RegisterRefused(c, r) ==
  /\ Registering(c)
  /\ Refused(c, r)
  /\ phase' = [phase EXCEPT ![c] = "ending"]
  /\ UNCHANGED <<registry, failures, pending, session, victim, disconnect, peer_open>>

RegisterWrongPassword(c, r) ==
  /\ Registering(c)
  /\ ~Refused(c, r)
  /\ WrongPassword(r)
  /\ failures' = [failures EXCEPT ![FailureKey(c, r)] = @ + 1]
  /\ phase' = [phase EXCEPT ![c] = "ending"]
  /\ UNCHANGED <<registry, pending, session, victim, disconnect, peer_open>>

\* RegistrationOutcome::Retry: the connection stays, unregistered.
RegisterRetry(c, r) ==
  /\ Registering(c)
  /\ ~Refused(c, r)
  /\ ~WrongPassword(r)
  /\ VirtualIpInUse(r) \/ LobbyFull(r)
  /\ ClearFailures(c, r)
  /\ UNCHANGED <<registry, tasks>>

\* entry(lid).or_insert_with: the fields of a lobby the registration creates.
CreateIfMissing(r) ==
  LET l == r.lobby_id
  IN  /\ lobbies' = lobbies \cup {l}
      /\ host_id' = [host_id EXCEPT ![l] = IF l \in lobbies THEN @ ELSE r.client_id]
      /\ password' = [password EXCEPT ![l] = IF l \in lobbies THEN @ ELSE r.password]

\* MUTANT of TokenForJoin: a reconnect keeps the token.
TokenForNewcomer(r) ==
  epoch' = [epoch EXCEPT ![r.lobby_id] =
              IF r.lobby_id \notin lobbies THEN 1
              ELSE IF r.client_id \notin Members(r.lobby_id) THEN @ + 1
              ELSE @]

\* A lobby that had members gets a new token; a new lobby starts at epoch 1.
TokenForJoin(r) ==
  epoch' = [epoch EXCEPT ![r.lobby_id] =
              IF r.lobby_id \notin lobbies THEN 1
              ELSE IF Members(r.lobby_id) # {} THEN @ + 1
              ELSE @]

\* MUTANT of SignalPrevious: the replaced connection is not told.
SignalNobody(r) == UNCHANGED disconnect

\* The record a reconnect replaces has its connection told to end.
SignalPrevious(r) ==
  LET previous == clients[r.lobby_id][r.client_id]
  IN  disconnect' = IF previous # None
                    THEN disconnect \cup {previous.sender}
                    ELSE disconnect

RegisterCommit(c, r, g) ==
  /\ Registering(c)
  /\ ~Refused(c, r)
  /\ ~WrongPassword(r)
  /\ ~VirtualIpInUse(r)
  /\ ~LobbyFull(r)
  /\ ClearFailures(c, r)
  /\ CreateIfMissing(r)
  /\ SignalPrevious(r)
  /\ clients' = [clients EXCEPT ![r.lobby_id] = [@ EXCEPT ![r.client_id] =
                   [sender |-> c, generation |-> g, virtual_ip |-> r.virtual_ip]]]
  /\ TokenForJoin(r)
  /\ client_lobby_map' = [client_lobby_map EXCEPT ![r.client_id] = r.lobby_id]
  /\ pending' = [pending EXCEPT ![c] =
                   [client_id |-> r.client_id, lobby_id |-> r.lobby_id, generation |-> g]]
  /\ phase' = [phase EXCEPT ![c] = "committed"]
  /\ UNCHANGED <<max_players, public, muted, session, victim, peer_open>>

\* MUTANT of CommitFoundStale: the loop is not given the session to clean up.
StaleSessionForgotten(c) ==
  /\ phase[c] = "committed"
  /\ c \in disconnect \/ ~IsCurrentSession(pending[c], c)
  /\ pending' = [pending EXCEPT ![c] = None]
  /\ phase' = [phase EXCEPT ![c] = "ending"]
  /\ UNCHANGED <<registry, failures, session, victim, disconnect, peer_open>>

\* Committed { disconnect: true }: the session was already taken away; the loop
\* still learns it, and leaves.
CommitFoundStale(c) ==
  /\ phase[c] = "committed"
  /\ c \in disconnect \/ ~IsCurrentSession(pending[c], c)
  /\ session' = [session EXCEPT ![c] = pending[c]]
  /\ pending' = [pending EXCEPT ![c] = None]
  /\ phase' = [phase EXCEPT ![c] = "ending"]
  /\ UNCHANGED <<registry, failures, victim, disconnect, peer_open>>

CommitFoundCurrent(c) ==
  /\ phase[c] = "committed"
  /\ c \notin disconnect
  /\ IsCurrentSession(pending[c], c)
  /\ phase' = [phase EXCEPT ![c] = "welcoming"]
  /\ UNCHANGED <<registry, failures, pending, session, victim, disconnect, peer_open>>

\* Committed { disconnect: false }: the loop stores the session.
WelcomeDone(c) ==
  /\ phase[c] = "welcoming"
  /\ session' = [session EXCEPT ![c] = pending[c]]
  /\ pending' = [pending EXCEPT ![c] = None]
  /\ phase' = [phase EXCEPT ![c] = "reading"]
  /\ UNCHANGED <<registry, failures, victim, disconnect, peer_open>>

\* Failures age out of the window or are evicted from the full table.
FailuresForgotten(key) ==
  /\ failures[key] > 0
  /\ \E n \in 0 .. (failures[key] - 1) : failures' = [failures EXCEPT ![key] = n]
  /\ UNCHANGED <<registry, tasks>>

-----------------------------------------------------------------------------
\* Moderation.  The message itself is chosen in the step that uses it.

\* handle_moderation_message looks the sender up in client_lobby_map first.
CheckMapping(c) ==
  /\ phase[c] = "checked"
  /\ phase' = [phase EXCEPT ![c] =
                 IF client_lobby_map[session[c].client_id] = session[c].lobby_id
                 THEN "mapped" ELSE "reading"]
  /\ UNCHANGED <<registry, failures, pending, session, victim, disconnect, peer_open>>

\* MUTANT of AuthorizeHost: the client id alone makes the host.
AuthorizeHostById(c) ==
  /\ session[c].lobby_id \in lobbies
  /\ host_id[session[c].lobby_id] = session[c].client_id

\* authorize_host, under the lock of the mutation that follows.
AuthorizeHost(c) ==
  /\ session[c].lobby_id \in lobbies
  /\ IsCurrentSession(session[c], c)
  /\ host_id[session[c].lobby_id] = session[c].client_id

\* ModerationDispatch::Handled without effect: no such lobby, not the host, or
\* a target the operation refuses (a host can always name one).
ModerationHandled(c) ==
  /\ phase[c] = "mapped"
  /\ session[c].lobby_id \in lobbies => IsCurrentSession(session[c], c)
  /\ phase' = [phase EXCEPT ![c] = "reading"]
  /\ UNCHANGED <<registry, failures, pending, session, victim, disconnect, peer_open>>

\* ModerationDispatch::CloseConnection: the session was replaced or removed.
ModerationCloses(c) ==
  /\ phase[c] = "mapped"
  /\ session[c].lobby_id \in lobbies
  /\ ~IsCurrentSession(session[c], c)
  /\ phase' = [phase EXCEPT ![c] = "ending"]
  /\ UNCHANGED <<registry, failures, pending, session, victim, disconnect, peer_open>>

RemoveClient(l, id) ==
  clients' = [clients EXCEPT ![l] = [@ EXCEPT ![id] = None]]

\* MUTANT of Unmap: the reverse mapping is kept.
KeepMapping(l, id) == UNCHANGED client_lobby_map

\* The reverse mapping is removed only while it still names this lobby.
Unmap(l, id) ==
  client_lobby_map' = [client_lobby_map EXCEPT ![id] = IF @ = l THEN None ELSE @]

RotateChatToken(l) == epoch' = [epoch EXCEPT ![l] = @ + 1]

KickPlayer(c, target) ==
  LET l == session[c].lobby_id
  IN  /\ phase[c] = "mapped"
      /\ AuthorizeHost(c)
      /\ target # session[c].client_id
      /\ target \in Members(l)
      /\ RemoveClient(l, target)
      /\ muted' = [muted EXCEPT ![l] = @ \ {target}]
      /\ RotateChatToken(l)
      /\ Unmap(l, target)
      /\ victim' = [victim EXCEPT ![c] = clients[l][target].sender]
      /\ phase' = [phase EXCEPT ![c] = "kicking"]
      /\ UNCHANGED <<lobbies, host_id, max_players, public, password, failures,
                     pending, session, disconnect, peer_open>>

\* removed.disconnect.send(true), after the lock is released.
SignalKicked(c) ==
  /\ phase[c] = "kicking"
  /\ disconnect' = disconnect \cup {victim[c]}
  /\ victim' = [victim EXCEPT ![c] = None]
  /\ phase' = [phase EXCEPT ![c] = "announcing"]
  /\ UNCHANGED <<registry, failures, pending, session, peer_open>>

MutePlayer(c, target) ==
  LET l == session[c].lobby_id
  IN  /\ phase[c] = "mapped"
      /\ AuthorizeHost(c)
      /\ target # host_id[l]
      /\ target \in Members(l)
      /\ Cardinality(muted[l]) >= MAX_LOBBY_MEMBERS => target \in muted[l]
      /\ muted' = [muted EXCEPT ![l] = @ \cup {target}]
      /\ phase' = [phase EXCEPT ![c] = "announcing"]
      /\ UNCHANGED <<lobbies, clients, host_id, max_players, public, password, epoch,
                     client_lobby_map, failures, pending, session, victim,
                     disconnect, peer_open>>

UnmutePlayer(c, target) ==
  LET l == session[c].lobby_id
  IN  /\ phase[c] = "mapped"
      /\ AuthorizeHost(c)
      /\ target \in Members(l)
      /\ muted' = [muted EXCEPT ![l] = @ \ {target}]
      /\ phase' = [phase EXCEPT ![c] = "announcing"]
      /\ UNCHANGED <<lobbies, clients, host_id, max_players, public, password, epoch,
                     client_lobby_map, failures, pending, session, victim,
                     disconnect, peer_open>>

TransferHost(c, target) ==
  LET l == session[c].lobby_id
  IN  /\ phase[c] = "mapped"
      /\ AuthorizeHost(c)
      /\ target \in Members(l)
      /\ host_id' = [host_id EXCEPT ![l] = target]
      /\ muted' = [muted EXCEPT ![l] = @ \ {target}]
      /\ phase' = [phase EXCEPT ![c] = "announcing"]
      /\ UNCHANGED <<lobbies, clients, max_players, public, password, epoch,
                     client_lobby_map, failures, pending, session, victim,
                     disconnect, peer_open>>

\* MUTANT of EffectiveMax: the request is taken as it is.
UncappedMax(requested) == requested

\* Either option may be absent from the message (None, "absent").
EffectiveMax(requested) ==
  IF requested > MAX_LOBBY_MEMBERS THEN MAX_LOBBY_MEMBERS ELSE requested

\* MUTANT of EffectivePublic: the password is not looked at.
PublicAsRequested(l, requested) ==
  IF requested = "absent" THEN public
  ELSE IF requested = "yes" THEN public \cup {l} ELSE public \ {l}

EffectivePublic(l, requested) ==
  IF requested = "absent" THEN public
  ELSE IF requested = "yes" /\ password[l] = EmptyPassword THEN public \cup {l}
  ELSE public \ {l}

SetLobbyOptions(c, max, is_public) ==
  LET l == session[c].lobby_id
  IN  /\ phase[c] = "mapped"
      /\ AuthorizeHost(c)
      /\ max_players' = IF max = None THEN max_players
                        ELSE [max_players EXCEPT ![l] = EffectiveMax(max)]
      /\ public' = EffectivePublic(l, is_public)
      /\ phase' = [phase EXCEPT ![c] = "announcing"]
      /\ UNCHANGED <<lobbies, clients, host_id, password, muted, epoch,
                     client_lobby_map, failures, pending, session, victim,
                     disconnect, peer_open>>

AnnounceDone(c) ==
  /\ phase[c] = "announcing"
  /\ phase' = [phase EXCEPT ![c] = "reading"]
  /\ UNCHANGED <<registry, failures, pending, session, victim, disconnect, peer_open>>

-----------------------------------------------------------------------------
\* Cleanup of an ended connection

\* MUTANT of OwnsRecord: the socket is not compared.
RecordExists(c) == clients[session[c].lobby_id][session[c].client_id] # None

\* Only the socket is compared: the record may be a replacement's.
OwnsRecord(c) ==
  LET info == clients[session[c].lobby_id][session[c].client_id]
  IN  info # None /\ info.sender = c

CleanupSkipped(c) ==
  /\ phase[c] = "ending"
  /\ IsRegistered(c) => ~OwnsRecord(c)
  /\ phase' = [phase EXCEPT ![c] = "gone"]
  /\ UNCHANGED <<registry, failures, pending, session, victim, disconnect, peer_open>>

\* lobbies.remove: the lobby goes with all its fields.
DeleteLobby(l) ==
  /\ lobbies' = lobbies \ {l}
  /\ host_id' = [host_id EXCEPT ![l] = None]
  /\ max_players' = [max_players EXCEPT ![l] = 0]
  /\ public' = public \ {l}
  /\ password' = [password EXCEPT ![l] = None]
  /\ muted' = [muted EXCEPT ![l] = {}]
  /\ epoch' = [epoch EXCEPT ![l] = 0]

\* The last member leaves.
CleanupLastMember(c) ==
  LET l == session[c].lobby_id
      id == session[c].client_id
  IN  /\ phase[c] = "ending"
      /\ IsRegistered(c)
      /\ OwnsRecord(c)
      /\ Members(l) = {id}
      /\ RemoveClient(l, id)
      /\ DeleteLobby(l)
      /\ Unmap(l, id)
      /\ phase' = [phase EXCEPT ![c] = "parting"]
      /\ UNCHANGED <<failures, pending, session, victim, disconnect, peer_open>>

\* If the host left, any remaining member (keys().next() of a HashMap) is host.
NextHost(l, id, next) == IF host_id[l] = id THEN next ELSE host_id[l]

\* MUTANT of NowUnmuted: the new host is not unmuted.
OnlyLeaverUnmuted(l, id, next) == {id}

\* Whoever leaves is no longer muted, nor is a new host.
NowUnmuted(l, id, next) == IF host_id[l] = id THEN {id, next} ELSE {id}

\* Others remain.
CleanupLeaves(c, next) ==
  LET l == session[c].lobby_id
      id == session[c].client_id
  IN  /\ phase[c] = "ending"
      /\ IsRegistered(c)
      /\ OwnsRecord(c)
      /\ next \in Members(l) \ {id}
      /\ RemoveClient(l, id)
      /\ host_id' = [host_id EXCEPT ![l] = NextHost(l, id, next)]
      /\ muted' = [muted EXCEPT ![l] = @ \ NowUnmuted(l, id, next)]
      /\ RotateChatToken(l)
      /\ Unmap(l, id)
      /\ phase' = [phase EXCEPT ![c] = "parting"]
      /\ UNCHANGED <<lobbies, max_players, public, password, failures, pending,
                     session, victim, disconnect, peer_open>>

PartingDone(c) ==
  /\ phase[c] = "parting"
  /\ phase' = [phase EXCEPT ![c] = "gone"]
  /\ UNCHANGED <<registry, failures, pending, session, victim, disconnect, peer_open>>

-----------------------------------------------------------------------------
Init ==
  /\ lobbies = {}
  /\ clients = [l \in LobbyIds |-> [id \in ClientIds |-> None]]
  /\ host_id = [l \in LobbyIds |-> None]
  /\ max_players = [l \in LobbyIds |-> 0]
  /\ public = {}
  /\ password = [l \in LobbyIds |-> None]
  /\ muted = [l \in LobbyIds |-> {}]
  /\ epoch = [l \in LobbyIds |-> 0]
  /\ client_lobby_map = [id \in ClientIds |-> None]
  /\ failures = [key \in Sources \X LobbyIds |-> 0]
  /\ phase = [c \in Conns |-> "unborn"]
  /\ pending = [c \in Conns |-> None]
  /\ session = [c \in Conns |-> None]
  /\ victim = [c \in Conns |-> None]
  /\ disconnect = {}
  /\ peer_open = {}

Register(c) ==
  \E r \in Requests :
    \/ RegisterRefused(c, r)
    \/ RegisterWrongPassword(c, r)
    \/ RegisterRetry(c, r)
    \/ \E g \in Generations : RegisterCommit(c, r, g)

\* Only a registered task in phase "mapped" has a moderation message in hand.
Moderate(c) ==
  \/ \E target \in ClientIds :
       \/ KickPlayer(c, target)
       \/ MutePlayer(c, target)
       \/ UnmutePlayer(c, target)
       \/ TransferHost(c, target)
  \/ \E max \in MaxRequests \cup {None}, is_public \in {"absent", "yes", "no"} :
       SetLobbyOptions(c, max, is_public)
  \/ ModerationHandled(c)
  \/ ModerationCloses(c)

Cleanup(c) ==
  \/ CleanupSkipped(c)
  \/ CleanupLastMember(c)
  \/ \E next \in ClientIds : CleanupLeaves(c, next)

\* The steps a task takes by itself once its peer has spoken or fallen silent.
Proceed(c) ==
  \/ CommitFoundStale(c) \/ CommitFoundCurrent(c) \/ WelcomeDone(c)
  \/ MessageDone(c) \/ CheckMapping(c) \/ Moderate(c)
  \/ SignalKicked(c) \/ AnnounceDone(c)
  \/ TimeoutEndsLoop(c) \/ Cleanup(c) \/ PartingDone(c)

Next ==
  \/ \E c \in Conns :
       \/ Accept(c) \/ PeerVanishes(c) \/ PeerEndsLoop(c) \/ DisconnectEndsLoop(c)
       \/ ReceiveMessage(c) \/ Register(c) \/ Proceed(c)
       \/ \E d \in Conns : SendFails(c, d)
  \/ \E key \in Sources \X LobbyIds : FailuresForgotten(key)

(***************************************************************************)
(* Fairness.  Every send is cut off after SEND_TIMEOUT and the locks are   *)
(* tokio's fair ones, so a handler always gets on (WF of Proceed); an      *)
(* absent peer makes a read end or time out (part of Proceed).  While      *)
(* messages keep coming, select! picks among its ready branches at random, *)
(* so a watch that stays true is picked in the end (SF).                   *)
(***************************************************************************)
Fairness ==
  \A c \in Conns : WF_vars(Proceed(c)) /\ SF_vars(DisconnectEndsLoop(c))

Spec == Init /\ [][Next]_vars

FairSpec == Spec /\ Fairness

-----------------------------------------------------------------------------
\* Invariants

\* Every variable holds a value of its kind, for every lobby and connection.
TypeOK ==
  /\ lobbies \subseteq LobbyIds
  /\ clients \in [LobbyIds -> [ClientIds -> ClientInfo \cup {None}]]
  /\ host_id \in [LobbyIds -> ClientIds \cup {None}]
  /\ max_players \in [LobbyIds -> 0 .. MAX_LOBBY_MEMBERS]
  /\ public \subseteq LobbyIds
  /\ password \in [LobbyIds -> Passwords \cup {None}]
  /\ muted \in [LobbyIds -> SUBSET ClientIds]
  /\ epoch \in [LobbyIds -> Nat]
  /\ client_lobby_map \in [ClientIds -> LobbyIds \cup {None}]
  /\ failures \in [Sources \X LobbyIds -> 0 .. MAX_FAILURES]
  /\ phase \in [Conns -> Phases]
  /\ pending \in [Conns -> Session \cup {None}]
  /\ session \in [Conns -> Session \cup {None}]
  /\ victim \in [Conns -> Conns \cup {None}]
  /\ disconnect \subseteq Conns
  /\ peer_open \subseteq Conns

\* What a task holds in each phase: handle_v3's session until it returns, the
\* loop's from then on, the kicked connection between unlock and signal.
SessionsFollowPhases ==
  \A c \in Conns :
    /\ pending[c] # None <=> phase[c] \in {"committed", "welcoming"}
    /\ phase[c] \in {"unborn", "committed", "welcoming"} => session[c] = None
    /\ phase[c] \in {"checked", "mapped", "kicking", "announcing", "parting"}
         => session[c] # None
    /\ victim[c] # None <=> phase[c] = "kicking"

\* A lobby exists exactly while it has members: neither a refused registration
\* (which runs or_insert_with) nor a kick or cleanup leaves an empty one behind.
LobbyIffMembers ==
  \A l \in LobbyIds : l \in lobbies <=> Members(l) # {}

\* Every lobby has a host and the host is one of its members, whoever left, was
\* kicked or reconnected: moderation never falls to an absent client.
HostIsMember ==
  \A l \in lobbies : host_id[l] \in Members(l)

\* Only members other than the host are muted, so a mute does not outlive the
\* membership it was put on nor silence whoever became host.
MutedAreGuests ==
  \A l \in LobbyIds : muted[l] \subseteq Members(l) \ {host_id[l]}

\* All three: no order of registrations, kicks, transfers and cleanups leaves an
\* empty lobby, a host who is gone or a mute that nobody can lift.
LobbiesWellFormed == LobbyIffMembers /\ HostIsMember /\ MutedAreGuests

\* client_lobby_map and the lobbies agree between critical sections, hence a
\* client is a member of at most one lobby.
MapMatchesMembership ==
  \A l \in LobbyIds, id \in ClientIds :
    id \in Members(l) <=> client_lobby_map[id] = l

\* Virtual addresses are unique inside a lobby.
VirtualIpsUnique ==
  \A l \in LobbyIds : \A i, j \in Members(l) :
    clients[l][i].virtual_ip = clients[l][j].virtual_ip => i = j

\* No join, reconnect or lowered option takes a lobby past MAX_LOBBY_MEMBERS.
WithinCapacity ==
  \A l \in LobbyIds : Cardinality(Members(l)) <= MAX_LOBBY_MEMBERS

\* A listed lobby has no password, whatever order options and lobbies come in.
PublicIsPasswordless ==
  \A l \in public : l \in lobbies /\ password[l] = EmptyPassword

\* The task that will clean up after a record is alive and knows it.
Owned(l, id) ==
  LET c == clients[l][id].sender
  IN  /\ phase[c] \notin {"unborn", "parting", "gone"}
      /\ Bound(c) = [client_id |-> id, lobby_id |-> l,
                     generation |-> clients[l][id].generation]

\* No ghost members: each record belongs to a live task bound to that record,
\* even between the commit and the moment the loop stores the session.
NoGhostMember ==
  \A l \in LobbyIds : \A id \in Members(l) : Owned(l, id)

\* A task that lost its record (replaced or kicked) has been told to end, or
\* the host's task that kicked it is about to tell it.
LosersAreTold ==
  \A c \in Conns :
    (/\ Bound(c) # None
     /\ phase[c] \notin {"parting", "gone"}
     /\ ~IsCurrentSession(Bound(c), c))
       => c \in disconnect \/ \E h \in Conns : victim[h] = c

-----------------------------------------------------------------------------
\* Action properties

\* Socket c is the current host session of lobby l and has a message in hand.
HostActs(l, c) ==
  /\ phase[c] = "mapped"
  /\ host_id[l] \in Members(l)
  /\ clients[l][host_id[l]].sender = c

RecordStep ==
  \A l \in LobbyIds : \A id \in Members(l) :
    clients'[l][id] # clients[l][id] =>
      \/ /\ clients'[l][id] = None
         /\ phase[clients[l][id].sender] = "ending"
      \/ /\ clients'[l][id] # None
         /\ phase[clients'[l][id].sender] = "reading"
         /\ session[clients'[l][id].sender] = None
         /\ clients[l][id].sender \in disconnect'
      \/ /\ clients'[l][id] = None
         /\ id # host_id[l]
         /\ \E h \in Conns : HostActs(l, h) /\ victim'[h] = clients[l][id].sender

\* A member's record changes only when its own connection has ended, when its
\* identity registers again on a fresh connection in the same lobby, or when
\* the current session of the host kicks it: an old socket, replaced or
\* kicked, never touches the record of its replacement.
RecordsChangeOnlyByRight == [][RecordStep]_vars

HostStep ==
  \A l \in lobbies \cap lobbies' :
    host_id'[l] # host_id[l] =>
      clients'[l][host_id[l]] = None \/ \E h \in Conns : HostActs(l, h)

\* While a lobby exists, its host changes only by the act of the host's current
\* session or because the host is no longer a member; a reconnect of the host
\* keeps the role.
HostChangesOnlyByRight == [][HostStep]_vars

TokenStep ==
  \A l \in lobbies \cap lobbies' :
    /\ epoch'[l] >= epoch[l]
    /\ Senders(l)' # Senders(l) => epoch'[l] > epoch[l]

\* While a lobby exists, any change of the sockets that make it up (a join, a
\* departure, a kick, also a reconnect under the same id) takes a new epoch,
\* and the epoch never goes back.
MembershipChangeRotatesToken == [][TokenStep]_vars

-----------------------------------------------------------------------------
\* The registry implements Membership: the session of a client id is the record
\* that client_lobby_map leads to.

SessionInForce(id) ==
  LET l == client_lobby_map[id]
      info == clients[l][id]
  IN  IF l = None THEN None
      ELSE [lobby_id |-> l, sender |-> info.sender, generation |-> info.generation]

Abstract == INSTANCE Membership WITH
  member <- [id \in ClientIds |-> SessionInForce(id)],
  used <- {c \in Conns : Bound(c) # None}

\* Every step of the registry is a registration, a departure or nothing at all
\* to whoever routes messages by session: no identity has two sessions, no
\* connection gets a second one, no session moves to another lobby.
ImplementsMembership == Abstract!MembershipSpec

-----------------------------------------------------------------------------
\* Liveness

\* A task whose record was replaced or kicked, or whose sends failed, ends
\* even if its peer keeps talking.
ToldTasksEnd ==
  \A c \in Conns : c \in disconnect ~> phase[c] = "gone"

\* A peer that vanished does not stay listed as a member.
VanishedPeersLeave ==
  \A c \in Conns :
    (phase[c] # "unborn" /\ c \notin peer_open) ~> (\A l \in LobbyIds : c \notin Senders(l))
=============================================================================

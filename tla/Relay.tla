-------------------------------- MODULE Relay --------------------------------
(***************************************************************************)
(* How the messages of one client reach the others: the arms of the        *)
(* message loop that forward WebRTC, screen-share, file-share, status and  *)
(* remote-control signaling, and the transport functions they call.        *)
(*                                                                         *)
(* A message is checked against the session that sent it, then routed by   *)
(* the client id it came from (client_lobby_map), then the receivers and   *)
(* the sender's generation are looked up (lobbies), then it is sent.       *)
(* These are four separate moments, with await points between them, while  *)
(* the membership changes as Membership says.                              *)
(***************************************************************************)
EXTENDS Membership, Naturals, FiniteSets

CONSTANTS
  MessageTypes,  \* the message types the clients send
  MaxMessages    \* bound on the messages the sockets send in a behaviour

ASSUME MessageTypesAssumption == MessageTypes \subseteq STRING

ASSUME MaxMessagesAssumption == MaxMessages \in Nat

-----------------------------------------------------------------------------
\* The arms of the loop's match, by how they route.

\* To one client of the connection's own lobby_id.
VoiceReconnect == {"voice-reconnect"}

\* To one client of the lobby that client_lobby_map gives for the sender's id.
PeerConnection == {"offer", "answer", "ice-candidate"}
ScreenShareOffer == {"screen-share-relay", "screen-share-offer"}
ScreenShareAnswer == {"screen-share-answer", "screen-share-ice-candidate"}
ScreenShareError == {"screen-share-error"}
ScreenShareListResponse == {"screen-share-list-response"}
FileShareListResponse == {"file-share-list-response"}
RemoteControlSetup == {"remote-control-request", "remote-control-accept",
                       "remote-control-reject", "remote-control-offer"}
RemoteControlSession == {"remote-control-answer", "remote-control-ice",
                         "remote-control-stop"}

\* To all others of that lobby.
StatusUpdate == {"status-update"}
ScreenShareStartStop == {"screen-share-start", "screen-share-stop"}
ScreenShareListRequest == {"screen-share-list-request"}
ScreenShareNews == {"screen-share-viewer-left", "screen-share-update"}
FileShareNews == {"file-share-added", "file-share-removed", "file-share-list-request"}
ShareUpdated == {"share-updated"}

Direct ==
  UNION {PeerConnection, ScreenShareOffer, ScreenShareAnswer, ScreenShareError,
         ScreenShareListResponse, FileShareListResponse, RemoteControlSetup,
         RemoteControlSession}

Broadcast ==
  UNION {StatusUpdate, ScreenShareStartStop, ScreenShareListRequest, ScreenShareNews,
         FileShareNews, ShareUpdated}

\* Types with a sender that no arm handles: chat-message is one.
Unhandled(type) == type \notin VoiceReconnect \cup Direct \cup Broadcast

\* All of these carry the id of their sender; broadcasts ignore `to`.
Messages == [type : MessageTypes, from : ClientIds, to : ClientIds]

\* validate_message_shape, as far as routing goes.
WellShaped(m) == m.type \in VoiceReconnect => m.from # m.to

VARIABLES
  own,        \* connection -> client_id, lobby_id, session_generation, or None
  stage,      \* connection -> where its task stands with the message in hand
  msg,        \* connection -> the message in hand, or None
  route,      \* connection -> the lobby the message goes to, or None
  out,        \* connection -> sockets still to be sent to
  stamp,      \* connection -> sessionGeneration put into the message, or None
  delivered,  \* what reached whom: origin socket, client id, generation, receiver
  count       \* messages received so far

relaying == <<own, stage, msg, route, out, stamp, delivered, count>>
relay_vars == <<membership, relaying>>

Stages == {"unregistered", "live", "checked", "routed", "sending", "gone"}

OwnSession == [client_id : ClientIds, lobby_id : LobbyIds, generation : Generations]

\* No message in hand, and no session yet, are neither a message nor a session.
ASSUME RelayAssumption == None \notin Messages \cup OwnSession

\* is_current_session
IsCurrent(c) ==
  LET s == member[own[c].client_id]
  IN  own[c] # None /\ s # None /\ s =
        [lobby_id |-> own[c].lobby_id, sender |-> c, generation |-> own[c].generation]

InLobby(l, id) == member[id] # None /\ member[id].lobby_id = l

StageTo(c, s) == stage' = [stage EXCEPT ![c] = s]

\* The task is done with its message.
Drop(c) ==
  /\ StageTo(c, "live")
  /\ msg' = [msg EXCEPT ![c] = None]
  /\ route' = [route EXCEPT ![c] = None]
  /\ out' = [out EXCEPT ![c] = {}]
  /\ stamp' = [stamp EXCEPT ![c] = None]

-----------------------------------------------------------------------------
\* A connection registers (RegistrationOutcome::Committed reached the loop).
Register(c, id, l, g) ==
  /\ stage[c] = "unregistered"
  /\ Enter(c, id, l, g)
  /\ own' = [own EXCEPT ![c] = [client_id |-> id, lobby_id |-> l, generation |-> g]]
  /\ StageTo(c, "live")
  /\ UNCHANGED <<msg, route, out, stamp, delivered, count>>

\* A session ends by a kick or by the cleanup of its connection.
SessionEnds(id) ==
  /\ Depart(id)
  /\ UNCHANGED relaying

\* A message of a session that is no longer current closes the connection.
StaleSpeaks(c) ==
  /\ stage[c] = "live"
  /\ ~IsCurrent(c)
  /\ StageTo(c, "gone")
  /\ UNCHANGED <<membership, own, msg, route, out, stamp, delivered, count>>

\* So does one over the rate, one that does not parse and one of bad shape.
Misbehaves(c) ==
  /\ stage[c] \in {"unregistered", "live"}
  /\ StageTo(c, "gone")
  /\ UNCHANGED <<membership, own, msg, route, out, stamp, delivered, count>>

\* claimed_sender must be the connection's own id, which an unregistered one
\* does not have; else the message is skipped and the connection goes on.
SenderMatches(c, m) == own[c] # None /\ m.from = own[c].client_id

Receive(c, m) ==
  /\ stage[c] \in {"unregistered", "live"}
  /\ count < MaxMessages
  /\ count' = count + 1
  /\ stage[c] = "live" => IsCurrent(c)
  /\ WellShaped(m)
  /\ IF SenderMatches(c, m)
     THEN StageTo(c, "checked") /\ msg' = [msg EXCEPT ![c] = m]
     ELSE UNCHANGED <<stage, msg>>
  /\ UNCHANGED <<membership, own, route, out, stamp, delivered>>

\* The last arm of the match: "unknown message type", nothing is done.
IgnoreUnhandled(c) ==
  /\ stage[c] = "checked"
  /\ Unhandled(msg[c].type)
  /\ Drop(c)
  /\ UNCHANGED <<membership, own, delivered, count>>

\* VoiceReconnect uses the lobby of the connection's own session.
RouteByOwnLobby(c) ==
  /\ stage[c] = "checked"
  /\ msg[c].type \in VoiceReconnect
  /\ route' = [route EXCEPT ![c] = own[c].lobby_id]
  /\ StageTo(c, "routed")
  /\ UNCHANGED <<membership, own, msg, out, stamp, delivered, count>>

\* All others ask client_lobby_map where the sender's id is now.
RouteByMap(c) ==
  /\ stage[c] = "checked"
  /\ msg[c].type \in Direct \cup Broadcast
  /\ member[msg[c].from] # None
  /\ route' = [route EXCEPT ![c] = member[msg[c].from].lobby_id]
  /\ StageTo(c, "routed")
  /\ UNCHANGED <<membership, own, msg, out, stamp, delivered, count>>

SenderNowhere(c) ==
  /\ stage[c] = "checked"
  /\ msg[c].type \in Direct \cup Broadcast
  /\ member[msg[c].from] = None
  /\ Drop(c)
  /\ UNCHANGED <<membership, own, delivered, count>>

\* send_to_lobby_client and broadcast_to_lobby under the read lock: the
\* receivers' sockets.
Receivers(l, m) ==
  {member[id].sender : id \in {i \in ClientIds :
     InLobby(l, i) /\ (IF m.type \in Broadcast THEN i # m.from ELSE i = m.to)}}

\* MUTANT of StampFor: the generation the sender's id has anywhere.
StampFromAnywhere(l, m) == IF member[m.from] # None THEN member[m.from].generation ELSE None

\* ... and the generation the sender's id has there, if it is there.
StampFor(l, m) == IF InLobby(l, m.from) THEN member[m.from].generation ELSE None

LookUp(c) ==
  /\ stage[c] = "routed"
  /\ Receivers(route[c], msg[c]) # {}
  /\ out' = [out EXCEPT ![c] = Receivers(route[c], msg[c])]
  /\ stamp' = [stamp EXCEPT ![c] = StampFor(route[c], msg[c])]
  /\ StageTo(c, "sending")
  /\ UNCHANGED <<membership, own, msg, route, delivered, count>>

NobodyThere(c) ==
  /\ stage[c] = "routed"
  /\ Receivers(route[c], msg[c]) = {}
  /\ Drop(c)
  /\ UNCHANGED <<membership, own, delivered, count>>

\* One send, outside the lock, gets through ...
Send(c, d) ==
  /\ stage[c] = "sending"
  /\ d \in out[c]
  /\ out' = [out EXCEPT ![c] = @ \ {d}]
  /\ delivered' = delivered \cup
       {[origin |-> c, from |-> msg[c].from, generation |-> stamp[c], receiver |-> d]}
  /\ UNCHANGED <<membership, own, stage, msg, route, stamp, count>>

\* ... or fails, which tells d's task to end (its session may end at any time).
SendFails(c, d) ==
  /\ stage[c] = "sending"
  /\ d \in out[c]
  /\ out' = [out EXCEPT ![c] = @ \ {d}]
  /\ UNCHANGED <<membership, own, stage, msg, route, stamp, delivered, count>>

AllSent(c) ==
  /\ stage[c] = "sending"
  /\ out[c] = {}
  /\ Drop(c)
  /\ UNCHANGED <<membership, own, delivered, count>>

-----------------------------------------------------------------------------
RelayInit ==
  /\ MembershipInit
  /\ own = [c \in Conns |-> None]
  /\ stage = [c \in Conns |-> "unregistered"]
  /\ msg = [c \in Conns |-> None]
  /\ route = [c \in Conns |-> None]
  /\ out = [c \in Conns |-> {}]
  /\ stamp = [c \in Conns |-> None]
  /\ delivered = {}
  /\ count = 0

RelayNext ==
  \/ \E c \in Conns :
       \/ \E id \in ClientIds, l \in LobbyIds, g \in Generations : Register(c, id, l, g)
       \/ StaleSpeaks(c) \/ Misbehaves(c)
       \/ \E m \in Messages : Receive(c, m)
       \/ IgnoreUnhandled(c) \/ RouteByOwnLobby(c) \/ RouteByMap(c) \/ SenderNowhere(c)
       \/ LookUp(c) \/ NobodyThere(c) \/ AllSent(c)
       \/ \E d \in Conns : Send(c, d) \/ SendFails(c, d)
  \/ \E id \in ClientIds : SessionEnds(id)

RelaySpec == RelayInit /\ [][RelayNext]_relay_vars

-----------------------------------------------------------------------------
\* Every variable holds a value of its kind, and nothing of a message stays with
\* a task that is done with it.
RelayTypeOK ==
  /\ MembershipTypeOK
  /\ own \in [Conns -> OwnSession \cup {None}]
  /\ stage \in [Conns -> Stages]
  /\ msg \in [Conns -> Messages \cup {None}]
  /\ route \in [Conns -> LobbyIds \cup {None}]
  /\ out \in [Conns -> SUBSET Conns]
  /\ stamp \in [Conns -> Generations \cup {None}]
  /\ delivered \subseteq [origin : Conns, from : ClientIds,
                          generation : Generations \cup {None}, receiver : Conns]
  /\ count \in 0 .. MaxMessages
  /\ \A c \in Conns :
       /\ msg[c] # None <=> stage[c] \in {"checked", "routed", "sending"}
       /\ stamp[c] # None \/ out[c] # {} => stage[c] = "sending"

\* The client id a receiver sees is the one the origin socket registered.
IdIsGenuine ==
  \A m \in delivered : own[m.origin] # None /\ m.from = own[m.origin].client_id

\* A client id and session generation in a received message always name a
\* session that the receiver's own lobby has had, however the sender's and the
\* receiver's memberships changed while the message was under way.
StampNamesSessionOfLobby ==
  \A m \in delivered : m.generation # None =>
    \E e \in Conns :
      own[e] = [client_id |-> m.from, lobby_id |-> own[m.receiver].lobby_id,
                generation |-> m.generation]

\* Both, with the types: whom a received message names as its sender is whom it
\* came from, in a session of the receiver's lobby.
SenderIsGenuine == RelayTypeOK /\ IdIsGenuine /\ StampNamesSessionOfLobby

\* The sender and the receiver of a forwarded message are of the same lobby, as
\* the comment on each forwarding arm requires.
SameLobby ==
  \A m \in delivered : own[m.origin].lobby_id = own[m.receiver].lobby_id
=============================================================================

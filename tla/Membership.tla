----------------------------- MODULE Membership -----------------------------
(***************************************************************************)
(* What the lobby registry promises to the rest of the server: which       *)
(* socket speaks for a client id, and in which lobby.                      *)
(*                                                                         *)
(* An identity has at most one session.  A session is created by one       *)
(* connection, which never creates a second one, replaces at most the      *)
(* session of the same identity in the same lobby, and never changes or    *)
(* moves to another lobby afterwards: it only ends.                        *)
(* Lobby implements this module; Relay and TokenDelivery are built on it.  *)
(***************************************************************************)
CONSTANTS Conns, ClientIds, LobbyIds, Generations, None

\* An absent session is not a session.
ASSUME NoneAssumption ==
  None \notin [lobby_id : LobbyIds, sender : Conns, generation : Generations]

VARIABLES
  member,  \* client id -> its session, or None
  used     \* the connections that have had a session

membership == <<member, used>>

\* A session names its lobby, its socket and its generation.
MembershipTypeOK ==
  /\ member \in [ClientIds -> [lobby_id : LobbyIds, sender : Conns, generation : Generations]
                              \cup {None}]
  /\ used \subseteq Conns

MembershipInit ==
  /\ member = [id \in ClientIds |-> None]
  /\ used = {}

\* Connection c registers client id, for the first time or in place of the
\* session the id has in that lobby.
Enter(c, id, l, g) ==
  /\ c \notin used
  /\ member[id] # None => member[id].lobby_id = l
  /\ member' = [member EXCEPT ![id] = [lobby_id |-> l, sender |-> c, generation |-> g]]
  /\ used' = used \cup {c}

\* The session of client id ends: its connection was cleaned up, or it was kicked.
Depart(id) ==
  /\ member[id] # None
  /\ member' = [member EXCEPT ![id] = None]
  /\ UNCHANGED used

MembershipNext ==
  \/ \E c \in Conns, id \in ClientIds, l \in LobbyIds, g \in Generations : Enter(c, id, l, g)
  \/ \E id \in ClientIds : Depart(id)

MembershipSpec == MembershipInit /\ [][MembershipNext]_membership
=============================================================================

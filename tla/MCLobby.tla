------------------------------- MODULE MCLobby -------------------------------
(***************************************************************************)
(* Small instances of Lobby for TLC.                                       *)
(***************************************************************************)
EXTENDS Lobby, TLC

\* One quota source: every connection shares the failure counters.
MCSources == {"s"}
MCSourceOf == [c \in Conns |-> "s"]

\* Interchangeable model values (safety runs only).
MCSymmetry == Permutations(Conns) \cup Permutations(ClientIds) \cup Permutations(VirtualIps)
                \cup Permutations(LobbyIds)

\* Bound of the run on sessions in two lobbies.  Either lobbies are plain: nobody
\* is muted, and neither passwords nor options are used (LobbyRoles goes into mutes
\* and capacities).  Or, for passwords and listing, two connections use one lobby.
Plain ==
  /\ public = {} /\ \A l \in LobbyIds : muted[l] = {} /\ max_players[l] = 0
  /\ \A l \in lobbies : password[l] = EmptyPassword
  /\ \A key \in Sources \X LobbyIds : failures[key] = 0

UsedLobbies ==
  lobbies \cup {Bound(c).lobby_id : c \in {d \in Conns : Bound(d) # None}}
    \cup {key[2] : key \in {k \in Sources \X LobbyIds : failures[k] > 0}}

OneLobbyForTwo ==
  Cardinality(UsedLobbies) <= 1 /\ Cardinality({c \in Conns : phase[c] # "unborn"}) <= 2

MCPlainOrSmall == Plain \/ OneLobbyForTwo
=============================================================================

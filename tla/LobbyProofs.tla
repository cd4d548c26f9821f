----------------------------- MODULE LobbyProofs -----------------------------
(***************************************************************************)
(* Proofs about Lobby, for any sets of connections, clients and lobbies.   *)
(***************************************************************************)
EXTENDS Lobby, FiniteSetTheorems, TLAPS

\* What every step needs of the tasks and of the types.
Base == TypeOK /\ SessionsFollowPhases

USE DEF Phases

(***************************************************************************)
(* Every step keeps the types and the shape of the tasks.                  *)
(***************************************************************************)
LEMMA BaseInit == Init => Base
<1> SUFFICES ASSUME Init PROVE Base
  OBVIOUS
<1>1. TypeOK
  BY ConstantsAssumption DEF Init, TypeOK
<1>2. SessionsFollowPhases
  BY DEF Init, SessionsFollowPhases
<1> QED BY <1>1, <1>2 DEF Base

\* A step that only moves one task to another phase.
LEMMA BasePhaseOnly ==
  ASSUME Base, NEW c \in Conns, NEW p \in Phases,
         phase' = [phase EXCEPT ![c] = p],
         phase[c] \notin {"unborn", "committed", "welcoming", "kicking"},
         p \notin {"unborn", "committed", "welcoming", "kicking"},
         p \in {"checked", "mapped", "announcing", "parting"} => session[c] # None,
         UNCHANGED <<registry, failures, pending, session, victim, disconnect>>,
         peer_open' = peer_open
  PROVE  Base'
<1>1. TypeOK'
  BY DEF Base, TypeOK, registry
<1>2. SessionsFollowPhases'
  BY DEF Base, TypeOK, SessionsFollowPhases
<1> QED BY <1>1, <1>2 DEF Base

LEMMA BaseRegister ==
  ASSUME Base, NEW c \in Conns, Register(c)
  PROVE  Base'
<1> PICK r \in Requests :
      \/ RegisterRefused(c, r)
      \/ RegisterWrongPassword(c, r)
      \/ RegisterRetry(c, r)
      \/ \E g \in Generations : RegisterCommit(c, r, g)
  BY DEF Register
<1>0. /\ FailureKey(c, r) \in Sources \X LobbyIds
      /\ r.lobby_id \in LobbyIds /\ r.client_id \in ClientIds
      /\ r.virtual_ip \in VirtualIps /\ r.password \in Passwords
  BY ConstantsAssumption DEF FailureKey, Requests
<1>1. CASE RegisterRefused(c, r)
  BY <1>1, BasePhaseOnly DEF RegisterRefused, Registering
<1>2. CASE RegisterWrongPassword(c, r)
  <2>1. failures' \in [Sources \X LobbyIds -> 0 .. MAX_FAILURES]
    BY <1>0, <1>2, ConstantsAssumption
    DEF Base, TypeOK, RegisterWrongPassword, Refused, IsLocked
  <2>2. TypeOK'
    BY <1>2, <2>1 DEF Base, TypeOK, RegisterWrongPassword, registry
  <2>3. SessionsFollowPhases'
    BY <1>2 DEF Base, TypeOK, SessionsFollowPhases, RegisterWrongPassword, Registering
  <2> QED BY <2>2, <2>3 DEF Base
<1>3. CASE RegisterRetry(c, r)
  <2>1. failures' \in [Sources \X LobbyIds -> 0 .. MAX_FAILURES]
    BY <1>0, <1>3, ConstantsAssumption DEF Base, TypeOK, RegisterRetry, ClearFailures
  <2>2. TypeOK'
    BY <1>3, <2>1 DEF Base, TypeOK, RegisterRetry, registry, tasks
  <2>3. SessionsFollowPhases'
    BY <1>3 DEF Base, SessionsFollowPhases, RegisterRetry, tasks
  <2> QED BY <2>2, <2>3 DEF Base
<1>4. ASSUME NEW g \in Generations, RegisterCommit(c, r, g)
      PROVE  Base'
  <2>1. failures' \in [Sources \X LobbyIds -> 0 .. MAX_FAILURES]
    BY <1>0, <1>4, ConstantsAssumption DEF Base, TypeOK, RegisterCommit, ClearFailures
  <2>2. /\ lobbies' \subseteq LobbyIds
        /\ host_id' \in [LobbyIds -> ClientIds \cup {None}]
        /\ password' \in [LobbyIds -> Passwords \cup {None}]
    BY <1>0, <1>4 DEF Base, TypeOK, RegisterCommit, CreateIfMissing
  <2>3. clients' \in [LobbyIds -> [ClientIds -> ClientInfo \cup {None}]]
    BY <1>0, <1>4 DEF Base, TypeOK, RegisterCommit, ClientInfo
  <2>4. disconnect' \subseteq Conns
    BY <1>0, <1>4 DEF Base, TypeOK, RegisterCommit, SignalPrevious, ClientInfo
  <2>5. epoch' \in [LobbyIds -> Nat]
    BY <1>0, <1>4 DEF Base, TypeOK, RegisterCommit, TokenForJoin
  <2>6. pending' \in [Conns -> Session \cup {None}]
    BY <1>0, <1>4 DEF Base, TypeOK, RegisterCommit, Session
  <2>7. /\ client_lobby_map' \in [ClientIds -> LobbyIds \cup {None}]
        /\ phase' \in [Conns -> Phases]
    BY <1>0, <1>4 DEF Base, TypeOK, RegisterCommit
  <2>8. TypeOK'
    BY <1>4, <2>1, <2>2, <2>3, <2>4, <2>5, <2>6, <2>7 DEF Base, TypeOK, RegisterCommit
  <2>9. pending'[c] # None
    BY <1>0, <1>4, NoneIsNoSession DEF Base, TypeOK, RegisterCommit, Session
  <2>10. SessionsFollowPhases'
    BY <1>4, <2>9
    DEF Base, TypeOK, SessionsFollowPhases, RegisterCommit, Registering, IsRegistered
  <2> QED BY <2>8, <2>10 DEF Base
<1> QED BY <1>1, <1>2, <1>3, <1>4

LEMMA BaseModerate ==
  ASSUME Base, NEW c \in Conns, Moderate(c)
  PROVE  Base'
<1>0. /\ phase[c] = "mapped" /\ session[c] \in Session
      /\ session[c].lobby_id \in LobbyIds /\ session[c].client_id \in ClientIds
  <2>1. phase[c] = "mapped"
    BY DEF Moderate, KickPlayer, MutePlayer, UnmutePlayer, TransferHost,
           SetLobbyOptions, ModerationHandled, ModerationCloses
  <2> QED BY <2>1 DEF Base, TypeOK, SessionsFollowPhases, Session
<1>1. ASSUME NEW target \in ClientIds, KickPlayer(c, target)
      PROVE  Base'
  <2>1. victim'[c] \in Conns /\ victim' \in [Conns -> Conns \cup {None}]
    BY <1>0, <1>1 DEF Base, TypeOK, KickPlayer, Members, ClientInfo
  <2>2. TypeOK'
    BY <1>0, <1>1, <2>1
    DEF Base, TypeOK, KickPlayer, RemoveClient, RotateChatToken, Unmap
  <2>3. SessionsFollowPhases'
    BY <1>1, <2>1, ConstantsAssumption
    DEF Base, TypeOK, SessionsFollowPhases, KickPlayer
  <2> QED BY <2>2, <2>3 DEF Base
<1>2. ASSUME NEW target \in ClientIds,
             \/ MutePlayer(c, target) \/ UnmutePlayer(c, target)
             \/ TransferHost(c, target)
      PROVE  Base'
  <2>1. muted' \in [LobbyIds -> SUBSET ClientIds]
    <3> DEFINE l == session[c].lobby_id
    <3>1. /\ muted[l] \cup {target} \in SUBSET ClientIds
          /\ muted[l] \ {target} \in SUBSET ClientIds
      BY <1>0, <1>2 DEF Base, TypeOK
    <3>2. \/ muted' = [muted EXCEPT ![l] = muted[l] \cup {target}]
          \/ muted' = [muted EXCEPT ![l] = muted[l] \ {target}]
      BY <1>2 DEF MutePlayer, UnmutePlayer, TransferHost
    <3>3. l \in LobbyIds /\ muted \in [LobbyIds -> SUBSET ClientIds]
      BY <1>0 DEF Base, TypeOK
    <3> HIDE DEF l
    <3> QED BY <3>1, <3>2, <3>3
  <2>2. host_id' \in [LobbyIds -> ClientIds \cup {None}]
    BY <1>0, <1>2 DEF Base, TypeOK, MutePlayer, UnmutePlayer, TransferHost
  <2>3. /\ phase' = [phase EXCEPT ![c] = "announcing"]
        /\ UNCHANGED <<lobbies, clients, max_players, public, password, epoch,
                       client_lobby_map, failures, pending, session, victim,
                       disconnect, peer_open>>
    BY <1>2 DEF MutePlayer, UnmutePlayer, TransferHost
  <2>4. TypeOK'
    BY <2>1, <2>2, <2>3 DEF Base, TypeOK
  <2>5. SessionsFollowPhases'
    BY <1>0, <2>3 DEF Base, TypeOK, SessionsFollowPhases
  <2> QED BY <2>4, <2>5 DEF Base
<1>3. ASSUME NEW max \in MaxRequests \cup {None},
             NEW is_public \in {"absent", "yes", "no"},
             SetLobbyOptions(c, max, is_public)
      PROVE  Base'
  <2>1. max_players' \in [LobbyIds -> 0 .. MAX_LOBBY_MEMBERS]
    <3>1. CASE max = None
      BY <3>1, <1>3 DEF Base, TypeOK, SetLobbyOptions
    <3>2. CASE max # None
      <4>1. EffectiveMax(max) \in 0 .. MAX_LOBBY_MEMBERS
        BY <3>2, ConstantsAssumption DEF EffectiveMax
      <4> QED BY <1>0, <1>3, <3>2, <4>1 DEF Base, TypeOK, SetLobbyOptions
    <3> QED BY <3>1, <3>2
  <2>2. public' \subseteq LobbyIds
    BY <1>0, <1>3 DEF Base, TypeOK, SetLobbyOptions, EffectivePublic
  <2>3. TypeOK'
    BY <1>0, <1>3, <2>1, <2>2 DEF Base, TypeOK, SetLobbyOptions
  <2>4. SessionsFollowPhases'
    BY <1>0, <1>3 DEF Base, TypeOK, SessionsFollowPhases, SetLobbyOptions
  <2> QED BY <2>3, <2>4 DEF Base
<1>4. CASE ModerationHandled(c)
  BY <1>4, BasePhaseOnly DEF ModerationHandled
<1>5. CASE ModerationCloses(c)
  BY <1>5, BasePhaseOnly DEF ModerationCloses
<1> QED BY <1>1, <1>2, <1>3, <1>4, <1>5 DEF Moderate

LEMMA BaseCleanup ==
  ASSUME Base, NEW c \in Conns, Cleanup(c)
  PROVE  Base'
<1>1. CASE CleanupSkipped(c)
  BY <1>1, BasePhaseOnly DEF CleanupSkipped
<1>2. CASE CleanupLastMember(c)
  <2>0. session[c].lobby_id \in LobbyIds /\ session[c].client_id \in ClientIds
    BY <1>2 DEF CleanupLastMember, IsRegistered, Base, TypeOK, Session
  <2>1. TypeOK'
    BY <1>2, <2>0, ConstantsAssumption
    DEF Base, TypeOK, CleanupLastMember, DeleteLobby, RemoveClient, Unmap
  <2>2. SessionsFollowPhases'
    BY <1>2 DEF Base, TypeOK, SessionsFollowPhases, CleanupLastMember, IsRegistered
  <2> QED BY <2>1, <2>2 DEF Base
<1>3. ASSUME NEW next \in ClientIds, CleanupLeaves(c, next)
      PROVE  Base'
  <2>0. session[c].lobby_id \in LobbyIds /\ session[c].client_id \in ClientIds
    BY <1>3 DEF CleanupLeaves, IsRegistered, Base, TypeOK, Session
  <2>1. TypeOK'
    BY <1>3, <2>0
    DEF Base, TypeOK, CleanupLeaves, NextHost, NowUnmuted, RemoveClient, RotateChatToken,
        Unmap
  <2>2. SessionsFollowPhases'
    BY <1>3 DEF Base, TypeOK, SessionsFollowPhases, CleanupLeaves, IsRegistered
  <2> QED BY <2>1, <2>2 DEF Base
<1> QED BY <1>1, <1>2, <1>3 DEF Cleanup

LEMMA BaseNext ==
  ASSUME Base, [Next]_vars
  PROVE  Base'
<1>1. ASSUME NEW c \in Conns, Accept(c) PROVE Base'
  <2>1. TypeOK'
    BY <1>1 DEF Base, TypeOK, Accept, registry
  <2>2. SessionsFollowPhases'
    BY <1>1 DEF Base, TypeOK, SessionsFollowPhases, Accept
  <2> QED BY <2>1, <2>2 DEF Base
<1>2. ASSUME NEW c \in Conns, PeerVanishes(c) PROVE Base'
  BY <1>2 DEF Base, TypeOK, SessionsFollowPhases, PeerVanishes, registry
<1>3. ASSUME NEW c \in Conns,
             \/ PeerEndsLoop(c) \/ TimeoutEndsLoop(c) \/ DisconnectEndsLoop(c)
             \/ MessageDone(c) \/ AnnounceDone(c) \/ PartingDone(c)
      PROVE  Base'
  BY <1>3, BasePhaseOnly
  DEF PeerEndsLoop, TimeoutEndsLoop, DisconnectEndsLoop, MessageDone, AnnounceDone,
      PartingDone
<1>4. ASSUME NEW c \in Conns, ReceiveMessage(c) PROVE Base'
  <2>1. CASE IsCurrentSession(session[c], c)
    BY <1>4, <2>1, BasePhaseOnly DEF ReceiveMessage, IsRegistered
  <2>2. CASE ~IsCurrentSession(session[c], c)
    BY <1>4, <2>2, BasePhaseOnly DEF ReceiveMessage, IsRegistered
  <2> QED BY <2>1, <2>2
<1>5. ASSUME NEW c \in Conns, CheckMapping(c) PROVE Base'
  <2>1. session[c] # None
    BY <1>5 DEF CheckMapping, Base, SessionsFollowPhases
  <2>2. CASE client_lobby_map[session[c].client_id] = session[c].lobby_id
    BY <1>5, <2>1, <2>2, BasePhaseOnly DEF CheckMapping
  <2>3. CASE client_lobby_map[session[c].client_id] # session[c].lobby_id
    BY <1>5, <2>1, <2>3, BasePhaseOnly DEF CheckMapping
  <2> QED BY <2>2, <2>3
<1>6. ASSUME NEW c \in Conns, NEW d \in Conns, SendFails(c, d) PROVE Base'
  BY <1>6 DEF Base, TypeOK, SessionsFollowPhases, SendFails, registry
<1>7. ASSUME NEW c \in Conns,
             CommitFoundStale(c) \/ WelcomeDone(c)
      PROVE  Base'
  <2>1. TypeOK'
    BY <1>7 DEF Base, TypeOK, CommitFoundStale, WelcomeDone, registry
  <2>2. SessionsFollowPhases'
    BY <1>7 DEF Base, TypeOK, SessionsFollowPhases, CommitFoundStale, WelcomeDone
  <2> QED BY <2>1, <2>2 DEF Base
<1>8. ASSUME NEW c \in Conns, CommitFoundCurrent(c) PROVE Base'
  BY <1>8 DEF Base, TypeOK, SessionsFollowPhases, CommitFoundCurrent, registry
<1>9. ASSUME NEW c \in Conns, SignalKicked(c) PROVE Base'
  <2>1. TypeOK'
    BY <1>9 DEF Base, TypeOK, SessionsFollowPhases, SignalKicked, registry
  <2>2. SessionsFollowPhases'
    BY <1>9 DEF Base, TypeOK, SessionsFollowPhases, SignalKicked
  <2> QED BY <2>1, <2>2 DEF Base
<1>10. ASSUME NEW key \in Sources \X LobbyIds, FailuresForgotten(key) PROVE Base'
  <2>1. failures' \in [Sources \X LobbyIds -> 0 .. MAX_FAILURES]
    BY <1>10, ConstantsAssumption DEF Base, TypeOK, FailuresForgotten
  <2> QED BY <1>10, <2>1
          DEF Base, TypeOK, SessionsFollowPhases, FailuresForgotten, registry, tasks
<1>11. CASE UNCHANGED vars
  BY <1>11 DEF Base, TypeOK, SessionsFollowPhases, vars, registry, tasks
<1> QED
  BY <1>1, <1>2, <1>3, <1>4, <1>5, <1>6, <1>7, <1>8, <1>9, <1>10, <1>11,
     BaseRegister, BaseModerate, BaseCleanup
  DEF Next, Proceed

\* Every reachable state has the types of TypeOK, whatever order registrations,
\* moderation, disconnects and cleanups come in.
THEOREM TypeCorrect == Spec => []TypeOK
<1>1. Spec => []Base
  BY BaseInit, BaseNext, PTL DEF Spec
<1>2. Base => TypeOK
  BY DEF Base
<1> QED BY <1>1, <1>2, PTL

(***************************************************************************)
(* The registry's safety.  The invariant adds to the parts of RegistryInv  *)
(* what a critical section relies on about the tasks: the connection that  *)
(* registers, kicks or cleans up is bound to the record it acts on.        *)
(***************************************************************************)
RegistryInv ==
  /\ LobbyIffMembers
  /\ HostIsMember
  /\ MutedAreGuests
  /\ MapMatchesMembership
  /\ VirtualIpsUnique
  /\ WithinCapacity
  /\ PublicIsPasswordless

IndInv == Base /\ RegistryInv /\ NoGhostMember

\* A step that leaves the registry alone keeps what only speaks of it.
LEMMA RegistryUnchanged ==
  ASSUME RegistryInv, UNCHANGED registry
  PROVE  RegistryInv'
<1>1. \A l : Members(l)' = Members(l)
  BY DEF Members, registry
<1> QED
  BY <1>1
  DEF RegistryInv, LobbyIffMembers, HostIsMember, MutedAreGuests,
      MapMatchesMembership, VirtualIpsUnique, WithinCapacity, PublicIsPasswordless,
      registry

LEMMA MembersFinite ==
  ASSUME NEW l
  PROVE  /\ IsFiniteSet(Members(l))
         /\ Cardinality(Members(l)) \in Nat
<1>1. Members(l) \subseteq ClientIds
  BY DEF Members
<1> QED BY <1>1, ConstantsAssumption, FS_Subset, FS_CardinalityType

\* What remove(id) on a lobby's clients does to the membership of every lobby.
LEMMA AfterRemoval ==
  ASSUME TypeOK, NEW l \in LobbyIds, NEW id \in ClientIds, RemoveClient(l, id)
  PROVE  /\ Members(l)' = Members(l) \ {id}
         /\ \A k \in LobbyIds \ {l} : Members(k)' = Members(k)
         /\ \A k \in LobbyIds : \A j \in Members(k)' : clients'[k][j] = clients[k][j]
  BY DEF TypeOK, RemoveClient, Members

\* The parts of the invariant that any departure keeps.
LEMMA RemovalKeeps ==
  ASSUME TypeOK, RegistryInv, NEW l \in LobbyIds, NEW id \in ClientIds,
         id \in Members(l), RemoveClient(l, id), Unmap(l, id)
  PROVE  MapMatchesMembership' /\ VirtualIpsUnique' /\ WithinCapacity'
<1>1. /\ Members(l)' = Members(l) \ {id}
      /\ \A k \in LobbyIds \ {l} : Members(k)' = Members(k)
      /\ \A k \in LobbyIds : \A j \in Members(k)' : clients'[k][j] = clients[k][j]
  BY AfterRemoval
<1>2. MapMatchesMembership'
  BY <1>1, ConstantsAssumption DEF TypeOK, RegistryInv, MapMatchesMembership, Unmap, Members
<1>3. VirtualIpsUnique'
  BY <1>1 DEF RegistryInv, VirtualIpsUnique
<1>4. WithinCapacity'
  <2> SUFFICES ASSUME NEW k \in LobbyIds
               PROVE  Cardinality(Members(k)') <= MAX_LOBBY_MEMBERS
    BY DEF WithinCapacity
  <2>1. Members(k)' \subseteq Members(k)
    BY <1>1
  <2>2. Cardinality(Members(k)') <= Cardinality(Members(k)) /\ Cardinality(Members(k)') \in Nat
    BY <2>1, MembersFinite, FS_Subset, FS_CardinalityType
  <2>3. Cardinality(Members(k)) <= MAX_LOBBY_MEMBERS
    BY DEF RegistryInv, WithinCapacity
  <2> QED BY <2>2, <2>3, MembersFinite, ConstantsAssumption
<1> QED BY <1>2, <1>3, <1>4

LEMMA RegistryKick ==
  ASSUME IndInv, NEW c \in Conns, NEW target \in ClientIds, KickPlayer(c, target)
  PROVE  RegistryInv'
<1>1. PICK l \in LobbyIds : l = session[c].lobby_id
  BY DEF KickPlayer, IndInv, Base, TypeOK, SessionsFollowPhases, Session
<1>2. /\ l \in lobbies /\ target # host_id[l] /\ target \in Members(l)
  BY <1>1 DEF KickPlayer, AuthorizeHost
<1>3. RemoveClient(l, target) /\ Unmap(l, target)
  BY <1>1 DEF KickPlayer
<1>4. MapMatchesMembership' /\ VirtualIpsUnique' /\ WithinCapacity'
  BY <1>1, <1>2, <1>3, RemovalKeeps DEF IndInv, Base
<1>5. Members(l)' = Members(l) \ {target} /\ \A k \in LobbyIds \ {l} : Members(k)' = Members(k)
  BY <1>1, <1>3, AfterRemoval DEF IndInv, Base
<1>6. /\ lobbies' = lobbies /\ host_id' = host_id /\ public' = public
      /\ password' = password /\ muted' = [muted EXCEPT ![l] = @ \ {target}]
  BY <1>1 DEF KickPlayer
<1>7. LobbyIffMembers' /\ HostIsMember'
  BY <1>1, <1>2, <1>5, <1>6
  DEF IndInv, Base, TypeOK, RegistryInv, LobbyIffMembers, HostIsMember
<1>8. MutedAreGuests'
  BY <1>1, <1>5, <1>6 DEF IndInv, Base, TypeOK, RegistryInv, MutedAreGuests
<1>9. PublicIsPasswordless'
  BY <1>6 DEF IndInv, RegistryInv, PublicIsPasswordless
<1> QED BY <1>4, <1>7, <1>8, <1>9 DEF RegistryInv

LEMMA RegistryMute ==
  ASSUME IndInv, NEW c \in Conns, NEW target \in ClientIds,
         \/ MutePlayer(c, target) \/ UnmutePlayer(c, target) \/ TransferHost(c, target)
  PROVE  RegistryInv'
<1>1. PICK l \in LobbyIds : l = session[c].lobby_id
  BY DEF MutePlayer, UnmutePlayer, TransferHost, IndInv, Base, TypeOK,
         SessionsFollowPhases, Session
<1>2. /\ UNCHANGED <<lobbies, clients, public, password, client_lobby_map>>
      /\ target \in Members(l)
  BY <1>1 DEF MutePlayer, UnmutePlayer, TransferHost
<1>3. \/ target # host_id[l] /\ host_id' = host_id
         /\ muted' = [muted EXCEPT ![l] = @ \cup {target}]
      \/ host_id' = host_id /\ muted' = [muted EXCEPT ![l] = @ \ {target}]
      \/ /\ host_id' = [host_id EXCEPT ![l] = target]
         /\ muted' = [muted EXCEPT ![l] = @ \ {target}]
  BY <1>1 DEF MutePlayer, UnmutePlayer, TransferHost
<1>4. \A k : Members(k)' = Members(k)
  BY <1>2 DEF Members
<1>5. LobbyIffMembers' /\ MapMatchesMembership' /\ VirtualIpsUnique' /\ WithinCapacity'
      /\ PublicIsPasswordless'
  BY <1>2, <1>4
  DEF IndInv, RegistryInv, LobbyIffMembers, MapMatchesMembership, VirtualIpsUnique,
      WithinCapacity, PublicIsPasswordless
<1>6. HostIsMember'
  BY <1>1, <1>2, <1>3, <1>4 DEF IndInv, Base, TypeOK, RegistryInv, HostIsMember
<1>7. MutedAreGuests'
  <2> SUFFICES ASSUME NEW k \in LobbyIds, NEW m \in muted'[k]
               PROVE  m \in Members(k) /\ m # host_id'[k]
    BY <1>4 DEF MutedAreGuests
  <2>1. k # l => muted'[k] = muted[k] /\ host_id'[k] = host_id[k]
    BY <1>3 DEF IndInv, Base, TypeOK
  <2>2. muted[k] \subseteq Members(k) \ {host_id[k]}
    BY DEF IndInv, RegistryInv, MutedAreGuests
  <2>3. CASE k # l
    BY <2>1, <2>2, <2>3
  <2>4. CASE k = l
    BY <1>1, <1>2, <1>3, <2>2, <2>4 DEF IndInv, Base, TypeOK
  <2> QED BY <2>3, <2>4
<1> QED BY <1>5, <1>6, <1>7 DEF RegistryInv

LEMMA RegistryOptions ==
  ASSUME IndInv, NEW c \in Conns, NEW max \in MaxRequests \cup {None},
         NEW is_public \in {"absent", "yes", "no"}, SetLobbyOptions(c, max, is_public)
  PROVE  RegistryInv'
<1>1. UNCHANGED <<lobbies, clients, host_id, password, muted, client_lobby_map>>
  BY DEF SetLobbyOptions
<1>2. \A k : Members(k)' = Members(k)
  BY <1>1 DEF Members
<1>3. PublicIsPasswordless'
  <2>1. session[c].lobby_id \in lobbies
    BY DEF SetLobbyOptions, AuthorizeHost
  <2>2. \A l \in public' : l \in public \/ (l = session[c].lobby_id /\ password[l] = EmptyPassword)
    BY DEF SetLobbyOptions, EffectivePublic
  <2> QED BY <1>1, <2>1, <2>2 DEF IndInv, RegistryInv, PublicIsPasswordless
<1> QED
  BY <1>1, <1>2, <1>3
  DEF IndInv, RegistryInv, LobbyIffMembers, HostIsMember, MutedAreGuests,
      MapMatchesMembership, VirtualIpsUnique, WithinCapacity

LEMMA RegistryLastMember ==
  ASSUME IndInv, NEW c \in Conns, CleanupLastMember(c)
  PROVE  RegistryInv'
<1>1. PICK l \in LobbyIds, id \in ClientIds :
        l = session[c].lobby_id /\ id = session[c].client_id
  BY DEF CleanupLastMember, IsRegistered, IndInv, Base, TypeOK, Session
<1>2. Members(l) = {id} /\ RemoveClient(l, id) /\ Unmap(l, id)
  BY <1>1 DEF CleanupLastMember
<1>3. MapMatchesMembership' /\ VirtualIpsUnique' /\ WithinCapacity'
  BY <1>2, RemovalKeeps DEF IndInv, Base
<1>4. Members(l)' = {} /\ \A k \in LobbyIds \ {l} : Members(k)' = Members(k)
  BY <1>2, AfterRemoval DEF IndInv, Base
<1>5. /\ lobbies' = lobbies \ {l} /\ public' = public \ {l}
      /\ host_id' = [host_id EXCEPT ![l] = None]
      /\ password' = [password EXCEPT ![l] = None]
      /\ muted' = [muted EXCEPT ![l] = {}]
  BY <1>1 DEF CleanupLastMember, DeleteLobby
<1>6. LobbyIffMembers' /\ HostIsMember'
  BY <1>4, <1>5 DEF IndInv, Base, TypeOK, RegistryInv, LobbyIffMembers, HostIsMember
<1>7. MutedAreGuests'
  BY <1>4, <1>5 DEF IndInv, Base, TypeOK, RegistryInv, MutedAreGuests
<1>8. PublicIsPasswordless'
  BY <1>5 DEF IndInv, Base, TypeOK, RegistryInv, PublicIsPasswordless
<1> QED BY <1>3, <1>6, <1>7, <1>8 DEF RegistryInv

LEMMA RegistryLeaves ==
  ASSUME IndInv, NEW c \in Conns, NEW next \in ClientIds, CleanupLeaves(c, next)
  PROVE  RegistryInv'
<1>1. PICK l \in LobbyIds, id \in ClientIds :
        l = session[c].lobby_id /\ id = session[c].client_id
  BY DEF CleanupLeaves, IsRegistered, IndInv, Base, TypeOK, Session
<1>2. /\ id \in Members(l) /\ next \in Members(l) /\ next # id
      /\ RemoveClient(l, id) /\ Unmap(l, id)
  BY <1>1 DEF CleanupLeaves, OwnsRecord, Members
<1>3. MapMatchesMembership' /\ VirtualIpsUnique' /\ WithinCapacity'
  BY <1>2, RemovalKeeps DEF IndInv, Base
<1>4. Members(l)' = Members(l) \ {id} /\ \A k \in LobbyIds \ {l} : Members(k)' = Members(k)
  BY <1>2, AfterRemoval DEF IndInv, Base
<1>5. UNCHANGED <<lobbies, public, password>>
  BY DEF CleanupLeaves
<1>6. \/ /\ host_id[l] = id /\ host_id' = [host_id EXCEPT ![l] = next]
         /\ muted' = [muted EXCEPT ![l] = @ \ {id, next}]
      \/ /\ host_id[l] # id /\ host_id' = host_id
         /\ muted' = [muted EXCEPT ![l] = @ \ {id}]
  BY <1>1 DEF CleanupLeaves, NextHost, NowUnmuted, IndInv, Base, TypeOK
<1>7. LobbyIffMembers' /\ PublicIsPasswordless'
  <2>1. next \in Members(l)'
    BY <1>2, <1>4
  <2>2. LobbyIffMembers'
    BY <1>2, <1>4, <1>5, <2>1 DEF IndInv, RegistryInv, LobbyIffMembers
  <2>3. PublicIsPasswordless'
    BY <1>5 DEF IndInv, RegistryInv, PublicIsPasswordless
  <2> QED BY <2>2, <2>3
<1>8. HostIsMember'
  BY <1>2, <1>4, <1>5, <1>6 DEF IndInv, Base, TypeOK, RegistryInv, HostIsMember
<1>9. MutedAreGuests'
  <2> SUFFICES ASSUME NEW k \in LobbyIds
               PROVE  muted'[k] \subseteq Members(k)' \ {host_id'[k]}
    BY DEF MutedAreGuests
  <2>1. muted[k] \subseteq Members(k) \ {host_id[k]}
    BY DEF IndInv, RegistryInv, MutedAreGuests
  <2>2. CASE k # l
    BY <1>4, <1>6, <2>1, <2>2 DEF IndInv, Base, TypeOK
  <2>3. CASE k = l
    BY <1>2, <1>4, <1>6, <2>1, <2>3 DEF IndInv, Base, TypeOK
  <2> QED BY <2>2, <2>3
<1> QED BY <1>3, <1>7, <1>8, <1>9 DEF RegistryInv

LEMMA RegistryCommit ==
  ASSUME IndInv, NEW c \in Conns, NEW r \in Requests, NEW g \in Generations,
         RegisterCommit(c, r, g)
  PROVE  RegistryInv'
<1>1. PICK l \in LobbyIds, id \in ClientIds, ip \in VirtualIps, pw \in Passwords :
        l = r.lobby_id /\ id = r.client_id /\ ip = r.virtual_ip /\ pw = r.password
  BY DEF Requests
<1> DEFINE info == [sender |-> c, generation |-> g, virtual_ip |-> ip]
<1>2. info \in ClientInfo /\ info # None
  <2>1. info \in ClientInfo
    BY DEF ClientInfo
  <2> QED BY <2>1, NoneIsNoClient
<1>3. clients' = [clients EXCEPT ![l] = [@ EXCEPT ![id] = info]]
  BY <1>1 DEF RegisterCommit
<1>4. info.virtual_ip = ip
  OBVIOUS
<1> HIDE DEF info
<1>5. /\ Members(l)' = Members(l) \cup {id}
      /\ \A k \in LobbyIds \ {l} : Members(k)' = Members(k)
      /\ clients'[l][id] = info
      /\ \A k \in LobbyIds : \A j \in ClientIds :
           ~(k = l /\ j = id) => clients'[k][j] = clients[k][j]
  BY <1>2, <1>3 DEF IndInv, Base, TypeOK, Members
<1>6. /\ lobbies' = lobbies \cup {l}
      /\ host_id' = [host_id EXCEPT ![l] = IF l \in lobbies THEN @ ELSE id]
      /\ password' = [password EXCEPT ![l] = IF l \in lobbies THEN @ ELSE pw]
      /\ client_lobby_map' = [client_lobby_map EXCEPT ![id] = l]
      /\ UNCHANGED <<public, muted>>
  BY <1>1 DEF RegisterCommit, CreateIfMissing
<1>7. \A k \in LobbyIds \ {l} : id \notin Members(k)
  BY <1>1 DEF RegisterCommit, Refused, InAnotherLobby, Members
<1>8. \A j \in Members(l) : j # id => clients[l][j].virtual_ip # ip
  BY <1>1 DEF RegisterCommit, VirtualIpInUse
<1>9. ~(Cardinality(Members(l)) >= MAX_LOBBY_MEMBERS)
  BY <1>1 DEF RegisterCommit, LobbyFull
<1>10. LobbyIffMembers'
  BY <1>5, <1>6 DEF IndInv, Base, TypeOK, RegistryInv, LobbyIffMembers
<1>11. HostIsMember'
  BY <1>5, <1>6 DEF IndInv, Base, TypeOK, RegistryInv, HostIsMember
<1>12. MutedAreGuests'
  <2> SUFFICES ASSUME NEW k \in LobbyIds
               PROVE  muted'[k] \subseteq Members(k)' \ {host_id'[k]}
    BY DEF MutedAreGuests
  <2>1. muted[k] \subseteq Members(k) \ {host_id[k]} /\ muted' = muted
    BY <1>6 DEF IndInv, RegistryInv, MutedAreGuests
  <2>2. k \notin lobbies => Members(k) = {}
    BY DEF IndInv, RegistryInv, LobbyIffMembers
  <2>3. k \in lobbies => host_id'[k] = host_id[k]
    BY <1>6 DEF IndInv, Base, TypeOK
  <2>4. Members(k) \subseteq Members(k)'
    BY <1>5
  <2> QED BY <2>1, <2>2, <2>3, <2>4
<1>13. MapMatchesMembership'
  BY <1>5, <1>6, <1>7 DEF IndInv, Base, TypeOK, RegistryInv, MapMatchesMembership, Members
<1>14. VirtualIpsUnique'
  <2> SUFFICES ASSUME NEW k \in LobbyIds, NEW i \in Members(k)', NEW j \in Members(k)',
                      clients'[k][i].virtual_ip = clients'[k][j].virtual_ip
               PROVE  i = j
    BY DEF VirtualIpsUnique
  <2>1. i \in ClientIds /\ j \in ClientIds
    BY DEF Members
  <2>2. CASE k # l
    BY <1>5, <2>1, <2>2 DEF IndInv, RegistryInv, VirtualIpsUnique
  <2>3. CASE k = l /\ i # id /\ j # id
    BY <1>5, <2>1, <2>3 DEF IndInv, RegistryInv, VirtualIpsUnique
  <2>4. CASE k = l /\ (i = id \/ j = id)
    BY <1>4, <1>5, <1>8, <2>1, <2>4
  <2> QED BY <2>2, <2>3, <2>4
<1>15. WithinCapacity'
  <2> SUFFICES ASSUME NEW k \in LobbyIds
               PROVE  Cardinality(Members(k)') <= MAX_LOBBY_MEMBERS
    BY DEF WithinCapacity
  <2>1. CASE k # l
    BY <1>5, <2>1 DEF IndInv, RegistryInv, WithinCapacity
  <2>2. CASE k = l
    <3>1. IsFiniteSet(Members(l)) /\ Cardinality(Members(l)) \in Nat
      BY MembersFinite
    <3>2. \/ Cardinality(Members(l) \cup {id}) = Cardinality(Members(l))
          \/ Cardinality(Members(l) \cup {id}) = Cardinality(Members(l)) + 1
      BY <3>1, FS_AddElement
    <3>3. Cardinality(Members(l) \cup {id}) <= MAX_LOBBY_MEMBERS
      BY <1>9, <3>1, <3>2, ConstantsAssumption
    <3> QED BY <1>5, <2>2, <3>3
  <2> QED BY <2>1, <2>2
<1>16. PublicIsPasswordless'
  BY <1>6 DEF IndInv, Base, TypeOK, RegistryInv, PublicIsPasswordless
<1> QED BY <1>10, <1>11, <1>12, <1>13, <1>14, <1>15, <1>16 DEF RegistryInv

(***************************************************************************)
(* No ghost members.                                                       *)
(***************************************************************************)

\* A step of task c disturbs no record of another task.
LEMMA GhostStep ==
  ASSUME IndInv, Base', NEW c \in Conns,
         \A d \in Conns \ {c} : /\ phase'[d] = phase[d]
                               /\ pending'[d] = pending[d]
                               /\ session'[d] = session[d],
         \A l \in LobbyIds : \A id \in Members(l)' :
           \/ clients'[l][id] = clients[l][id]
           \/ clients'[l][id].sender = c,
         \A l \in LobbyIds : \A id \in Members(l)' :
           clients'[l][id].sender = c => Owned(l, id)'
  PROVE  NoGhostMember'
<1> SUFFICES ASSUME NEW l \in LobbyIds, NEW id \in Members(l)',
                    clients'[l][id].sender # c
             PROVE  Owned(l, id)'
  BY DEF NoGhostMember
<1>1. clients'[l][id] = clients[l][id] /\ id \in Members(l)
  BY DEF Members
<1>2. Owned(l, id)
  BY <1>1 DEF IndInv, NoGhostMember
<1>3. clients[l][id].sender \in Conns \ {c}
  BY <1>1 DEF IndInv, Base, TypeOK, Members, ClientInfo
<1> QED BY <1>1, <1>2, <1>3 DEF Owned, Bound

\* A task without a session owns no record.
LEMMA UnboundOwnsNothing ==
  ASSUME IndInv, NEW c \in Conns, Bound(c) = None \/ phase[c] \in {"unborn", "parting", "gone"}
  PROVE  \A l \in LobbyIds : \A id \in Members(l) : clients[l][id].sender # c
<1> SUFFICES ASSUME NEW l \in LobbyIds, NEW id \in Members(l), clients[l][id].sender = c
             PROVE  FALSE
  OBVIOUS
<1>1. Owned(l, id)
  BY DEF IndInv, NoGhostMember
<1>2. Bound(c) \in Session
  BY <1>1 DEF Owned, Session, IndInv, Base, TypeOK, Members, ClientInfo
<1> QED BY <1>1, <1>2, NoneIsNoSession DEF Owned

\* A step that leaves clients alone and keeps task c alive and bound.
LEMMA GhostTaskStep ==
  ASSUME IndInv, Base', NEW c \in Conns, NEW p \in Phases, clients' = clients,
         phase' = [phase EXCEPT ![c] = p],
         \A d \in Conns \ {c} : pending'[d] = pending[d] /\ session'[d] = session[d],
         \/ p \notin {"unborn", "parting", "gone"} /\ Bound(c)' = Bound(c)
         \/ Bound(c) = None
         \/ phase[c] \in {"unborn", "parting", "gone"}
  PROVE  NoGhostMember'
<1>1. \A l : Members(l)' = Members(l)
  BY DEF Members
<1>2. \A d \in Conns \ {c} : phase'[d] = phase[d]
  BY DEF IndInv, Base, TypeOK
<1>3. ASSUME NEW l \in LobbyIds, NEW id \in Members(l)', clients'[l][id].sender = c
      PROVE  Owned(l, id)'
  <2>1. id \in Members(l) /\ clients[l][id].sender = c
    BY <1>1, <1>3
  <2>2. Owned(l, id)
    BY <2>1 DEF IndInv, NoGhostMember
  <2>3. p \notin {"unborn", "parting", "gone"} /\ Bound(c)' = Bound(c)
    BY <2>1, UnboundOwnsNothing
  <2>4. phase'[c] = p
    BY DEF IndInv, Base, TypeOK
  <2> QED BY <2>1, <2>2, <2>3, <2>4 DEF Owned
<1> QED BY <1>1, <1>2, <1>3, GhostStep

LEMMA GhostCommit ==
  ASSUME IndInv, Base', NEW c \in Conns, NEW r \in Requests, NEW g \in Generations,
         RegisterCommit(c, r, g)
  PROVE  NoGhostMember'
<1>1. PICK l \in LobbyIds, id \in ClientIds : l = r.lobby_id /\ id = r.client_id
  BY DEF Requests
<1>2. /\ pending' = [pending EXCEPT ![c] =
                       [client_id |-> id, lobby_id |-> l, generation |-> g]]
      /\ session' = session /\ phase' = [phase EXCEPT ![c] = "committed"]
      /\ clients' = [clients EXCEPT ![l] = [@ EXCEPT ![id] =
                       [sender |-> c, generation |-> g, virtual_ip |-> r.virtual_ip]]]
      /\ session[c] = None /\ phase[c] = "reading"
  BY <1>1 DEF RegisterCommit, Registering, IsRegistered
<1>3. \A d \in Conns \ {c} : /\ phase'[d] = phase[d] /\ pending'[d] = pending[d]
                             /\ session'[d] = session[d]
  BY <1>2 DEF IndInv, Base, TypeOK
<1>4. Bound(c) = None
  BY <1>2 DEF Bound, IndInv, Base, SessionsFollowPhases
<1>5. /\ phase'[c] = "committed" /\ session'[c] = None
      /\ pending'[c] = [client_id |-> id, lobby_id |-> l, generation |-> g]
  BY <1>2 DEF IndInv, Base, TypeOK
<1>6. Bound(c)' = [client_id |-> id, lobby_id |-> l, generation |-> g]
  BY <1>5 DEF Bound
<1>7. clients'[l][id] = [sender |-> c, generation |-> g, virtual_ip |-> r.virtual_ip]
  BY <1>2 DEF IndInv, Base, TypeOK
<1>8. \A k \in LobbyIds : \A j \in ClientIds :
        ~(k = l /\ j = id) => clients'[k][j] = clients[k][j]
  BY <1>2 DEF IndInv, Base, TypeOK
<1>9. \A k \in LobbyIds : \A j \in Members(k)' :
        \/ k = l /\ j = id
        \/ clients'[k][j] = clients[k][j] /\ j \in Members(k)
  BY <1>8 DEF Members
<1>10. ASSUME NEW k \in LobbyIds, NEW j \in Members(k)', clients'[k][j].sender = c
       PROVE  Owned(k, j)'
  <2>1. k = l /\ j = id
    BY <1>4, <1>9, <1>10, UnboundOwnsNothing
  <2> QED BY <1>5, <1>6, <1>7, <2>1 DEF Owned
<1>11. \A k \in LobbyIds : \A j \in Members(k)' :
         clients'[k][j] = clients[k][j] \/ clients'[k][j].sender = c
  BY <1>7, <1>9
<1> QED BY <1>3, <1>10, <1>11, GhostStep

\* A departure leaves the records of the other members, and their owners, alone.
LEMMA GhostRemoval ==
  ASSUME IndInv, Base', NEW c \in Conns, NEW p \in Phases,
         NEW l \in LobbyIds, NEW id \in ClientIds, RemoveClient(l, id),
         phase' = [phase EXCEPT ![c] = p], UNCHANGED <<pending, session>>,
         \/ p \notin {"unborn", "parting", "gone"}
         \/ \A k \in LobbyIds : \A j \in Members(k) :
              clients[k][j].sender = c => k = l /\ j = id
  PROVE  NoGhostMember'
<1>1. /\ Members(l)' = Members(l) \ {id}
      /\ \A k \in LobbyIds \ {l} : Members(k)' = Members(k)
      /\ \A k \in LobbyIds : \A j \in Members(k)' : clients'[k][j] = clients[k][j]
  BY AfterRemoval DEF IndInv, Base
<1>2. \A d \in Conns \ {c} : /\ phase'[d] = phase[d] /\ pending'[d] = pending[d]
                             /\ session'[d] = session[d]
  BY DEF IndInv, Base, TypeOK
<1>3. ASSUME NEW k \in LobbyIds, NEW j \in Members(k)', clients'[k][j].sender = c
      PROVE  Owned(k, j)'
  <2>1. j \in Members(k) /\ clients'[k][j] = clients[k][j] /\ ~(k = l /\ j = id)
    BY <1>1
  <2>2. Owned(k, j) /\ p \notin {"unborn", "parting", "gone"}
    BY <1>3, <2>1 DEF IndInv, NoGhostMember
  <2>3. phase'[c] = p /\ Bound(c)' = Bound(c)
    BY DEF Bound, IndInv, Base, TypeOK
  <2> QED BY <1>3, <2>1, <2>2, <2>3 DEF Owned
<1> QED BY <1>1, <1>2, <1>3, GhostStep

\* The one record whose socket is c's, if any, is the one c's session names.
LEMMA OwnsOnlyItsSession ==
  ASSUME IndInv, NEW c \in Conns, session[c] # None
  PROVE  \A k \in LobbyIds : \A j \in Members(k) :
           clients[k][j].sender = c =>
             k = session[c].lobby_id /\ j = session[c].client_id
<1> SUFFICES ASSUME NEW k \in LobbyIds, NEW j \in Members(k), clients[k][j].sender = c
             PROVE  k = session[c].lobby_id /\ j = session[c].client_id
  OBVIOUS
<1>1. Owned(k, j)
  BY DEF IndInv, NoGhostMember
<1> QED BY <1>1 DEF Owned, Bound

LEMMA GhostCleanup ==
  ASSUME IndInv, Base', NEW c \in Conns,
         CleanupLastMember(c) \/ \E next \in ClientIds : CleanupLeaves(c, next)
  PROVE  NoGhostMember'
<1>1. PICK l \in LobbyIds, id \in ClientIds :
        l = session[c].lobby_id /\ id = session[c].client_id
  BY DEF CleanupLastMember, CleanupLeaves, IsRegistered, IndInv, Base, TypeOK, Session
<1>2. /\ RemoveClient(l, id) /\ phase' = [phase EXCEPT ![c] = "parting"]
      /\ UNCHANGED <<pending, session>> /\ session[c] # None
  BY <1>1 DEF CleanupLastMember, CleanupLeaves, IsRegistered
<1> QED BY <1>1, <1>2, OwnsOnlyItsSession, GhostRemoval

LEMMA GhostSkipped ==
  ASSUME IndInv, Base', NEW c \in Conns, CleanupSkipped(c)
  PROVE  NoGhostMember'
<1>1. /\ clients' = clients /\ UNCHANGED <<pending, session>>
      /\ phase[c] = "ending" /\ phase' = [phase EXCEPT ![c] = "gone"]
  BY DEF CleanupSkipped, registry
<1>2. \A l : Members(l)' = Members(l)
  BY <1>1 DEF Members
<1>3. \A l \in LobbyIds : \A id \in Members(l) : clients[l][id].sender # c
  <2>1. CASE session[c] = None
    BY <1>1, <2>1, UnboundOwnsNothing DEF Bound, IndInv, Base, SessionsFollowPhases
  <2>2. CASE session[c] # None
    BY <2>2, OwnsOnlyItsSession DEF CleanupSkipped, IsRegistered, OwnsRecord, Members
  <2> QED BY <2>1, <2>2
<1>4. \A d \in Conns \ {c} : phase'[d] = phase[d]
  BY <1>1 DEF IndInv, Base, TypeOK
<1> QED BY <1>1, <1>2, <1>3, <1>4, GhostStep

LEMMA IndInvInit == Init => IndInv
<1> SUFFICES ASSUME Init PROVE IndInv
  OBVIOUS
<1>1. \A l \in LobbyIds : Members(l) = {}
  BY DEF Init, Members
<1>2. \A l \in LobbyIds : Cardinality(Members(l)) = 0
  BY <1>1, FS_EmptySet
<1>3. WithinCapacity
  BY <1>2, ConstantsAssumption DEF WithinCapacity
<1>4. RegistryInv
  BY <1>1, <1>3, ConstantsAssumption
  DEF Init, RegistryInv, LobbyIffMembers, HostIsMember, MutedAreGuests,
      MapMatchesMembership, VirtualIpsUnique, PublicIsPasswordless
<1> QED BY <1>1, <1>4, BaseInit DEF IndInv, NoGhostMember

LEMMA IndInvRegister ==
  ASSUME IndInv, Base', NEW c \in Conns, Register(c)
  PROVE  IndInv'
<1> PICK r \in Requests :
      \/ RegisterRefused(c, r)
      \/ RegisterWrongPassword(c, r)
      \/ RegisterRetry(c, r)
      \/ \E g \in Generations : RegisterCommit(c, r, g)
  BY DEF Register
<1>1. CASE RegisterRefused(c, r) \/ RegisterWrongPassword(c, r)
  <2>1. /\ UNCHANGED registry /\ UNCHANGED <<pending, session>>
        /\ phase' = [phase EXCEPT ![c] = "ending"]
    BY <1>1 DEF RegisterRefused, RegisterWrongPassword
  <2>2. NoGhostMember'
    BY <2>1, GhostTaskStep DEF registry, Bound
  <2> QED BY <2>1, <2>2, RegistryUnchanged DEF IndInv
<1>2. CASE RegisterRetry(c, r)
  <2>1. UNCHANGED registry /\ UNCHANGED <<phase, pending, session>>
    BY <1>2 DEF RegisterRetry, tasks
  <2>2. NoGhostMember'
    BY <2>1 DEF IndInv, NoGhostMember, Owned, Bound, Members, registry
  <2> QED BY <2>1, <2>2, RegistryUnchanged DEF IndInv
<1>3. ASSUME NEW g \in Generations, RegisterCommit(c, r, g)
      PROVE  IndInv'
  BY <1>3, RegistryCommit, GhostCommit DEF IndInv
<1> QED BY <1>1, <1>2, <1>3

LEMMA IndInvModerate ==
  ASSUME IndInv, Base', NEW c \in Conns, Moderate(c)
  PROVE  IndInv'
<1>1. ASSUME NEW target \in ClientIds, KickPlayer(c, target)
      PROVE  IndInv'
  <2>1. PICK l \in LobbyIds : l = session[c].lobby_id
    BY <1>1 DEF KickPlayer, IndInv, Base, TypeOK, SessionsFollowPhases, Session
  <2>2. /\ RemoveClient(l, target) /\ UNCHANGED <<pending, session>>
        /\ phase' = [phase EXCEPT ![c] = "kicking"]
    BY <1>1, <2>1 DEF KickPlayer
  <2>3. NoGhostMember'
    BY <2>2, GhostRemoval
  <2> QED BY <1>1, <2>3, RegistryKick DEF IndInv
<1>2. ASSUME NEW target \in ClientIds,
             \/ MutePlayer(c, target) \/ UnmutePlayer(c, target)
             \/ TransferHost(c, target)
      PROVE  IndInv'
  <2>1. /\ clients' = clients /\ UNCHANGED <<pending, session>>
        /\ phase' = [phase EXCEPT ![c] = "announcing"]
    BY <1>2 DEF MutePlayer, UnmutePlayer, TransferHost
  <2>2. NoGhostMember'
    BY <2>1, GhostTaskStep DEF Bound
  <2> QED BY <1>2, <2>2, RegistryMute DEF IndInv
<1>3. ASSUME NEW max \in MaxRequests \cup {None},
             NEW is_public \in {"absent", "yes", "no"},
             SetLobbyOptions(c, max, is_public)
      PROVE  IndInv'
  <2>1. /\ clients' = clients /\ UNCHANGED <<pending, session>>
        /\ phase' = [phase EXCEPT ![c] = "announcing"]
    BY <1>3 DEF SetLobbyOptions
  <2>2. NoGhostMember'
    BY <2>1, GhostTaskStep DEF Bound
  <2> QED BY <1>3, <2>2, RegistryOptions DEF IndInv
<1>4. CASE ModerationHandled(c) \/ ModerationCloses(c)
  <2>1. /\ UNCHANGED registry /\ UNCHANGED <<pending, session>>
        /\ \E p \in {"reading", "ending"} : phase' = [phase EXCEPT ![c] = p]
    BY <1>4 DEF ModerationHandled, ModerationCloses
  <2>2. NoGhostMember'
    BY <2>1, GhostTaskStep DEF registry, Bound
  <2> QED BY <2>1, <2>2, RegistryUnchanged DEF IndInv
<1> QED BY <1>1, <1>2, <1>3, <1>4 DEF Moderate

LEMMA IndInvCleanup ==
  ASSUME IndInv, Base', NEW c \in Conns, Cleanup(c)
  PROVE  IndInv'
<1>1. CASE CleanupSkipped(c)
  <2>1. UNCHANGED registry
    BY <1>1 DEF CleanupSkipped
  <2> QED BY <1>1, <2>1, GhostSkipped, RegistryUnchanged DEF IndInv
<1>2. CASE CleanupLastMember(c)
  BY <1>2, GhostCleanup, RegistryLastMember DEF IndInv
<1>3. ASSUME NEW next \in ClientIds, CleanupLeaves(c, next)
      PROVE  IndInv'
  BY <1>3, GhostCleanup, RegistryLeaves DEF IndInv
<1> QED BY <1>1, <1>2, <1>3 DEF Cleanup

LEMMA IndInvNext ==
  ASSUME IndInv, [Next]_vars
  PROVE  IndInv'
<1>0. Base'
  BY BaseNext DEF IndInv
<1>1. ASSUME NEW c \in Conns,
             \/ Accept(c) \/ PeerEndsLoop(c) \/ TimeoutEndsLoop(c)
             \/ DisconnectEndsLoop(c) \/ ReceiveMessage(c) \/ MessageDone(c)
             \/ CheckMapping(c) \/ CommitFoundCurrent(c) \/ SignalKicked(c)
             \/ AnnounceDone(c)
      PROVE  IndInv'
  <2>1. /\ UNCHANGED registry /\ UNCHANGED <<pending, session>>
        /\ \E p \in {"reading", "ending", "checked", "mapped", "welcoming", "announcing"} :
             phase' = [phase EXCEPT ![c] = p]
    BY <1>1
    DEF Accept, PeerEndsLoop, TimeoutEndsLoop, DisconnectEndsLoop, ReceiveMessage,
        MessageDone, CheckMapping, CommitFoundCurrent, SignalKicked, AnnounceDone
  <2>2. NoGhostMember'
    BY <1>0, <2>1, GhostTaskStep DEF registry, Bound
  <2> QED BY <1>0, <2>1, <2>2, RegistryUnchanged DEF IndInv
<1>2. ASSUME NEW c \in Conns, PartingDone(c)
      PROVE  IndInv'
  <2>1. /\ UNCHANGED registry /\ UNCHANGED <<pending, session>>
        /\ phase[c] = "parting" /\ phase' = [phase EXCEPT ![c] = "gone"]
    BY <1>2 DEF PartingDone
  <2>2. NoGhostMember'
    BY <1>0, <2>1, GhostTaskStep DEF registry
  <2> QED BY <1>0, <2>1, <2>2, RegistryUnchanged DEF IndInv
<1>3. ASSUME NEW c \in Conns, CommitFoundStale(c) \/ WelcomeDone(c)
      PROVE  IndInv'
  <2>1. /\ UNCHANGED registry /\ phase[c] \in {"committed", "welcoming"}
        /\ session' = [session EXCEPT ![c] = pending[c]]
        /\ pending' = [pending EXCEPT ![c] = None]
        /\ \E p \in {"reading", "ending"} : phase' = [phase EXCEPT ![c] = p]
    BY <1>3 DEF CommitFoundStale, WelcomeDone
  <2>2. pending[c] # None /\ session[c] = None
    BY <2>1 DEF IndInv, Base, SessionsFollowPhases
  <2>3. session'[c] = pending[c]
    BY <2>1 DEF IndInv, Base, TypeOK
  <2>4. Bound(c)' = Bound(c)
    BY <2>2, <2>3 DEF Bound
  <2>5. \A d \in Conns \ {c} : pending'[d] = pending[d] /\ session'[d] = session[d]
    BY <2>1 DEF IndInv, Base, TypeOK
  <2>6. NoGhostMember'
    BY <1>0, <2>1, <2>4, <2>5, GhostTaskStep DEF registry
  <2> QED BY <1>0, <2>1, <2>6, RegistryUnchanged DEF IndInv
<1>4. ASSUME UNCHANGED registry, UNCHANGED <<phase, pending, session>>
      PROVE  IndInv'
  <2>1. NoGhostMember'
    BY <1>4 DEF IndInv, NoGhostMember, Owned, Bound, Members, registry
  <2> QED BY <1>0, <1>4, <2>1, RegistryUnchanged DEF IndInv
<1>5. ASSUME NEW c \in Conns, PeerVanishes(c) \/ \E d \in Conns : SendFails(c, d)
      PROVE  IndInv'
  BY <1>4, <1>5 DEF PeerVanishes, SendFails
<1>6. ASSUME NEW key \in Sources \X LobbyIds, FailuresForgotten(key)
      PROVE  IndInv'
  BY <1>4, <1>6 DEF FailuresForgotten, tasks
<1>7. CASE UNCHANGED vars
  BY <1>4, <1>7 DEF vars, tasks
<1> QED
  BY <1>0, <1>1, <1>2, <1>3, <1>5, <1>6, <1>7, IndInvRegister, IndInvModerate,
     IndInvCleanup
  DEF Next, Proceed

LEMMA Invariance == Spec => []IndInv
  BY IndInvInit, IndInvNext, PTL DEF Spec

\* Whatever interleaving of registrations, kicks, reconnects and cleanups: a
\* lobby exists exactly while it has members, its host is one of them, and only
\* other members are muted.
THEOREM LobbiesAreWellFormed ==
  Spec => []LobbiesWellFormed
<1>1. IndInv => LobbiesWellFormed
  BY DEF IndInv, RegistryInv, LobbiesWellFormed
<1> QED BY <1>1, Invariance, PTL

\* client_lobby_map and the lobbies' members always agree, so that no identity
\* is in two lobbies.
THEOREM MapAgrees == Spec => []MapMatchesMembership
<1>1. IndInv => MapMatchesMembership
  BY DEF IndInv, RegistryInv
<1> QED BY <1>1, Invariance, PTL

\* No lobby exceeds its capacity or holds a virtual address twice.
THEOREM CapacityAndAddresses == Spec => [](WithinCapacity /\ VirtualIpsUnique)
<1>1. IndInv => WithinCapacity /\ VirtualIpsUnique
  BY DEF IndInv, RegistryInv
<1> QED BY <1>1, Invariance, PTL

\* A lobby with a password is never listed.
THEOREM ListedWithoutPassword == Spec => []PublicIsPasswordless
<1>1. IndInv => PublicIsPasswordless
  BY DEF IndInv, RegistryInv
<1> QED BY <1>1, Invariance, PTL

\* Each member's record is owned by a live task that will clean it up.
THEOREM NoGhosts == Spec => []NoGhostMember
<1>1. IndInv => NoGhostMember
  BY DEF IndInv
<1> QED BY <1>1, Invariance, PTL

(***************************************************************************)
(* Action properties.  Only commit, kick and cleanup change a record, only *)
(* those and transfer_host the host.                                       *)
(***************************************************************************)
Quiet == clients' = clients /\ host_id' = host_id /\ epoch' = epoch

LEMMA QuietSteps ==
  ASSUME [Next]_vars
  PROVE  \/ Quiet
         \/ \E c \in Conns, r \in Requests, g \in Generations : RegisterCommit(c, r, g)
         \/ \E c \in Conns, target \in ClientIds :
              KickPlayer(c, target) \/ TransferHost(c, target)
         \/ \E c \in Conns : CleanupLastMember(c)
         \/ \E c \in Conns, next \in ClientIds : CleanupLeaves(c, next)
<1>1. ASSUME UNCHANGED registry PROVE Quiet
  BY <1>1 DEF registry, Quiet
<1>2. ASSUME NEW c \in Conns,
             \/ Accept(c) \/ PeerVanishes(c) \/ PeerEndsLoop(c) \/ DisconnectEndsLoop(c)
             \/ ReceiveMessage(c) \/ \E d \in Conns : SendFails(c, d)
      PROVE  Quiet
  BY <1>1, <1>2
  DEF Accept, PeerVanishes, PeerEndsLoop, DisconnectEndsLoop, ReceiveMessage, SendFails
<1>3. ASSUME NEW c \in Conns, NEW r \in Requests,
             RegisterRefused(c, r) \/ RegisterWrongPassword(c, r) \/ RegisterRetry(c, r)
      PROVE  Quiet
  BY <1>1, <1>3 DEF RegisterRefused, RegisterWrongPassword, RegisterRetry
<1>4. ASSUME NEW c \in Conns,
             \/ CommitFoundStale(c) \/ CommitFoundCurrent(c) \/ WelcomeDone(c)
             \/ MessageDone(c) \/ CheckMapping(c) \/ SignalKicked(c) \/ AnnounceDone(c)
             \/ TimeoutEndsLoop(c) \/ CleanupSkipped(c) \/ PartingDone(c)
             \/ ModerationHandled(c) \/ ModerationCloses(c)
      PROVE  Quiet
  BY <1>1, <1>4
  DEF CommitFoundStale, CommitFoundCurrent, WelcomeDone, MessageDone, CheckMapping,
      SignalKicked, AnnounceDone, TimeoutEndsLoop, CleanupSkipped, PartingDone,
      ModerationHandled, ModerationCloses
<1>5. ASSUME NEW c \in Conns, NEW target \in ClientIds,
             MutePlayer(c, target) \/ UnmutePlayer(c, target)
      PROVE  Quiet
  BY <1>5 DEF MutePlayer, UnmutePlayer, Quiet
<1>6. ASSUME NEW c \in Conns, NEW max, NEW is_public, SetLobbyOptions(c, max, is_public)
      PROVE  Quiet
  BY <1>6 DEF SetLobbyOptions, Quiet
<1>7. ASSUME NEW key, FailuresForgotten(key) PROVE Quiet
  BY <1>1, <1>7 DEF FailuresForgotten
<1>8. CASE UNCHANGED vars
  BY <1>1, <1>8 DEF vars
<1> QED
  BY <1>2, <1>3, <1>4, <1>5, <1>6, <1>7, <1>8
  DEF Next, Register, Proceed, Moderate, Cleanup

\* The task that kicks or transfers is the current session of the host.
LEMMA AuthorizedActs ==
  ASSUME IndInv, NEW c \in Conns, phase[c] = "mapped", AuthorizeHost(c)
  PROVE  HostActs(session[c].lobby_id, c)
<1>1. session[c].client_id \in ClientIds /\ session[c].lobby_id \in LobbyIds
  BY DEF IndInv, Base, TypeOK, SessionsFollowPhases, Session
<1> QED BY <1>1 DEF AuthorizeHost, IsCurrentSession, HostActs, Members

\* An old socket never alters the record of its replacement, for any number of
\* connections and clients.
THEOREM OldSocketsAreHarmless == Spec => RecordsChangeOnlyByRight
<1>1. ASSUME IndInv, [Next]_vars PROVE RecordStep
  <2> USE <1>1
  <2> SUFFICES ASSUME NEW k \in LobbyIds, NEW j \in Members(k),
                      clients'[k][j] # clients[k][j]
               PROVE
                 \/ /\ clients'[k][j] = None
                    /\ phase[clients[k][j].sender] = "ending"
                 \/ /\ clients'[k][j] # None
                    /\ phase[clients'[k][j].sender] = "reading"
                    /\ session[clients'[k][j].sender] = None
                    /\ clients[k][j].sender \in disconnect'
                 \/ /\ clients'[k][j] = None
                    /\ j # host_id[k]
                    /\ \E h \in Conns : HostActs(k, h) /\ victim'[h] = clients[k][j].sender
    BY DEF RecordStep
  <2>0. j \in ClientIds
    BY DEF Members
  <2>1. ASSUME NEW c \in Conns, NEW r \in Requests, NEW g \in Generations,
               RegisterCommit(c, r, g)
        PROVE  /\ clients'[k][j] # None
               /\ phase[clients'[k][j].sender] = "reading"
               /\ session[clients'[k][j].sender] = None
               /\ clients[k][j].sender \in disconnect'
    <3>1. PICK l \in LobbyIds, id \in ClientIds, ip \in VirtualIps :
            l = r.lobby_id /\ id = r.client_id /\ ip = r.virtual_ip
      BY DEF Requests
    <3>2. clients' = [clients EXCEPT ![l] = [@ EXCEPT ![id] =
                        [sender |-> c, generation |-> g, virtual_ip |-> ip]]]
      BY <2>1, <3>1 DEF RegisterCommit
    <3>3. k = l /\ j = id
      BY <2>0, <3>2 DEF IndInv, Base, TypeOK
    <3>4. clients'[k][j] = [sender |-> c, generation |-> g, virtual_ip |-> ip]
      BY <3>2, <3>3 DEF IndInv, Base, TypeOK
    <3>5. [sender |-> c, generation |-> g, virtual_ip |-> ip] \in ClientInfo
      BY DEF ClientInfo
    <3>6. phase[c] = "reading" /\ session[c] = None
      BY <2>1 DEF RegisterCommit, Registering, IsRegistered
    <3>7. clients[k][j].sender \in disconnect'
      BY <2>1, <3>1, <3>3 DEF RegisterCommit, SignalPrevious, Members
    <3> QED BY <3>4, <3>5, <3>6, <3>7, NoneIsNoClient
  <2>2. ASSUME NEW c \in Conns, NEW target \in ClientIds, KickPlayer(c, target)
        PROVE  /\ clients'[k][j] = None
               /\ j # host_id[k]
               /\ \E h \in Conns : HostActs(k, h) /\ victim'[h] = clients[k][j].sender
    <3>1. PICK l \in LobbyIds : l = session[c].lobby_id
      BY <2>2 DEF KickPlayer, IndInv, Base, TypeOK, SessionsFollowPhases, Session
    <3>2. clients' = [clients EXCEPT ![l] = [@ EXCEPT ![target] = None]]
      BY <2>2, <3>1 DEF KickPlayer, RemoveClient
    <3>3. k = l /\ j = target /\ clients'[k][j] = None
      BY <2>0, <3>2 DEF IndInv, Base, TypeOK
    <3>4. HostActs(l, c) /\ j # host_id[k]
      BY <2>2, <3>1, <3>3, AuthorizedActs DEF KickPlayer, AuthorizeHost
    <3>5. victim'[c] = clients[k][j].sender
      BY <2>2, <3>1, <3>3 DEF KickPlayer, IndInv, Base, TypeOK
    <3> QED BY <3>3, <3>4, <3>5
  <2>3. ASSUME NEW c \in Conns,
               CleanupLastMember(c) \/ \E next \in ClientIds : CleanupLeaves(c, next)
        PROVE  clients'[k][j] = None /\ phase[clients[k][j].sender] = "ending"
    <3>1. PICK l \in LobbyIds, id \in ClientIds :
            l = session[c].lobby_id /\ id = session[c].client_id
      BY <2>3 DEF CleanupLastMember, CleanupLeaves, IsRegistered, IndInv, Base, TypeOK,
                  Session
    <3>2. /\ clients' = [clients EXCEPT ![l] = [@ EXCEPT ![id] = None]]
          /\ phase[c] = "ending" /\ clients[l][id].sender = c
      BY <2>3, <3>1 DEF CleanupLastMember, CleanupLeaves, RemoveClient, OwnsRecord
    <3> QED BY <2>0, <3>2 DEF IndInv, Base, TypeOK
  <2>4. ASSUME NEW c \in Conns, NEW target \in ClientIds, TransferHost(c, target)
        PROVE  FALSE
    BY <2>4 DEF TransferHost
  <2> QED BY <2>1, <2>2, <2>3, <2>4, QuietSteps DEF Quiet
<1> QED BY <1>1, Invariance, PTL DEF Spec, RecordsChangeOnlyByRight

\* The role of host moves only by the host's current session or on its departure.
THEOREM HostRoleIsSafe == Spec => HostChangesOnlyByRight
<1>1. ASSUME IndInv, [Next]_vars PROVE HostStep
  <2> USE <1>1
  <2> SUFFICES ASSUME NEW k \in lobbies \cap lobbies', host_id'[k] # host_id[k]
               PROVE  clients'[k][host_id[k]] = None \/ \E h \in Conns : HostActs(k, h)
    BY DEF HostStep
  <2>0. k \in LobbyIds /\ k \in lobbies
    BY DEF IndInv, Base, TypeOK
  <2>1. ASSUME NEW c \in Conns, NEW r \in Requests, NEW g \in Generations,
               RegisterCommit(c, r, g)
        PROVE  FALSE
    <3>1. host_id' = [host_id EXCEPT ![r.lobby_id] =
                        IF r.lobby_id \in lobbies THEN @ ELSE r.client_id]
      BY <2>1 DEF RegisterCommit, CreateIfMissing
    <3> QED BY <2>0, <3>1 DEF IndInv, Base, TypeOK
  <2>2. ASSUME NEW c \in Conns, NEW target \in ClientIds, KickPlayer(c, target)
        PROVE  FALSE
    BY <2>2 DEF KickPlayer
  <2>3. ASSUME NEW c \in Conns, NEW target \in ClientIds, TransferHost(c, target)
        PROVE  HostActs(k, c)
    <3>1. host_id' = [host_id EXCEPT ![session[c].lobby_id] = target]
      BY <2>3 DEF TransferHost
    <3>2. k = session[c].lobby_id
      BY <2>0, <3>1 DEF IndInv, Base, TypeOK
    <3> QED BY <2>3, <3>2, AuthorizedActs DEF TransferHost
  <2>4. ASSUME NEW c \in Conns, CleanupLastMember(c)
        PROVE  FALSE
    <3>1. /\ lobbies' = lobbies \ {session[c].lobby_id}
          /\ host_id' = [host_id EXCEPT ![session[c].lobby_id] = None]
      BY <2>4 DEF CleanupLastMember, DeleteLobby
    <3> QED BY <2>0, <3>1 DEF IndInv, Base, TypeOK
  <2>5. ASSUME NEW c \in Conns, NEW next \in ClientIds, CleanupLeaves(c, next)
        PROVE  clients'[k][host_id[k]] = None
    <3>1. PICK l \in LobbyIds, id \in ClientIds :
            l = session[c].lobby_id /\ id = session[c].client_id
      BY <2>5 DEF CleanupLeaves, IsRegistered, IndInv, Base, TypeOK, Session
    <3>2. /\ clients' = [clients EXCEPT ![l] = [@ EXCEPT ![id] = None]]
          /\ host_id' = IF host_id[l] = id THEN [host_id EXCEPT ![l] = next] ELSE host_id
      BY <2>5, <3>1 DEF CleanupLeaves, NextHost, RemoveClient, IndInv, Base, TypeOK
    <3>3. k = l /\ host_id[l] = id
      BY <2>0, <3>2 DEF IndInv, Base, TypeOK
    <3> QED BY <3>2, <3>3 DEF IndInv, Base, TypeOK
  <2> QED BY <2>1, <2>2, <2>3, <2>4, <2>5, QuietSteps DEF Quiet
<1> QED BY <1>1, Invariance, PTL DEF Spec, HostChangesOnlyByRight

\* A lobby that no step of its own touched has the same sockets as before.
LEMMA SendersUnchanged ==
  ASSUME NEW k, clients'[k] = clients[k]
  PROVE  Senders(k)' = Senders(k)
  BY DEF Senders, Members

\* No change of a lobby's sockets leaves its chat token in force.
THEOREM TokenFollowsMembership == Spec => MembershipChangeRotatesToken
<1>1. ASSUME IndInv, [Next]_vars PROVE TokenStep
  <2> USE <1>1
  <2> SUFFICES ASSUME NEW k \in lobbies \cap lobbies'
               PROVE  /\ epoch'[k] >= epoch[k]
                      /\ Senders(k)' # Senders(k) => epoch'[k] > epoch[k]
    BY DEF TokenStep
  <2>0. k \in LobbyIds /\ k \in lobbies /\ epoch[k] \in Nat
    BY DEF IndInv, Base, TypeOK
  <2>1. ASSUME NEW l \in LobbyIds, epoch' = [epoch EXCEPT ![l] = @ + 1],
               \A m \in LobbyIds \ {l} : clients'[m] = clients[m]
        PROVE  /\ epoch'[k] >= epoch[k]
               /\ Senders(k)' # Senders(k) => epoch'[k] > epoch[k]
    <3>1. CASE k = l
      BY <2>0, <2>1, <3>1 DEF IndInv, Base, TypeOK
    <3>2. CASE k # l
      BY <2>0, <2>1, <3>2, SendersUnchanged DEF IndInv, Base, TypeOK
    <3> QED BY <3>1, <3>2
  <2>2. ASSUME NEW c \in Conns, NEW r \in Requests, NEW g \in Generations,
               RegisterCommit(c, r, g)
        PROVE  /\ epoch'[k] >= epoch[k]
               /\ Senders(k)' # Senders(k) => epoch'[k] > epoch[k]
    <3>1. PICK l \in LobbyIds, id \in ClientIds : l = r.lobby_id /\ id = r.client_id
      BY DEF Requests
    <3>2. \A m \in LobbyIds \ {l} : clients'[m] = clients[m]
      BY <2>2, <3>1 DEF RegisterCommit, IndInv, Base, TypeOK
    <3>3. CASE l \in lobbies
      <4>1. Members(l) # {}
        BY <3>3 DEF IndInv, RegistryInv, LobbyIffMembers
      <4>2. epoch' = [epoch EXCEPT ![l] = @ + 1]
        BY <2>2, <3>1, <3>3, <4>1 DEF RegisterCommit, TokenForJoin
      <4> QED BY <2>1, <3>2, <4>2
    <3>4. CASE l \notin lobbies
      <4>1. k # l /\ epoch'[k] = epoch[k]
        BY <2>0, <2>2, <3>1, <3>4 DEF RegisterCommit, TokenForJoin, IndInv, Base, TypeOK
      <4> QED BY <2>0, <3>2, <4>1, SendersUnchanged
    <3> QED BY <3>3, <3>4
  <2>3. ASSUME NEW c \in Conns, NEW target \in ClientIds, KickPlayer(c, target)
        PROVE  /\ epoch'[k] >= epoch[k]
               /\ Senders(k)' # Senders(k) => epoch'[k] > epoch[k]
    <3>1. PICK l \in LobbyIds : l = session[c].lobby_id
      BY <2>3 DEF KickPlayer, IndInv, Base, TypeOK, SessionsFollowPhases, Session
    <3>2. \A m \in LobbyIds \ {l} : clients'[m] = clients[m]
      BY <2>3, <3>1 DEF KickPlayer, RemoveClient, IndInv, Base, TypeOK
    <3> QED BY <2>1, <2>3, <3>1, <3>2 DEF KickPlayer, RotateChatToken
  <2>4. ASSUME NEW c \in Conns, NEW next \in ClientIds, CleanupLeaves(c, next)
        PROVE  /\ epoch'[k] >= epoch[k]
               /\ Senders(k)' # Senders(k) => epoch'[k] > epoch[k]
    <3>1. PICK l \in LobbyIds : l = session[c].lobby_id
      BY <2>4 DEF CleanupLeaves, IsRegistered, IndInv, Base, TypeOK, Session
    <3>2. \A m \in LobbyIds \ {l} : clients'[m] = clients[m]
      BY <2>4, <3>1 DEF CleanupLeaves, RemoveClient, IndInv, Base, TypeOK
    <3> QED BY <2>1, <2>4, <3>1, <3>2 DEF CleanupLeaves, RotateChatToken
  <2>5. ASSUME NEW c \in Conns, CleanupLastMember(c)
        PROVE  epoch'[k] = epoch[k] /\ clients'[k] = clients[k]
    <3>1. /\ lobbies' = lobbies \ {session[c].lobby_id}
          /\ epoch' = [epoch EXCEPT ![session[c].lobby_id] = 0]
          /\ RemoveClient(session[c].lobby_id, session[c].client_id)
      BY <2>5 DEF CleanupLastMember, DeleteLobby
    <3> QED BY <2>0, <3>1 DEF RemoveClient, IndInv, Base, TypeOK
  <2>6. ASSUME NEW c \in Conns, NEW target \in ClientIds, TransferHost(c, target)
        PROVE  epoch'[k] = epoch[k] /\ clients'[k] = clients[k]
    BY <2>6 DEF TransferHost
  <2>7. epoch'[k] = epoch[k] /\ clients'[k] = clients[k] =>
          /\ epoch'[k] >= epoch[k]
          /\ Senders(k)' # Senders(k) => epoch'[k] > epoch[k]
    BY <2>0, SendersUnchanged
  <2> QED BY <2>2, <2>3, <2>4, <2>5, <2>6, <2>7, QuietSteps DEF Quiet
<1> QED BY <1>1, Invariance, PTL DEF Spec, MembershipChangeRotatesToken

(***************************************************************************)
(* Whoever loses its record is told.  Only commit, kick and cleanup take a *)
(* record away; the first tells the loser at once, the kick leaves it to   *)
(* its own task, and a cleanup is the loser's own.                         *)
(***************************************************************************)
Told(d) == d \in disconnect \/ \E h \in Conns : victim[h] = d

Active(d) == Bound(d) # None /\ phase[d] \notin {"parting", "gone"}

\* Whoever was told to end, or is about to be, stays so.
LEMMA ToldStays ==
  ASSUME IndInv, [Next]_vars, NEW d \in Conns, Told(d)
  PROVE  Told(d)'
<1>1. ASSUME disconnect \subseteq disconnect', victim' = victim
      PROVE  Told(d)'
  BY <1>1 DEF Told
<1>2. ASSUME NEW c \in Conns, SignalKicked(c)
      PROVE  Told(d)'
  BY <1>2 DEF SignalKicked, Told, IndInv, Base, TypeOK
<1>3. ASSUME NEW c \in Conns, NEW target \in ClientIds, KickPlayer(c, target)
      PROVE  Told(d)'
  <2>1. victim[c] = None
    BY <1>3 DEF KickPlayer, IndInv, Base, SessionsFollowPhases
  <2>2. /\ disconnect' = disconnect
        /\ \A h \in Conns \ {c} : victim'[h] = victim[h]
    BY <1>3 DEF KickPlayer, IndInv, Base, TypeOK
  <2> QED BY <2>1, <2>2, ConstantsAssumption DEF Told
<1>4. ASSUME NEW c \in Conns, NEW r \in Requests,
             \/ RegisterRefused(c, r) \/ RegisterWrongPassword(c, r) \/ RegisterRetry(c, r)
             \/ \E g \in Generations : RegisterCommit(c, r, g)
      PROVE  Told(d)'
  <2>1. disconnect \subseteq disconnect' /\ victim' = victim
    BY <1>4
    DEF RegisterRefused, RegisterWrongPassword, RegisterRetry, RegisterCommit, SignalPrevious, tasks
  <2> QED BY <2>1, <1>1
<1>5. ASSUME NEW c \in Conns, NEW target \in ClientIds,
             \/ MutePlayer(c, target) \/ UnmutePlayer(c, target) \/ TransferHost(c, target)
      PROVE  Told(d)'
  BY <1>1, <1>5 DEF MutePlayer, UnmutePlayer, TransferHost
<1>6. ASSUME NEW c \in Conns, NEW max, NEW is_public, SetLobbyOptions(c, max, is_public)
      PROVE  Told(d)'
  BY <1>1, <1>6 DEF SetLobbyOptions
<1>7. ASSUME NEW c \in Conns,
             \/ Accept(c) \/ PeerVanishes(c) \/ PeerEndsLoop(c) \/ DisconnectEndsLoop(c)
             \/ ReceiveMessage(c) \/ \E e \in Conns : SendFails(c, e)
      PROVE  Told(d)'
  BY <1>1, <1>7
  DEF Accept, PeerVanishes, PeerEndsLoop, DisconnectEndsLoop, ReceiveMessage, SendFails
<1>8. ASSUME NEW c \in Conns,
             \/ CommitFoundStale(c) \/ CommitFoundCurrent(c) \/ WelcomeDone(c)
             \/ MessageDone(c) \/ CheckMapping(c) \/ AnnounceDone(c)
             \/ TimeoutEndsLoop(c) \/ PartingDone(c)
             \/ ModerationHandled(c) \/ ModerationCloses(c)
      PROVE  Told(d)'
  BY <1>1, <1>8
  DEF CommitFoundStale, CommitFoundCurrent, WelcomeDone, MessageDone, CheckMapping,
      AnnounceDone, TimeoutEndsLoop, PartingDone, ModerationHandled, ModerationCloses
<1>9. ASSUME NEW c \in Conns,
             \/ CleanupSkipped(c) \/ CleanupLastMember(c)
             \/ \E next \in ClientIds : CleanupLeaves(c, next)
      PROVE  Told(d)'
  BY <1>1, <1>9 DEF CleanupSkipped, CleanupLastMember, CleanupLeaves
<1>10. CASE UNCHANGED vars \/ \E key \in Sources \X LobbyIds : FailuresForgotten(key)
  BY <1>1, <1>10 DEF vars, tasks, FailuresForgotten
<1> QED
  BY <1>2, <1>3, <1>4, <1>5, <1>6, <1>7, <1>8, <1>9, <1>10
  DEF Next, Register, Proceed, Moderate, Cleanup

\* Sessions come by commits only, and stay until they end.
LEMMA SessionsStay ==
  ASSUME IndInv, [Next]_vars, NEW d \in Conns, Active(d)'
  PROVE  \/ Active(d) /\ Bound(d)' = Bound(d)
         \/ \E r \in Requests, g \in Generations : RegisterCommit(d, r, g)
<1> DEFINE Goal == \/ Active(d) /\ Bound(d)' = Bound(d)
                   \/ \E r \in Requests, g \in Generations : RegisterCommit(d, r, g)
<1> SUFFICES Goal
  OBVIOUS
<1>1. ASSUME pending'[d] = pending[d], session'[d] = session[d],
             phase[d] \in {"parting", "gone"} => phase'[d] \in {"parting", "gone"}
      PROVE  Goal
  BY <1>1 DEF Active, Bound
<1>2. ASSUME NEW c \in Conns, NEW p \in Phases, phase[c] \notin {"parting", "gone"},
             phase' = [phase EXCEPT ![c] = p], UNCHANGED <<pending, session>>
      PROVE  Goal
  <2>1. phase[d] \in {"parting", "gone"} => phase'[d] \in {"parting", "gone"}
    BY <1>2 DEF IndInv, Base, TypeOK
  <2> QED BY <2>1, <1>1, <1>2
<1>3. ASSUME UNCHANGED <<phase, pending, session>>
      PROVE  Goal
  BY <1>3, <1>1
<1>4. ASSUME NEW c \in Conns, NEW r \in Requests, NEW g \in Generations, RegisterCommit(c, r, g)
      PROVE  Goal
  <2>1. CASE c = d
    BY <1>4, <2>1
  <2>2. CASE c # d
    <3>1. /\ pending'[d] = pending[d] /\ session'[d] = session[d] /\ phase'[d] = phase[d]
      BY <1>4, <2>2 DEF RegisterCommit, IndInv, Base, TypeOK
    <3> QED BY <3>1, <1>1
  <2> QED BY <2>1, <2>2
<1>5. ASSUME NEW c \in Conns, CommitFoundStale(c) \/ WelcomeDone(c)
      PROVE  Goal
  <2>1. CASE c = d
    <3>1. /\ pending[d] # None /\ session[d] = None
          /\ phase[d] \in {"committed", "welcoming"}
      BY <1>5, <2>1 DEF CommitFoundStale, WelcomeDone, IndInv, Base, SessionsFollowPhases
    <3>2. session'[d] = pending[d]
      BY <1>5, <2>1 DEF CommitFoundStale, WelcomeDone, IndInv, Base, TypeOK
    <3> QED BY <3>1, <3>2 DEF Active, Bound
  <2>2. CASE c # d
    <3>1. /\ pending'[d] = pending[d] /\ session'[d] = session[d] /\ phase'[d] = phase[d]
      BY <1>5, <2>2 DEF CommitFoundStale, WelcomeDone, IndInv, Base, TypeOK
    <3> QED BY <3>1, <1>1
  <2> QED BY <2>1, <2>2
<1>6. ASSUME NEW c \in Conns, NEW r \in Requests,
             RegisterRefused(c, r) \/ RegisterWrongPassword(c, r)
      PROVE  Goal
  BY <1>2, <1>6 DEF RegisterRefused, RegisterWrongPassword, Registering
<1>7. ASSUME NEW c \in Conns, NEW target \in ClientIds,
             \/ KickPlayer(c, target)
             \/ MutePlayer(c, target) \/ UnmutePlayer(c, target) \/ TransferHost(c, target)
      PROVE  Goal
  BY <1>2, <1>7 DEF KickPlayer, MutePlayer, UnmutePlayer, TransferHost
<1>8. ASSUME NEW c \in Conns, NEW max, NEW is_public, SetLobbyOptions(c, max, is_public)
      PROVE  Goal
  BY <1>2, <1>8 DEF SetLobbyOptions
<1>9. ASSUME NEW c \in Conns,
             \/ Accept(c) \/ PeerEndsLoop(c) \/ DisconnectEndsLoop(c) \/ TimeoutEndsLoop(c)
             \/ ReceiveMessage(c) \/ CommitFoundCurrent(c) \/ MessageDone(c)
             \/ CheckMapping(c) \/ AnnounceDone(c) \/ SignalKicked(c)
             \/ ModerationHandled(c) \/ ModerationCloses(c)
      PROVE  Goal
  <2>1. PICK p \in Phases : phase' = [phase EXCEPT ![c] = p]
    BY <1>9
    DEF Accept, PeerEndsLoop, DisconnectEndsLoop, TimeoutEndsLoop, ReceiveMessage,
        CommitFoundCurrent, MessageDone, CheckMapping, AnnounceDone, SignalKicked,
        ModerationHandled, ModerationCloses
  <2>2. phase[c] \notin {"parting", "gone"} /\ UNCHANGED <<pending, session>>
    BY <1>9
    DEF Accept, PeerEndsLoop, DisconnectEndsLoop, TimeoutEndsLoop, ReceiveMessage,
        CommitFoundCurrent, MessageDone, CheckMapping, AnnounceDone, SignalKicked,
        ModerationHandled, ModerationCloses
  <2> QED BY <2>1, <2>2, <1>2
<1>10. ASSUME NEW c \in Conns,
             \/ CleanupSkipped(c) \/ CleanupLastMember(c)
             \/ \E next \in ClientIds : CleanupLeaves(c, next)
      PROVE  Goal
  BY <1>2, <1>10 DEF CleanupSkipped, CleanupLastMember, CleanupLeaves
<1>11. ASSUME NEW c \in Conns, PartingDone(c)
       PROVE  Goal
  <2>1. phase[d] \in {"parting", "gone"} => phase'[d] \in {"parting", "gone"}
    BY <1>11 DEF PartingDone, IndInv, Base, TypeOK
  <2> QED BY <2>1, <1>1, <1>11 DEF PartingDone
<1>12. ASSUME NEW c \in Conns, PeerVanishes(c) \/ \E e \in Conns : SendFails(c, e)
       PROVE  Goal
  BY <1>3, <1>12 DEF PeerVanishes, SendFails
<1>13. CASE \/ UNCHANGED vars \/ \E key \in Sources \X LobbyIds : FailuresForgotten(key)
            \/ \E c \in Conns, r \in Requests : RegisterRetry(c, r)
  BY <1>3, <1>13 DEF vars, tasks, FailuresForgotten, RegisterRetry
<1> HIDE DEF Goal
<1> QED
  BY <1>4, <1>5, <1>6, <1>7, <1>8, <1>9, <1>10, <1>11, <1>12, <1>13
  DEF Next, Register, Proceed, Moderate, Cleanup

\* A record is lost to a commit, a kick or the task's own cleanup.
LEMMA LosersLearn ==
  ASSUME IndInv, [Next]_vars, NEW d \in Conns, Active(d), IsCurrentSession(Bound(d), d),
         ~IsCurrentSession(Bound(d), d)', Bound(d)' = Bound(d), Active(d)'
  PROVE  Told(d)'
<1>1. PICK s \in Session : s = Bound(d)
  BY DEF Active, Bound, IndInv, Base, TypeOK
<1>2. PICK l \in LobbyIds, id \in ClientIds : l = s.lobby_id /\ id = s.client_id
  BY DEF Session
<1>3. id \in Members(l) /\ clients[l][id].sender = d /\ clients[l][id].generation = s.generation
  BY <1>1, <1>2 DEF IsCurrentSession, Members
<1>4. clients'[l][id] # clients[l][id]
  BY <1>1, <1>2 DEF IsCurrentSession
<1>5. ASSUME NEW c \in Conns, NEW r \in Requests, NEW g \in Generations, RegisterCommit(c, r, g)
      PROVE  Told(d)'
  <2>1. r.lobby_id = l /\ r.client_id = id
    BY <1>4, <1>5 DEF RegisterCommit, IndInv, Base, TypeOK, Requests
  <2> QED BY <1>3, <1>5, <2>1 DEF RegisterCommit, SignalPrevious, Members, Told
<1>6. ASSUME NEW c \in Conns, NEW target \in ClientIds, KickPlayer(c, target)
      PROVE  Told(d)'
  <2>1. session[c].lobby_id \in LobbyIds
    BY <1>6 DEF KickPlayer, IndInv, Base, TypeOK, SessionsFollowPhases, Session
  <2>2. session[c].lobby_id = l /\ target = id
    BY <1>4, <1>6, <2>1 DEF KickPlayer, RemoveClient, IndInv, Base, TypeOK
  <2>3. victim'[c] = d
    BY <1>3, <1>6, <2>2 DEF KickPlayer, IndInv, Base, TypeOK
  <2> QED BY <2>3 DEF Told
<1>7. ASSUME NEW c \in Conns,
             CleanupLastMember(c) \/ \E next \in ClientIds : CleanupLeaves(c, next)
      PROVE  FALSE
  <2>1. PICK k \in LobbyIds, j \in ClientIds :
          k = session[c].lobby_id /\ j = session[c].client_id
    BY <1>7 DEF CleanupLastMember, CleanupLeaves, IsRegistered, IndInv, Base, TypeOK, Session
  <2>2. /\ RemoveClient(k, j) /\ phase' = [phase EXCEPT ![c] = "parting"]
        /\ clients[k][j].sender = c
    BY <1>7, <2>1 DEF CleanupLastMember, CleanupLeaves, OwnsRecord
  <2>3. k = l /\ j = id
    BY <1>4, <2>2 DEF RemoveClient, IndInv, Base, TypeOK
  <2>4. phase'[d] = "parting"
    BY <1>3, <2>2, <2>3 DEF IndInv, Base, TypeOK
  <2> QED BY <2>4 DEF Active
<1>8. ASSUME NEW c \in Conns, NEW target \in ClientIds, TransferHost(c, target)
      PROVE  FALSE
  BY <1>4, <1>8 DEF TransferHost
<1> QED BY <1>4, <1>5, <1>6, <1>7, <1>8, QuietSteps DEF Quiet

\* Who was replaced by a reconnect or kicked has been told to end, or the task of
\* the host that kicked it is about to: no socket goes on in a lobby that has
\* forgotten it (previous.disconnect.send and removed.disconnect.send).
THEOREM TheReplacedAreTold == Spec => []LosersAreTold
<1>1. Init => LosersAreTold
  BY DEF Init, LosersAreTold, Bound
<1>2. ASSUME IndInv, LosersAreTold, [Next]_vars
      PROVE  LosersAreTold'
  <2> SUFFICES ASSUME NEW d \in Conns, Active(d)', ~IsCurrentSession(Bound(d), d)'
               PROVE  Told(d)'
    BY DEF LosersAreTold, Active, Told
  <2>1. ASSUME NEW r \in Requests, NEW g \in Generations, RegisterCommit(d, r, g)
        PROVE  FALSE
    <3>1. /\ r.lobby_id \in LobbyIds /\ r.client_id \in ClientIds
          /\ session[d] = None
      BY <2>1 DEF Requests, RegisterCommit, Registering, IsRegistered
    <3>2. /\ session'[d] = None
          /\ pending'[d] = [client_id |-> r.client_id, lobby_id |-> r.lobby_id, generation |-> g]
      BY <1>2, <2>1, <3>1 DEF RegisterCommit, IndInv, Base, TypeOK
    <3>3. clients'[r.lobby_id][r.client_id] =
            [sender |-> d, generation |-> g, virtual_ip |-> r.virtual_ip]
      BY <1>2, <2>1, <3>1 DEF RegisterCommit, IndInv, Base, TypeOK
    <3>4. clients'[r.lobby_id][r.client_id] # None
      BY <3>3, NoneIsNoClient DEF ClientInfo, Requests
    <3>5. Bound(d)' = [client_id |-> r.client_id, lobby_id |-> r.lobby_id, generation |-> g]
      BY <3>2 DEF Bound
    <3> QED BY <3>3, <3>4, <3>5 DEF IsCurrentSession
  <2>2. CASE Active(d) /\ Bound(d)' = Bound(d)
    <3>1. CASE IsCurrentSession(Bound(d), d)
      BY <1>2, <2>2, <3>1, LosersLearn
    <3>2. CASE ~IsCurrentSession(Bound(d), d)
      <4>1. Told(d)
        BY <1>2, <2>2, <3>2 DEF LosersAreTold, Active, Told
      <4> QED BY <1>2, <4>1, ToldStays
    <3> QED BY <3>1, <3>2
  <2> QED BY <1>2, <2>1, <2>2, SessionsStay
<1> QED BY <1>1, <1>2, Invariance, PTL DEF Spec

-----------------------------------------------------------------------------
(***************************************************************************)
(* Lobby implements Membership.                                            *)
(***************************************************************************)
\* The sockets that have had a session, and the session of each id, as the
\* refinement mapping of Lobby reads them.
Used == {c \in Conns : Bound(c) # None}
Member == [id \in ClientIds |-> SessionInForce(id)]

AbstractStutter == Member' = Member /\ Used' = Used

\* A step that keeps records, mapping and the sessions of all tasks.
LEMMA StutterUnchanged ==
  ASSUME UNCHANGED <<clients, client_lobby_map, pending, session>>
  PROVE  AbstractStutter
  BY DEF AbstractStutter, Member, Used, SessionInForce, Bound

LEMMA RegistryUnchangedStutters ==
  ASSUME UNCHANGED registry, UNCHANGED <<pending, session>>
  PROVE  AbstractStutter
  BY StutterUnchanged DEF registry

\* The loop takes over from handle_v3 the session it is already counted for.
LEMMA HandOverStutters ==
  ASSUME IndInv, NEW c \in Conns, CommitFoundStale(c) \/ WelcomeDone(c)
  PROVE  AbstractStutter
<1>1. /\ UNCHANGED registry /\ phase[c] \in {"committed", "welcoming"}
      /\ session' = [session EXCEPT ![c] = pending[c]]
      /\ pending' = [pending EXCEPT ![c] = None]
  BY DEF CommitFoundStale, WelcomeDone
<1>2. pending[c] # None /\ session[c] = None
  BY <1>1 DEF IndInv, Base, SessionsFollowPhases
<1>3. \A d \in Conns : Bound(d)' = Bound(d)
  BY <1>1, <1>2 DEF Bound, IndInv, Base, TypeOK
<1>4. Used' = Used
  BY <1>3 DEF Used
<1>5. Member' = Member
  BY <1>1 DEF Member, SessionInForce, registry
<1> QED BY <1>4, <1>5 DEF AbstractStutter

\* A commit is Enter.
LEMMA CommitEnters ==
  ASSUME IndInv, NEW c \in Conns, NEW r \in Requests, NEW g \in Generations,
         RegisterCommit(c, r, g)
  PROVE  /\ c \notin Used
         /\ SessionInForce(r.client_id) # None =>
              SessionInForce(r.client_id).lobby_id = r.lobby_id
         /\ Member' = [Member EXCEPT ![r.client_id] =
                         [lobby_id |-> r.lobby_id, sender |-> c, generation |-> g]]
         /\ Used' = Used \cup {c}
<1>1. PICK l \in LobbyIds, id \in ClientIds, ip \in VirtualIps :
        l = r.lobby_id /\ id = r.client_id /\ ip = r.virtual_ip
  BY DEF Requests
<1>2. /\ clients' = [clients EXCEPT ![l] = [@ EXCEPT ![id] =
                       [sender |-> c, generation |-> g, virtual_ip |-> ip]]]
      /\ client_lobby_map' = [client_lobby_map EXCEPT ![id] = l]
      /\ pending' = [pending EXCEPT ![c] =
                       [client_id |-> id, lobby_id |-> l, generation |-> g]]
      /\ session' = session /\ session[c] = None /\ phase[c] = "reading"
  BY <1>1 DEF RegisterCommit, Registering, IsRegistered
<1>3. pending[c] = None
  BY <1>2 DEF IndInv, Base, SessionsFollowPhases
<1>4. c \notin Used
  BY <1>2, <1>3 DEF Used, Bound
<1>5. Used' = Used \cup {c}
  <2>1. [client_id |-> id, lobby_id |-> l, generation |-> g] \in Session
    BY DEF Session
  <2>2. pending'[c] # None /\ session'[c] = None
    BY <1>2, <2>1, NoneIsNoSession DEF IndInv, Base, TypeOK
  <2>3. \A d \in Conns \ {c} : Bound(d)' = Bound(d)
    BY <1>2 DEF Bound, IndInv, Base, TypeOK
  <2> QED BY <2>2, <2>3 DEF Used, Bound
<1>6. \A k \in LobbyIds \ {l} : clients[k][id] = None
  BY <1>1 DEF RegisterCommit, Refused, InAnotherLobby
<1>7. client_lobby_map[id] \in {l, None}
  BY <1>6 DEF IndInv, Base, TypeOK, RegistryInv, MapMatchesMembership, Members
<1>8. SessionInForce(id) # None => SessionInForce(id).lobby_id = l
  BY <1>7 DEF SessionInForce
<1>9. SessionInForce(id)' = [lobby_id |-> l, sender |-> c, generation |-> g]
  <2>1. client_lobby_map'[id] = l /\ l # None
    BY <1>2, ConstantsAssumption DEF IndInv, Base, TypeOK
  <2>2. clients'[l][id] = [sender |-> c, generation |-> g, virtual_ip |-> ip]
    BY <1>2 DEF IndInv, Base, TypeOK
  <2> QED BY <2>1, <2>2 DEF SessionInForce
<1>10. \A j \in ClientIds \ {id} : SessionInForce(j)' = SessionInForce(j)
  <2> SUFFICES ASSUME NEW j \in ClientIds \ {id}
               PROVE  SessionInForce(j)' = SessionInForce(j)
    OBVIOUS
  <2>1. client_lobby_map'[j] = client_lobby_map[j]
    BY <1>2 DEF IndInv, Base, TypeOK
  <2>2. \A k \in LobbyIds : clients'[k][j] = clients[k][j]
    BY <1>2 DEF IndInv, Base, TypeOK
  <2> QED BY <2>1, <2>2 DEF SessionInForce, IndInv, Base, TypeOK
<1>11. Member' = [Member EXCEPT ![id] =
                    [lobby_id |-> l, sender |-> c, generation |-> g]]
  BY <1>9, <1>10 DEF Member
<1> QED BY <1>1, <1>4, <1>5, <1>8, <1>11

\* Removing a member's record and its mapping is Depart.
LEMMA RemovalDeparts ==
  ASSUME IndInv, NEW l \in LobbyIds, NEW id \in ClientIds, id \in Members(l),
         RemoveClient(l, id), Unmap(l, id), UNCHANGED <<pending, session>>
  PROVE  /\ SessionInForce(id) # None
         /\ Member' = [Member EXCEPT ![id] = None]
         /\ Used' = Used
<1>1. client_lobby_map[id] = l /\ l # None
  BY ConstantsAssumption DEF IndInv, RegistryInv, MapMatchesMembership
<1>2. SessionInForce(id) # None
  <2>1. clients[l][id] \in ClientInfo
    BY DEF IndInv, Base, TypeOK, Members
  <2>2. SessionInForce(id) \in [lobby_id : LobbyIds, sender : Conns, generation : Generations]
    BY <1>1, <2>1 DEF SessionInForce, ClientInfo
  <2> QED BY <2>2, NoneIsNoRecord
<1>3. client_lobby_map'[id] = None
  BY <1>1 DEF Unmap, IndInv, Base, TypeOK
<1>4. \A j \in ClientIds \ {id} : SessionInForce(j)' = SessionInForce(j)
  <2> SUFFICES ASSUME NEW j \in ClientIds \ {id}
               PROVE  SessionInForce(j)' = SessionInForce(j)
    OBVIOUS
  <2>1. client_lobby_map'[j] = client_lobby_map[j]
    BY DEF Unmap, IndInv, Base, TypeOK
  <2>2. \A k \in LobbyIds : clients'[k][j] = clients[k][j]
    BY DEF RemoveClient, IndInv, Base, TypeOK
  <2> QED BY <2>1, <2>2 DEF SessionInForce, IndInv, Base, TypeOK
<1>5. SessionInForce(id)' = None
  BY <1>3 DEF SessionInForce
<1>6. Member' = [Member EXCEPT ![id] = None]
  BY <1>4, <1>5 DEF Member
<1>7. Used' = Used
  BY DEF Used, Bound
<1> QED BY <1>2, <1>6, <1>7

LEMMA AbstractStep ==
  ASSUME IndInv, [Next]_vars
  PROVE  \/ AbstractStutter
         \/ \E c \in Conns, id \in ClientIds, l \in LobbyIds, g \in Generations :
              /\ c \notin Used
              /\ Member[id] # None => Member[id].lobby_id = l
              /\ Member' = [Member EXCEPT ![id] =
                              [lobby_id |-> l, sender |-> c, generation |-> g]]
              /\ Used' = Used \cup {c}
         \/ \E id \in ClientIds :
              /\ Member[id] # None
              /\ Member' = [Member EXCEPT ![id] = None]
              /\ Used' = Used
<1> DEFINE Enters ==
      \E c \in Conns, id \in ClientIds, l \in LobbyIds, g \in Generations :
        /\ c \notin Used
        /\ Member[id] # None => Member[id].lobby_id = l
        /\ Member' = [Member EXCEPT ![id] =
                        [lobby_id |-> l, sender |-> c, generation |-> g]]
        /\ Used' = Used \cup {c}
<1> DEFINE Departs ==
      \E id \in ClientIds :
        /\ Member[id] # None
        /\ Member' = [Member EXCEPT ![id] = None]
        /\ Used' = Used
<1>0. \A id \in ClientIds : Member[id] = SessionInForce(id)
  BY DEF Member
<1> HIDE DEF Enters, Departs
<1>1. ASSUME NEW c \in Conns, NEW r \in Requests, NEW g \in Generations,
             RegisterCommit(c, r, g)
      PROVE  Enters
  <2>1. PICK l \in LobbyIds, id \in ClientIds : l = r.lobby_id /\ id = r.client_id
    BY DEF Requests
  <2>2. /\ c \notin Used
        /\ SessionInForce(id) # None => SessionInForce(id).lobby_id = l
        /\ Member' = [Member EXCEPT ![id] =
                        [lobby_id |-> l, sender |-> c, generation |-> g]]
        /\ Used' = Used \cup {c}
    BY <1>1, <2>1, CommitEnters
  <2> QED BY <1>0, <2>2 DEF Enters
<1>2. ASSUME NEW l \in LobbyIds, NEW id \in ClientIds, id \in Members(l),
             RemoveClient(l, id), Unmap(l, id), UNCHANGED <<pending, session>>
      PROVE  Departs
  BY <1>0, <1>2, RemovalDeparts DEF Departs
<1>3. ASSUME NEW c \in Conns, NEW target \in ClientIds, KickPlayer(c, target)
      PROVE  Departs
  <2>1. PICK l \in LobbyIds : l = session[c].lobby_id
    BY <1>3 DEF KickPlayer, IndInv, Base, TypeOK, SessionsFollowPhases, Session
  <2> QED BY <1>2, <1>3, <2>1 DEF KickPlayer
<1>4. ASSUME NEW c \in Conns,
             CleanupLastMember(c) \/ \E next \in ClientIds : CleanupLeaves(c, next)
      PROVE  Departs
  <2>1. PICK l \in LobbyIds, id \in ClientIds :
          l = session[c].lobby_id /\ id = session[c].client_id
    BY <1>4 DEF CleanupLastMember, CleanupLeaves, IsRegistered, IndInv, Base, TypeOK,
                Session
  <2>2. id \in Members(l)
    BY <1>4, <2>1 DEF CleanupLastMember, CleanupLeaves, OwnsRecord, Members
  <2> QED BY <1>2, <1>4, <2>1, <2>2 DEF CleanupLastMember, CleanupLeaves
<1>5. ASSUME NEW c \in Conns,
             \/ Accept(c) \/ PeerVanishes(c) \/ PeerEndsLoop(c) \/ DisconnectEndsLoop(c)
             \/ ReceiveMessage(c) \/ \E d \in Conns : SendFails(c, d)
      PROVE  AbstractStutter
  BY <1>5, RegistryUnchangedStutters
  DEF Accept, PeerVanishes, PeerEndsLoop, DisconnectEndsLoop, ReceiveMessage, SendFails
<1>6. ASSUME NEW c \in Conns, NEW r \in Requests,
             RegisterRefused(c, r) \/ RegisterWrongPassword(c, r) \/ RegisterRetry(c, r)
      PROVE  AbstractStutter
  BY <1>6, RegistryUnchangedStutters
  DEF RegisterRefused, RegisterWrongPassword, RegisterRetry, tasks
<1>7. ASSUME NEW c \in Conns,
             \/ CommitFoundCurrent(c) \/ MessageDone(c) \/ CheckMapping(c)
             \/ SignalKicked(c) \/ AnnounceDone(c) \/ TimeoutEndsLoop(c)
             \/ CleanupSkipped(c) \/ PartingDone(c)
             \/ ModerationHandled(c) \/ ModerationCloses(c)
      PROVE  AbstractStutter
  BY <1>7, RegistryUnchangedStutters
  DEF CommitFoundCurrent, MessageDone, CheckMapping, SignalKicked, AnnounceDone,
      TimeoutEndsLoop, CleanupSkipped, PartingDone, ModerationHandled, ModerationCloses
<1>8. ASSUME NEW c \in Conns, NEW target \in ClientIds,
             \/ MutePlayer(c, target) \/ UnmutePlayer(c, target)
             \/ TransferHost(c, target)
      PROVE  AbstractStutter
  BY <1>8, StutterUnchanged DEF MutePlayer, UnmutePlayer, TransferHost
<1>9. ASSUME NEW c \in Conns, NEW max, NEW is_public, SetLobbyOptions(c, max, is_public)
      PROVE  AbstractStutter
  BY <1>9, StutterUnchanged DEF SetLobbyOptions
<1>10. ASSUME NEW key, FailuresForgotten(key) PROVE AbstractStutter
  BY <1>10, RegistryUnchangedStutters DEF FailuresForgotten, tasks
<1>11. ASSUME UNCHANGED vars PROVE AbstractStutter
  BY <1>11, RegistryUnchangedStutters DEF vars, tasks
<1>12. ASSUME NEW c \in Conns, Register(c)
       PROVE  AbstractStutter \/ Enters
  BY <1>1, <1>6, <1>12 DEF Register
<1>13. ASSUME NEW c \in Conns, Moderate(c)
       PROVE  AbstractStutter \/ Departs
  BY <1>3, <1>7, <1>8, <1>9, <1>13 DEF Moderate
<1>14. ASSUME NEW c \in Conns, Cleanup(c)
       PROVE  AbstractStutter \/ Departs
  BY <1>4, <1>7, <1>14 DEF Cleanup
<1>15. ASSUME NEW c \in Conns, Proceed(c)
       PROVE  AbstractStutter \/ Departs
  BY <1>7, <1>13, <1>14, <1>15, HandOverStutters DEF Proceed
<1>16. AbstractStutter \/ Enters \/ Departs
  BY <1>5, <1>10, <1>11, <1>12, <1>15 DEF Next
<1> QED BY <1>16 DEF Enters, Departs

\* Seen through the sessions in force, the registry only lets identities enter
\* and depart as Membership allows, under every interleaving of the tasks.
THEOREM RegistryImplementsMembership == Spec => ImplementsMembership
<1>1. Init => Abstract!MembershipInit
  <2> SUFFICES ASSUME Init PROVE Abstract!MembershipInit
    OBVIOUS
  <2>1. \A id \in ClientIds : SessionInForce(id) = None
    BY DEF Init, SessionInForce
  <2>2. \A c \in Conns : Bound(c) = None
    BY DEF Init, Bound
  <2> QED BY <2>1, <2>2 DEF Abstract!MembershipInit
<1>2. ASSUME IndInv, [Next]_vars
      PROVE  [Abstract!MembershipNext]_Abstract!membership
  BY <1>2, AbstractStep
  DEF AbstractStutter, Member, Used, Abstract!MembershipNext, Abstract!membership,
      Abstract!Enter, Abstract!Depart
<1> QED
  BY <1>1, <1>2, Invariance, PTL DEF Spec, ImplementsMembership, Abstract!MembershipSpec
=============================================================================

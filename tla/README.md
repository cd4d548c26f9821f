# TLA+ specifications of the MCTier signaling server

The server (`src/src/`, Rust, tokio) keeps lobbies of Minecraft players, relays
WebRTC, screen-share, file-share and remote-control signaling between the
members of a lobby, and hands them a chat token that changes with the
membership. It also keeps a list of public EasyTier nodes that players submit.
Each accepted WebSocket runs as a task of its own; all tasks share the lobby
registry. These modules model the registry and the tasks, what the members are
told, the routing of messages, the admission and pacing of connections and the
community nodes. TLC checks them on small instances, and TLAPS proves
their safety for every instance.

## The system's parts

| Part | State | Operations | What makes it correct | Modules |
|---|---|---|---|---|
| lobby registry (`state.rs`) | `Lobbies` (RwLock: clients, host, capacity, listing, password, mutes, chat token and epoch), `client_lobby_map` (RwLock) | written by registration, moderation, cleanup | map and lobbies agree; a lobby exists while it has members; host is a member; mutes do not outlive membership | Lobby, Membership |
| registration (`registration.rs`) | the session under way | checks, commit under the lobby lock, check after it, RegisterSuccess, notices | capacity, unique addresses, one lobby per identity, replacement of the identity's old session, nothing left without an owner | Lobby, Announcements |
| moderation (`moderation.rs`) | none | kick, mute, transfer, options, each authorised under the lock | only the host's current session acts | Lobby, Announcements |
| connection task (`connection.rs`) | client id, lobby, generation; disconnect watch | handshake, message loop, per-message session check, dispatch, cleanup | an old socket does not touch its replacement; told tasks end; vanished peers leave | Lobby, Relay, Pacing, Admission |
| message routing (`connection.rs`, `transport.rs`) | none | forwarding arms, lookup of receivers, session metadata | genuine sender, same lobby | Relay |
| member notifications (`transport.rs`) | what each task has still to send | lookup of receivers, sends outside the lock | every member is sent the present host, mutes, options and members, also when notices overlap | Announcements |
| chat token (`transport.rs`) | token and epoch of each lobby | rotation with the change, notification outside the lock | former members do not know the token, members get it | TokenDelivery |
| password failures (`state.rs`) | failures per source and lobby | lock, record, clear, prune, retire | bounded; no lock by others; a lock is not easily pushed out | PasswordFailures |
| admission (`connection_guard.rs`, `main.rs`) | pending and active pools, per source | acquire, resolve, drop | counts match leases; the right source is charged | Admission, ForwardedSource |
| pacing (`state.rs`, `connection.rs`) | rate and budget windows, deadline, idle timeout | allow, read, send | bounded, and nobody is closed without cause | Pacing, Windows |
| community nodes (`community_nodes.rs`) | nodes, quotas, cooldowns, file | submit, probe, sweep, persist, load | capacity, no loss over a restart, dead nodes leave, reserved addresses are not probed | CommunityNodes, SubmitLimits, Windows, NodeProbe, ProbeTarget, NodeAddress |
| protocol, security, the rest of config | none after start-up | parsing, bounds, hashes, signatures | pure | |

The tasks interact by the two shared maps, by sends to each other's sockets (cut
off by SEND_TIMEOUT and a budget), and by the disconnect watch of each
connection, which a replacement, a kick or a failed send sets. Submissions share
the node registry with the sweeper task and the file with a lock of its own.
What is hard:

- the same identity reconnects while its old connection is being torn down;
- a check is made, the lock released, and the result used after an await;
- a kicked task is signalled only after the lock is released;
- notices are sent outside the lock by several tasks at once;
- a session ends, and its identity starts another, while a message is under way;
- peers that vanish, and peers that never stop talking;
- a handshake fails between the leases it takes;
- a submission waits seconds for its probe while sweeps and others change the list;
- saves that overlap or fail, and a server that stops between a change and its save;
- windows, tables and pools at their limits.

`hazards` in PROJECT.json lists these with the line where each bites.

## Modules

**Membership** is what the registry promises to the rest of the server: an
identity has at most one session, a connection has at most one session in its
life, a session replaces at most the one of the same identity in the same
lobby, never moves, and ends once.

**Lobby** is the registry with the tasks. One critical section under
`lobbies.write()` is one action, so RegisterCommit, KickPlayer, MutePlayer,
UnmutePlayer, TransferHost, SetLobbyOptions and the Cleanup actions are atomic,
while the checks before and the signals and sends after are steps of their own.
LobbyInfo's fields are functions of the lobby id; `phase` says where each task
stands, `pending` is the session handle_v3 has committed and not yet returned,
`session` what the loop stores, `victim` the connection a kick has still to
signal, `disconnect` the watches that are set, `peer_open` the peers still
there. A send that fails (budget or timeout) is SendFails: it sets the watch of
the receiver. Ageing and retirement of password failures is FailuresForgotten.
A hash is its preimage; a password is a value; generations are random, and
nothing in the model says that two of them differ.
Lobby implements Membership (ImplementsMembership), the session of an id being
the record that `client_lobby_map` leads to.

**TokenDelivery** is built on Membership: every change of membership rotates
the token and takes a snapshot of the sockets to tell; the task then checks
under a read lock that its token is still in force (CheckRotation) and sends to
each socket in any order (Deliver, DeliveryFails). RegisterSuccess carries the
token of the commit and may be lost (Lost), which the code ignores. `newest` is
the newest token that reached a socket. Any member may act as host here.

**Relay** is built on Membership: a message is checked against its session
(Receive), routed by the sender's id or by the connection's lobby, its receivers
and the sender's generation are looked up, and it is sent, with steps of others
between. The arms of the loop are sets of message types by how they route; all
arms of one set do the same to what is modelled. `MessageTypes` gives the ones
an instance sends, one of each way of routing and `chat-message`.

**Announcements** is one lobby seen from its members: each task that changes
the lobby has a queue of notices; it takes the next one, looks up the receivers
under a read lock (Lookup) and sends outside it (Deliver, DeliverFails), while
other tasks do the same. The host, the options and each mute are facts with a
version, which counts how often they were set: by the host's requests, by a
handover, and by the departure or the kick of a muted player, whose mute goes with
it and of whom nothing but PlayerLeft is sent. Messages carry no version. What a
member was sent is `peer`: of each fact the newest version (`heard`) and the one
that came last, by which a client goes (`shown`); the sessions of its roster; and
whose PlayerJoined and PlayerLeft it had. `raced` are the facts of which an older
version was on its way to the member when they changed, or when it joined: of these
alone may the last to come be an old one. A member to whom a send failed is about
to be disconnected and expects nothing more. Tokens, the guards of registration and
the reply to a request for the players list are left out.

**ForwardedSource** is `Admission::source` as pure operators: which address a
connection behind proxies is charged to. **Admission** has the accept loop, the
handshake with its callback, and the two pools: a pending lease is taken when
a connection is accepted, moved to the resolved source, and followed by an
active one; each critical section of a pool is one action, and the handshake
may fail or time out around them. The limits are computed from the environment's
values as `ServerConfig` and `Admission::new` do. Connections are slots that are
used again.

**Pacing** is one connection in time: the registration deadline, the idle
timeout, MessageRateLimiter and OutboundBudget. `handled` and `sent` keep what
was let through, by age, so that the properties speak of any stretch of time
and not of the code's own windows; **Windows** has the sums over such a record
and what a tick does to it. The runtime is prompt; only handlers take time
(MaxHandling, which has no relation to the other constants: a reply to a peer that
does not read takes up to SEND_TIMEOUT, a submission about 20 s).

**PasswordFailures** is the table of wrong passwords with its window and its
limit on keys. `guesses` and `last_wrong` keep what was really guessed, apart
from the table.

**CommunityNodes** is the registry of nodes with its file: a submission checks,
waits for a permit, probes, inserts, saves and replies; the sweep probes the sweep probes all
nodes and applies the results under one lock; saves share a lock, may fail, and
the server may crash at any moment and start again. Times are ages. `Outgrown` are
the nodes whose key the loader refuses (NodeProbe shows which these are).
**SubmitLimits** is what a submission passes before: quota and cooldown of its
source, in two tables under two locks, with a time taken before the first.
**NodeProbe** is one submission by itself: its address is normalised, its host
resolved, the addresses filtered, tried by TCP in turn and then, the first of them
alone, by UDP, and the node stored and read back by a restart. Each address has
its own answer to TCP and to UDP.
**ProbeTarget** has the test for public addresses, with its masks on octets and
segments, and for comparison two references: the blocks the code names, as ranges
(Reserved), and what is routed publicly (Routable), which the code means. A mask of
leading ones is written as arithmetic (AndU8, AndU16), which can be proved about;
MCProbe ASSUMEs that this is `&` for the masks of the code, and TLC evaluates it.
**NodeAddress** is the normal form of addresses, which is the key of the registry
and is normalised again when the file is loaded; a spelling is its parts, as
parse_node_host_port takes the text apart with brackets and without, and its length.

**MCLobby, MCTokenDelivery, MCRelay, MCAnnouncements, MCProbe, MCCommunityNodes**
give one module each its instance. **MCMembers** (Relay, TokenDelivery),
**MCResources** (Admission, Pacing, PasswordFailures, NodeProbe, SubmitLimits,
CommunityNodes) and **MCProgress** (Lobby, Admission, Pacing, TokenDelivery,
CommunityNodes) put components that share no changing state into one run: the
variable `part`, chosen once, says which of them moves in a behaviour, and the
fairness and properties are those of the components. So
a run reaches the states of each component and never their product, which would
say nothing more. But for the instances of MCProgress, the
components are extended, so that a run checks the very definitions of the theorems
and TLC evaluates the assumptions they use; that is why all but one component of
such a module have a prefix in the names of their specifications (RelaySpec,
ProbeSpec, LimitsSpec, PacingSpec, FailuresSpec, NodesSpec). MCProgress, which is
about liveness only, extends Lobby and instantiates the others with variables of
its own.

The proofs are in **LobbyProofs** (Lobby, and that it implements Membership),
**MemberProofs** (TokenDelivery and Relay), **AnnouncementProofs**,
**AdmissionProofs**, **WindowProofs** (Pacing and SubmitLimits), **FailureProofs**
(PasswordFailures) and **CommunityProofs** (CommunityNodes and NodeProbe).
**Induction** has the two lemmas on natural numbers that stand in for induction.
Definitions marked
MUTANT are faulty variants of the definition that follows; no specification uses
them. They are there to show that the property named with them in PROJECT.json
would notice.

## Runs

| Run | Instance | Checks |
|---|---|---|
| lobby_roles | 3 connections, 2 identities, 1 lobby, capacity 2, options 0 and 1 | LobbiesWellFormed (LobbyIffMembers, HostIsMember, MutedAreGuests), NoGhostMember, LosersAreTold, HostChangesOnlyByRight, MembershipChangeRotatesToken |
| lobby_two | 3 connections, 2 identities, 2 lobbies, 2 passwords, 1 failure locks, option 5 past the capacity of 3, within MCPlainOrSmall | TypeOK, MapMatchesMembership, VirtualIpsUnique, PublicIsPasswordless, RecordsChangeOnlyByRight, ImplementsMembership |
| members | 3 connections, 3 identities, 2 lobbies, 2 generations, 2 messages, within MCBounds | SenderIsGenuine (IdIsGenuine, StampNamesSessionOfLobby), TokenKnownOnlyToMembers, NoMemberForgotten |
| announcements | 3 connections, two of one identity, 1 request of a host | TypeOK, NewsIsComing, MembersMeet, ListedDeparturesReach, UnmutedBeforeHost |
| resources | Admission: 3 connections, 2 places in each pool, one connection per source, 2 clients of one source and 1 of another, 3 routes with up to 2 proxies, 8 kinds of headers. Pacing: windows of 3 ticks, 2 messages, 2 frames, 3 bytes, messages of 1, 2 and 4 bytes, handlers of up to 2 ticks. PasswordFailures: 3 keys, table of 2, 2 failures lock, window 2. NodeProbe: every address around the edges of the blocks, plain and mapped; names of up to 3 addresses, 2 targets; all spellings of 4 hosts, bracketed and not, with 5 ports and a path. SubmitLimits: 3 connections of 2 sources, table of 1, window 3, 2 per window, cooldown 2. CommunityNodes: 2 nodes, one of them outgrown, 2 submitters, capacity 1, 1 permit | LeasesAreExact (CountsMatchLeases, LeasesFollowPhases), WithinLimits, ChargedToClient; WindowsHold (RateHolds, BudgetHolds), ClosedForCause; LocksAreExact (LockedOnlyByOwnFailures, LockHoldsAgainstFewKeys); NamedBlocksRefused (with MasksMatchBlocks), VerdictIsRight (AliveHasAnswered, ReachableIsFound), KeysAreStable (KeyIsTheNodes, ReloadKeepsKey); QuotasHold (TablesBounded, AtMostTwoQuotas), SubmissionsSpaced; WithinCapacity, AcceptedIsOnFile, FileIsCurrent, SweepRemovesOnlyDead |
| progress | Lobby: 2 connections, 2 identities, 1 lobby, within Plain. Admission: 2 connections. Pacing: as above, messages of 1 byte are sent to the client. TokenDelivery: 2 connections, 2 identities. CommunityNodes: 1 node, 1 submitter. Fair, no symmetry | ToldTasksEnd, VanishedPeersLeave, PendingPlacesReturn, SilentAreReclaimed, MembersShareToken, DeadNodesLeave |
| token_order, relay_same_lobby, announcements_ghost, community_restart, public_targets, unregistered | 3 connections; 3 connections; 3 connections of 3 identities; 2 nodes, 1 submitter; 4 addresses; Pacing as above, nobody sends to the client, fair | the six findings |

The type invariant of a component is checked with the property that has it as a
conjunct (SenderIsGenuine, NoMemberForgotten, LeasesAreExact, WindowsHold,
LocksAreExact, VerdictIsRight, QuotasHold, WithinCapacity), and by itself in
lobby_two and announcements.

Bounds. In Lobby, TokenDelivery, Relay and Announcements a connection registers
at most once in its life, so the number of connections bounds the state space,
epochs included. Three connections are what the races need: a session, its
replacement, and a third party (the host who kicks, the newcomer, the receiver).
Two identities are a host and a guest. In lobby_two either lobbies are plain (nobody
muted, no passwords, no options: lobby_roles has mutes and capacities), or two
connections use one lobby, with passwords, locks and listing (MCPlainOrSmall); in
progress the lobby is unlisted and nobody is muted (Plain). In members the
constraint MCBounds leaves Relay two of the three identities, as senders or
names in messages, and TokenDelivery, which looks at no generation, one
generation at a time. A
lobby that is full takes a third identity, which makes the runs too long: the
capacity of a lobby is proved and not checked. In Relay the messages are counted (MaxMessages), in Announcements the
host's requests (MaxRequests); kicks are not. One request is enough for a notice
to meet joins, departures and the handover of a departing host.
Admission, PasswordFailures, CommunityNodes, SubmitLimits and Pacing have no
bound on how often things happen: slots and tasks are used again, and times are
ages that stop where the code no longer tells them apart. MaxGuesses bounds the
wrong guesses remembered for a key, one more than lock it; MaxReady the messages
in a socket; MaxDelay and MaxProbe the waits that the code's timeouts bound. The
tables and pools are smaller than the number of those who want in, so that every
refusal happens; with one connection per source allowed, the share of a source in
the pending pool is below the pool, as it is with the program's defaults (16 of
128), which WithinLimits needs to say anything of that pool. A handler may outlast
the time in which the rate limit ends a peer that keeps sending (MaxHandling 2 is
above RateWindow / MaxMessages), as it may in the program. The windows are longer than one tick and than their limits, so
that a window may end with or without having been used up.
CHECK_DEADLOCK is off in the models of one lobby because connections are
accepted once, in Pacing because the connection ends, and in NodeProbe because
it is over with the verdict.

Symmetry: connections, identities, addresses and lobbies are interchangeable,
and nothing chooses among them; so are keys, nodes, submitters and slots of
connections. The liveness runs do without it.

Fairness. In Lobby and TokenDelivery a task inside a handler gets on (WF of
Proceed): every send ends by SEND_TIMEOUT and tokio's locks are fair; a read
whose peer is gone ends by end of stream, idle timeout or registration deadline.
The disconnect watch is a branch of `select!`, which picks at random among the
ready ones: strong fairness, since messages may make the other branch ready each
time. In Admission the callback does not wait and the handshake has a timeout.
In Pacing time goes on and a task that can go on is polled; nothing is assumed of
how long a handler takes, but that it is at most MaxHandling. In CommunityNodes
each wait has a timeout, the persist lock is served in order (strong fairness,
since it is taken and freed in between), the sweep comes round, and a stopped
server is started again. Nothing is assumed of peers or of nodes.

### What they found

- **token_order**: `send_chat_token_rotation` says that dropping stale epochs
  "prevents old tokens from arriving after new ones". The check is under the
  lock, the sends are not: two rotations may pass the check one after the other
  and be sent in the opposite order. RegisterSuccess is not checked at all. A
  client has to compare `chatTokenEpoch`.
- **relay_same_lobby**: the arms say that the target "must be in the same
  lobby". The session is checked first and the lobby looked up by client id
  afterwards; if the identity was kicked and has joined another lobby on another
  connection in between, its old message goes to that lobby.
- **announcements_ghost**: `registration.rs` promises "ordered membership
  events". A newcomer that is kicked after the check of its commit still has its
  PlayerJoined broadcast, after the PlayerLeft. Whoever joined between the two
  is told of a player that is gone, until it asks for the list again.
- **community_restart**: the sweep saves only if it removed a node, so refreshed
  times are not on file; a day after the last save a restart drops nodes that
  have just answered, although the README says that a new container loses none.
- **public_targets**: the comment on `is_public_probe_target` says that only
  publicly routable unicast addresses pass, and `src/README.md:312` that no other is
  probed. The function refuses a list of blocks: of 0.0.0.0/8 it has 0.0.0.0 alone,
  and fec0::/10 is not on it, so 0.0.0.1, its mapped form and site-local addresses
  are connected to. What the list has is refused in every form (NamedBlocksRefused).
- **unregistered**: `src/README.md:149` says that connections that do not register
  are reclaimed after 15 seconds, and the test
  `unregistered_connection_closes_at_absolute_deadline` shows it of a silent one.
  `timeout_at` polls the read before the deadline, so a client whose next message
  always waits when a slow handler returns stays on, and slow handlers keep it below
  the rate limit. SilentAreReclaimed is what does hold: a client that stops
  sending is reclaimed, whatever is sent to it and however slow its handlers are.

Seen while modelling, and left without a run of their own:

- `src/README.md:283` says that `chat-message` is broadcast; no arm of the loop
  handles it (IgnoreUnhandled).
- `connection_guard.rs:36` says that one source must not consume the complete
  pre-authentication pool, and that its limit is independent of the quota per
  source. The limit is the lesser of 16 and that quota, and the pool is as large as
  MAX_CONNECTIONS up to 128: with MAX_CONNECTIONS of 16 or less and no lower quota, one
  source can take all of it. WithinLimits says that no source does where its limit
  is below the pool's (PendingSourceLimit < PendingLimit); in the active pool the code
  sees to that itself.
- A client goes by the last message about a host, a mute or an option, and messages
  carry no version: a RegisterSuccess or a broadcast that was on its way when the
  fact changed may come last and leave the old value with that member until the next
  change. NewsIsComing says that the new value is sent as well, and that it is the
  last wherever nothing older was on its way (`raced`).
- A submission of a known node overwrites `last_ok_at` by the time it began
  with, which may be older than what a sweep has recorded; SweepRemovesOnlyDead
  allows for it.
- `src/README.md:310` says that only an ICMP port unreachable makes a `udp://`
  node dead; silence does as well (UdpVerdict), and only the first address is
  asked by UDP (SendUdp), so a node that listens on its second address alone is taken
  for dead. VerdictIsRight says what the code makes of the answers, of UDP as of TCP.
- The length of an address is checked before the default port and the brackets of an
  IPv6 literal are added; a key that grew past the limit is saved, and refused when it
  is loaded: that node is lost over a restart, although `src/README.md:93` says that
  none is. ReloadKeepsKey says that no other is refused, and FileIsCurrent, with a
  node of that kind in its instance, that none is lost for another reason than this
  or its age.
- Without brackets, what follows the last colon of an IPv6 literal is its port if it is
  a 16-bit number: `tcp://2001:db8::1` is the host `2001:db8:` with port 1. Spellings has
  such texts as the parser reads them.

## Proofs

TLAPS proves, for every value of the constants that meets the named assumptions:

| Module | Theorems (property) |
|---|---|
| LobbyProofs | TypeCorrect, LobbiesAreWellFormed (LobbiesWellFormed), MapAgrees, CapacityAndAddresses (WithinCapacity, VirtualIpsUnique), ListedWithoutPassword, NoGhosts, TheReplacedAreTold (LosersAreTold); the action properties OldSocketsAreHarmless, HostRoleIsSafe, TokenFollowsMembership; RegistryImplementsMembership: Lobby implements Membership |
| MemberProofs | TokensStayWithMembers (TokenKnownOnlyToMembers), EveryMemberIsServed (NoMemberForgotten), SendersAreGenuine (SenderIsGenuine) |
| AnnouncementProofs | TypesHold (TypeOK), NewsReaches (NewsIsComing), MembersDoMeet (MembersMeet), ListedDeparturesDoReach (ListedDeparturesReach), UnmutedComesFirst (UnmutedBeforeHost) |
| AdmissionProofs | PoolsAreExact (LeasesAreExact), LimitsHold (WithinLimits), ClientIsCharged (ChargedToClient) |
| CommunityProofs | CapacityHolds (WithinCapacity), AcceptedAreOnFile (AcceptedIsOnFile), FileFollowsRegistry (FileIsCurrent), the action property OnlyDeadAreRemoved (SweepRemovesOnlyDead); NamedBlocksAreRefused (NamedBlocksRefused), VerdictsAreRight (VerdictIsRight), KeysStayStable (KeysAreStable) |
| WindowProofs | TwoWindowsAtMost (WindowsHold), QuotasAlwaysHold (QuotasHold); the action properties OnlyForCause (ClosedForCause), PassesAreSpaced (SubmissionsSpaced) |
| FailureProofs | LocksAlwaysExact (LocksAreExact) |

Assumptions. The markers of absence (`None`, `Lost`, `Bad`) differ from what they
stand beside. Sets that are counted are finite: the identities of Lobby, the
slots of Admission, the nodes, the keys of failures, the sources and connections
of submissions. Limits are numbers, positive where the code makes
them so. A probe ends before a node is dead (MaxProbe <= MaxOffline: seconds
against a day); a cooldown and the wait for the locks are no longer than the window
of the quota (half a minute against ten). The default ports can be spelled (AddressAssumption), and a
name resolves to IPv4 and IPv6 addresses (ProbeAssumption). Admission's clients are not trusted proxies and its hops are; a
proxy that sets only X-Real-IP is alone on the way (RealAssumption), since
behind another one it would name that one, which is a matter of how the proxies
are set up and not of the server. Each assumption is evaluated by TLC for the
instances of the runs.

Each component has an inductive invariant (IndInv, RelayInv, PacingInv, LimitsInv,
FailuresInv, ProbeInv) and its proof goes action by action; what several actions do
in common is a lemma. TLC has checked each invariant on the instance of its run.

**Lobby.** TypeOK, SessionsFollowPhases (which of
`pending`, `session`, `victim` a task holds in each phase), the registry's
invariants together, and NoGhostMember. None is inductive alone: the host is a
member after a departure only if a lobby with members exists; the capacity
argument needs finite member sets; the map agrees after a cleanup only since an
identity is in one lobby; and that a cleanup removes the record of its own
session, though it compares the socket only, needs NoGhostMember, which says that
a record's socket is bound to that very record. BasePhaseOnly and its kin take
care of the steps that leave the registry alone,
AfterRemoval and RemovalKeeps of kick and cleanup, which share the removal.
The action properties and the refinement follow from IndInv: only RegisterCommit,
KickPlayer and the two Cleanup actions change a record (QuietSteps). LosersAreTold
is inductive on top of it: whoever is told stays told (ToldStays), a session is
lost only by a commit, a kick or its own cleanup (LosersLearn), and sessions come
by commits only (SessionsStay).

**TokenDelivery.** Structure ties sessions, notifications and tokens to the
steps of the tasks. ForceMeansPresent is the core: while the token of a
notification is in force the membership is as it was when the token was made, so
that the check of CheckRotation keeps tokens from former members; it needs
NothingAhead (no token in any hand is newer than the one in force, so a
superseded one never comes back into force) and Home (sockets get tokens of
their own lobby only). NoMemberForgotten is too weak to be kept: a lost
RegisterSuccess excuses a missing token only until the next rotation, which is
what NobodyForgotten says.

**Relay.** Of a message in hand: its sender is the connection's own identity,
checked by Receive (InHandIsGenuine); the sockets looked up are of the lobby
it was routed to (ReceiversOfRoute); the generation looked up is of a session
that lobby has had (StampOfRoute). All of them speak of `own`, what a connection
registered, which never changes: that is what is still true when the session has
ended between the lookups. MembersOwn links it to the present members.

**Announcements.** The properties say that a member that lacks something is about
to be sent it, and are kept in terms of InFlight: a task has the notice in its queue
or is sending it to that member. NewsComes is what NewsIsComing needs of what comes
last: of a fact that is not `raced`, whatever is on its way to the member says the
present version (AllSay), so that nothing can overwrite it by an older one; Overtaken
puts a fact into `raced` exactly where that is not so (NotOvertaken, RacingIs), and
ChangePreserves does this once for all changes of the lobby, the departures of muted
players included. The other parts need the shape of the queues (QueueShapes:
the rest of an introduction or of a change), for instance that the roster is
followed by nothing but PlayerJoined; that no notice is ahead of the lobby
(NothingAhead); that a peer gets one roster; and that a session which failed the
check after its commit expects
nothing (Phases). DeparturesComing also covers those on a roster that is on its
way, and UnmutedFirst the host notice that waits in the queue behind its
unmuting: both could otherwise arrive too late.

**Admission.** Each pool is an account of its leases, in total and by source
(Exact), for tables of counts that drop a source at zero; the lemmas on Acquire,
Release and Resolve do both pools. Bounded is what the limits need between the
actions. Together with LeasesFollowPhases (which leases a connection holds in
each phase) this gives the three theorems; ChargedToClient is about
`Admission::source` for chains of any length: the last address that is not a
proxy of ours exists because the client is one (by well-foundedness of the
natural numbers), and the client's own claims are all before it.

**CommunityNodes.** What is in the registry is on file or has still to be saved
by its submission (NodesOnFile), and a snapshot lacks only nodes whose
submission has not got the lock yet (NodesInSnapshot): that is why a writer that
takes its snapshot under the lock loses nothing. NoOthersKept is the other
direction, for FileIsCurrent: what is on file and not in the registry is expired or
outgrown. TimesOnRecord bounds how far a recorded time may
lie behind the last successful probe, for SweepRemovesOnlyDead. Stopped says what a
crash leaves.

**NodeProbe.** PublicIsNotReserved compares is_public_probe_target with the blocks
for every address: a mask of leading ones cuts a number down to a multiple, so each
comparison is a range, and an address mapped into IPv6 is split into its octets and
is judged as IPv4. ProbeableTakes says what the filter and the limit leave of any
list of addresses: at most MaxTargets, only what may be probed, and all of it if it
is less than MaxTargets. KeyOfNode, KeyOfKey and KeyIsTooLong do the normal form of
addresses. ProbeInv then follows one submission: Known ties the key to the spelling;
Taken the targets to ProbeableTakes; NoneListens says that a target tried without
success does not listen, which is why a node is dead only after all of them.
KeysStayStable needs of an outgrown key only that it is longer than its spelling,
which it is by a port or by brackets.

**Pacing, SubmitLimits.** WindowsHold and QuotasHold speak of any stretch of time,
the code of a window that begins again when it is over. Fits relates the two for
one counter: since the window began, the record adds up to the count; what is older
comes from one earlier window, hence is at most the limit; and once the window is
over nothing has been let through since. It is kept by a tick, by one more within
the limit, and by a new window (so no stretch has more than two limits), and
serves the rate, the frames, the bytes and the quotas. WaitIsSilence is what
ClosedForCause needs of the idle timeout. In SubmitLimits the window of a source
lives in a table that drops it: QuotaFits says that a source without an entry has
spent nothing lately, and QuotasOutlive that an entry of quotas stays as long as the
cooldown it led to, so that the bound on quotas bounds cooldowns as well, although
nothing in the code limits that table. SpacedFor allows for the time that was taken
before the locks.

**PasswordFailures.** HeldAreLast: the failures the table holds against a key are
the last of its wrong guesses, and where one within the window is missing, MaxKeys
other keys have failed since. Retiring the key whose last failure is the oldest
keeps that: every other key of the full table has failed since, and the new one has
just done so, which makes MaxKeys. InOrder (the oldest first) is what the
`pop_front` loop of prune relies on; the lemmas on Outdated and Recent say what it
pops.

Sums, the prefix that prune pops and the list of targets are defined by recursion.
The provers cannot instantiate the library's induction, so these proofs go by the
least counterexample instead (LeastNat, UpTo): a set of numbers that contains 0 and,
with each number up to n, the next, contains all up to n. That the recursive
function exists is shown the same way (TotalsExist, TakenExists).

Only model-checked: liveness (ToldTasksEnd, VanishedPeersLeave, PendingPlacesReturn,
SilentAreReclaimed, MembersShareToken, DeadNodesLeave), since fairness is beyond
the prover used here; and that AndU8 and AndU16 are `&`, which it has no theory of
(MasksAreBitwise: all octets, and segments with every high byte and the low bytes
around the bits of the masks).

## Not modelled

- Cryptography: a client id is its key's holder, tokens and challenges are not
  guessed.
- Text: lengths (but for those of node addresses), characters, names, wording,
  logs; the shape rules of `protocol.rs` other than the one routing depends on.
- The registration checks before the lock read nothing shared; those that refuse
  for good are part of PeerEndsLoop, the others change nothing.
- Replies that only show state: the public lobby list, the list of nodes and
  its order, the players list on request.
- A panic in a task. A crash of the server loses the lobbies: they are not
  persisted, and a restart is Init. The nodes do survive; see CommunityNodes.

## Plan

1. (done) Lobby, its runs, Membership, the proofs of safety and refinement.
2. (done) TokenDelivery and Relay on Membership; Announcements.
3. (done) Admission with ForwardedSource; PasswordFailures; Pacing;
   CommunityNodes, SubmitLimits, NodeProbe, ProbeTarget, NodeAddress.
4. (done) Proofs of LosersAreTold, of TokenKnownOnlyToMembers and
   NoMemberForgotten, of SenderIsGenuine, of Announcements.
5. (done) Proofs of Admission's and CommunityNodes' safety.
6. (done) Proofs of Pacing, SubmitLimits, PasswordFailures and NodeProbe: every
   safety property that a run checks is now a theorem. What is left to TLC is
   liveness.

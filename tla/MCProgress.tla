----------------------------- MODULE MCProgress -----------------------------
(***************************************************************************)
(* What must come to an end, whatever the peers do: sessions that were     *)
(* told to, half-open sockets, silent connections, handshakes, the         *)
(* distribution of chat tokens, the stay of dead nodes.  One instance of   *)
(* the components that promise it, small enough for liveness.  As in       *)
(* MCResources they share no state, and part says which of them moves.     *)
(***************************************************************************)
EXTENDS Lobby, TLC

CONSTANTS Nodes, Submitters, Sweeper, Nothing, Bad, Lost

VARIABLES
  part,
  pool, active, handshake, route, source_ip, pending_lease, active_lease,
  pace, registered, hung_up, ready, opened, waited, limiter, budget, handled, sent, arrived,
  member, used, token, births, step, job, newest, told,
  up, nodes, file, submission, sweep, snapshot, save_failed, reachable, last_alive

\* One lobby without a password, whose two clients share the failure counters.
MCSources == {"s"}
MCSourceOf == [c \in Conns |-> "s"]

Client == [family |-> "v4", net |-> 1, host |-> 1]
Proxy == [family |-> "v4", net |-> 9, host |-> 1]

\* A client, directly and by a proxy, with and without a usable header.
A == INSTANCE Admission WITH
       Addresses <- {Client, Proxy}, TrustedProxies <- {Proxy}, ChainLimit <- 3,
       Clients <- {Client},
       Routes <- {[hops |-> <<>>, style |-> "append"], [hops |-> <<Proxy>>, style |-> "append"]},
       Claims <- {[xff |-> <<>>, real |-> <<>>], [xff |-> <<<<Bad>>>>, real |-> <<>>]},
       MaxConnectionsEnv <- 2, PerSourceEnv <- None,
       pending <- pool, phase <- handshake

\* A connection that others send to, with handlers as slow as they may be.
P == INSTANCE Pacing WITH
       RegistrationTimeout <- 3, IdleTimeout <- 2, RateWindow <- 3, MaxMessages <- 2,
       BudgetWindow <- 3, MaxFrames <- 2, MaxBytes <- 3, Sizes <- {1},
       ChallengeBytes <- 1, MaxReady <- 1, MaxHandling <- 2,
       told <- hung_up

\* Two members of one lobby.
T == INSTANCE TokenDelivery WITH LobbyIds <- {"L"}

\* One shared node.
N == INSTANCE CommunityNodes WITH
       Outgrown <- {}, Capacity <- 1, MaxOffline <- 2, MaxProbe <- 1, ProbePermits <- 1

admission == <<pool, active, handshake, route, source_ip, pending_lease, active_lease>>
pacing == <<pace, registered, hung_up, ready, opened, waited, limiter, budget, handled, sent,
            arrived>>
tokens == <<member, used, token, births, step, job, newest, told>>
sharing == <<up, nodes, file, submission, sweep, snapshot, save_failed, reachable, last_alive>>

\* Bound of the run: the lobby stays unlisted and nobody is muted.
Plain == public = {} /\ \A l \in LobbyIds : muted[l] = {}

MCInit ==
  /\ part \in {"lobby", "admission", "pacing", "tokens", "nodes"}
  /\ Init /\ A!Init /\ P!PacingInit /\ T!Init /\ N!NodesInit
  /\ part # "nodes" => reachable = {}

MCNext ==
  /\ UNCHANGED part
  /\ \/ part = "lobby" /\ Next /\ Plain' /\ UNCHANGED <<sharing, admission, pacing, tokens>>
     \/ part = "nodes" /\ N!NodesNext /\ UNCHANGED <<vars, admission, pacing, tokens>>
     \/ part = "admission" /\ A!Next /\ UNCHANGED <<vars, sharing, pacing, tokens>>
     \/ part = "pacing" /\ P!PacingNext /\ UNCHANGED <<vars, sharing, admission, tokens>>
     \/ part = "tokens" /\ T!Next /\ UNCHANGED <<vars, sharing, admission, pacing>>

\* The fairness of the components' own FairSpec, for the one that moves.
MCFairness ==
  /\ \A c \in Conns :
       /\ WF_vars(part = "lobby" /\ Proceed(c))
       /\ SF_vars(part = "lobby" /\ DisconnectEndsLoop(c))
  /\ WF_sharing(part = "nodes" /\ N!NodesTick)
  /\ WF_sharing(part = "nodes" /\ N!Restart)
  /\ WF_sharing(part = "nodes" /\ N!SweepStep)
  /\ \A s \in Submitters : WF_sharing(part = "nodes" /\ N!SubmissionStep(s))
  /\ \A w \in N!Writers : SF_sharing(part = "nodes" /\ N!SaveStep(w))
  /\ \A c \in Conns : WF_admission(part = "admission" /\ A!HandshakeStep(c))
  /\ WF_pacing(part = "pacing" /\ P!TaskStep)
  /\ WF_pacing(part = "pacing" /\ P!Tick)
  /\ \A c \in Conns :
       /\ WF_tokens(part = "tokens" /\ T!Proceed(c))
       /\ SF_tokens(part = "tokens" /\ c \in told /\ T!EndLoop(c))

MCSpec ==
  MCInit /\ [][MCNext]_<<part, vars, sharing, admission, pacing, tokens>> /\ MCFairness

-----------------------------------------------------------------------------
\* What is checked of the instances, by the names the components give it.

\* Every handshake ends and gives its pending place back, although its peer may
\* never say a word (HANDSHAKE_TIMEOUT).
PendingPlacesReturn == A!PendingPlacesReturn

\* A client that falls silent, registered or not, loses its connection, whatever
\* others keep sending to it and however long its last handlers take (the timeouts
\* of the loop).
SilentAreReclaimed == part = "pacing" => P!SilentAreReclaimed

\* Once membership settles, all members share the chat token in force.
MembersShareToken == T!MembersShareToken

\* A node that stays dead leaves the registry, whatever is submitted, swept,
\* saved and restarted.
DeadNodesLeave == N!DeadNodesLeave
=============================================================================

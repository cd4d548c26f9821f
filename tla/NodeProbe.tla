----------------------------- MODULE NodeProbe -----------------------------
(***************************************************************************)
(* One submitted node by itself (community_nodes.rs): its address is       *)
(* normalised, its host resolved once, the addresses that may be probed    *)
(* are tried one after the other by TCP, a udp:// node that none of them   *)
(* answers is tried by UDP (probe_community_node and what it calls), and a *)
(* node that is alive is stored under its key and read back by a restart.  *)
(* What many submissions do to the registry is in CommunityNodes.          *)
(***************************************************************************)
EXTENDS ProbeTarget, NodeAddress, FiniteSets

CONSTANTS
  Cases,          \* submissions and what is behind their address
  MaxTargets,     \* COMMUNITY_NODE_PROBE_MAX_TARGETS
  AllowPrivate    \* COMMUNITY_NODE_ALLOW_PRIVATE_TARGETS

UdpAnswers == {"reply", "unreachable", "silence"}

ElementsOf(s) == {s[i] : i \in 1..Len(s)}

ASSUME ProbeAssumption ==
  /\ AddressAssumption
  /\ MaxTargets \in Nat \ {0}
  /\ AllowPrivate \in BOOLEAN
  /\ \A c \in Cases : /\ c.spelled \in Spellings
                      /\ c.resolved \in Seq(IpAddresses)
                      /\ c.listening \subseteq ElementsOf(c.resolved)
                      /\ c.udp \in [ElementsOf(c.resolved) -> UdpAnswers]

VARIABLES
  case,       \* the submission: how the address is spelled, what its host resolves
              \* to, which of these accept TCP connections, and what becomes of a
              \* UDP packet to each; Absent before
  key,        \* the normalised address, or Absent
  targets,    \* resolve_probe_targets
  tried,      \* how many targets were tried by TCP
  contacted,  \* the addresses that were sent anything
  outcome,    \* how far it has come
  loaded      \* the key after a restart, or Absent

probe_vars == <<case, key, targets, tried, contacted, outcome, loaded>>

\* The ProbeOutcome comes before the storing: alive, dead or blocked.
Outcomes == {"new", "refused", "resolving", "tcp", "udp", "dead", "blocked",
             "alive", "stored", "loaded", "dropped"}

\* One type invariant.
ProbeTypeOK ==
  /\ case \in Cases \cup {Absent}
  /\ key \in Spellings \cup {Absent}
  /\ case # Absent => ElementsOf(targets) \subseteq ElementsOf(case.resolved)
  /\ tried \in 0..Len(targets)
  /\ contacted \subseteq ElementsOf(targets)
  /\ outcome \in Outcomes
  /\ loaded \in Spellings \cup {Absent}

ProbeInit ==
  /\ case = Absent
  /\ key = Absent
  /\ targets = <<>>
  /\ tried = 0
  /\ contacted = {}
  /\ outcome = "new"
  /\ loaded = Absent

\* normalize_community_node_address takes the address, or the reply refuses it.
SubmitAddress(c) ==
  /\ outcome = "new"
  /\ case' = c
  /\ IF Accepted(c.spelled)
     THEN key' = normalize_community_node_address(c.spelled) /\ outcome' = "resolving"
     ELSE outcome' = "refused" /\ UNCHANGED key
  /\ UNCHANGED <<targets, tried, contacted, loaded>>

MayProbe(ip) == AllowPrivate \/ is_public_probe_target(ip)

\* filter and take: the first of the resolved addresses that may be probed.
Probeable(addresses) ==
  LET taken[i \in 0..Len(addresses)] ==
        IF i = 0 THEN <<>>
        ELSE IF MayProbe(addresses[i]) /\ Len(taken[i - 1]) < MaxTargets
             THEN Append(taken[i - 1], addresses[i])
             ELSE taken[i - 1]
  IN  taken[Len(addresses)]

\* resolve_probe_targets; without a target the node is blocked.
Resolve ==
  /\ outcome = "resolving"
  /\ targets' = Probeable(case.resolved)
  /\ outcome' = IF targets' = <<>> THEN "blocked" ELSE "tcp"
  /\ UNCHANGED <<case, key, tried, contacted, loaded>>

\* The name is not resolved, or not in time.
ResolveFails ==
  /\ outcome = "resolving"
  /\ outcome' = "blocked"
  /\ UNCHANGED <<case, key, targets, tried, contacted, loaded>>

Target(i) == targets[i]

\* probe_community_node_tcp, one target: only a connection counts, not a refusal.
Connect ==
  /\ outcome = "tcp" /\ tried < Len(targets)
  /\ tried' = tried + 1
  /\ contacted' = contacted \cup {Target(tried')}
  /\ outcome' = IF Target(tried') \in case.listening THEN "alive" ELSE "tcp"
  /\ UNCHANGED <<case, key, targets, loaded>>

MayTryUdp == key.scheme = "udp"

\* MUTANT of AllTried: the first target decides.
FirstTried == tried > 0

AllTried == tried = Len(targets)

NoneConnected ==
  /\ outcome = "tcp" /\ AllTried
  /\ outcome' = IF MayTryUdp THEN "udp" ELSE "dead"
  /\ UNCHANGED <<case, key, targets, tried, contacted, loaded>>

\* Only a reply counts: neither ICMP's port unreachable nor silence.
UdpVerdict(answer) == IF answer = "reply" THEN "alive" ELSE "dead"

\* probe_community_node_udp: the first target alone.
SendUdp ==
  /\ outcome = "udp"
  /\ contacted' = contacted \cup {targets[1]}
  /\ outcome' = UdpVerdict(case.udp[targets[1]])
  /\ UNCHANGED <<case, key, targets, tried, loaded>>

\* The node is stored and saved under its key.
Store ==
  /\ outcome = "alive"
  /\ outcome' = "stored"
  /\ UNCHANGED <<case, key, targets, tried, contacted, loaded>>

\* load_community_nodes_from_disk normalises again, and drops what it refuses.
Reload ==
  /\ outcome = "stored"
  /\ IF Accepted(key)
     THEN loaded' = normalize_community_node_address(key) /\ outcome' = "loaded"
     ELSE outcome' = "dropped" /\ UNCHANGED loaded
  /\ UNCHANGED <<case, key, targets, tried, contacted>>

ProbeNext ==
  \/ \E c \in Cases : SubmitAddress(c)
  \/ Resolve \/ ResolveFails \/ Connect \/ NoneConnected \/ SendUdp
  \/ Store \/ Reload

ProbeSpec == ProbeInit /\ [][ProbeNext]_probe_vars

-----------------------------------------------------------------------------
\* The masks cover the blocks they name, all of them and nothing else, and an
\* address mapped into IPv6 fares as it does by itself.
MasksMatchBlocks ==
  case # Absent =>
    \A ip \in ElementsOf(case.resolved) : is_public_probe_target(ip) <=> ~Reserved(ip)

\* Nothing is sent to an address in a block the code names, in whatever form the
\* name of the node gives it, nothing else is kept from being tried, and never more
\* than MaxTargets addresses are.
NamedBlocksRefused ==
  /\ MasksMatchBlocks
  /\ ~AllowPrivate => \A ip \in contacted : ~Reserved(ip)
  /\ Cardinality(contacted) <= MaxTargets

\* What the comment on is_public_probe_target and the README say: only unicast
\* addresses that are routed publicly are contacted.
OnlyPublicContacted == ~AllowPrivate => \A ip \in contacted : Routable(ip)

\* A node that is taken as alive has answered: one of the targets accepted a
\* connection, or the node is a udp:// one and the first target replied by UDP.
AliveHasAnswered ==
  outcome \in {"alive", "stored", "loaded", "dropped"} =>
    \/ \E ip \in contacted : ip \in case.listening
    \/ case.spelled.scheme = "udp" /\ case.udp[targets[1]] = "reply"

\* A node with a target that accepts connections is found alive, wherever among
\* the addresses it stands, up to MaxTargets; one with a first target that replies
\* by UDP too, if it is a udp:// node.  The others are never asked by UDP, and one
\* that keeps silent counts as dead.
ReachableIsFound ==
  outcome = "dead" =>
    /\ ElementsOf(targets) \cap case.listening = {}
    /\ Len(targets) = MaxTargets \/ \A ip \in case.listening : ~MayProbe(ip)
    /\ case.spelled.scheme = "udp" => case.udp[targets[1]] # "reply"

\* Both, with the types: the verdict is what the addresses asked have answered.
VerdictIsRight == ProbeTypeOK /\ AliveHasAnswered /\ ReachableIsFound

\* A node has one key, however it is spelled, and no other node has it.
KeyIsTheNodes ==
  outcome = "resolving" => \A b \in Spellings :
    Accepted(b) => (normalize_community_node_address(b) = key <=> SameNode(case.spelled, b))

\* A restart does not change the key of a node that it takes.  It drops a node,
\* alive as it may be, whose key has grown past MaxLength by what normalising has
\* added: the port that was not spelled, or brackets.
ReloadKeepsKey ==
  /\ loaded # Absent => loaded = key
  /\ outcome = "dropped" =>
       /\ Length(key) > MaxLength
       /\ \/ case.spelled.port = Absent
          \/ ~case.spelled.bracketed /\ case.spelled.host \in WithColon

\* Both: the key finds the node again, whoever submits it and after a restart.
KeysAreStable == KeyIsTheNodes /\ ReloadKeepsKey
=============================================================================

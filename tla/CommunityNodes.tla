--------------------------- MODULE CommunityNodes ---------------------------
(***************************************************************************)
(* The shared nodes that players submit (community_nodes.rs): submission   *)
(* with its probe, the sweep that probes every node and removes the dead,  *)
(* the file, and restarts of the server.                                   *)
(*                                                                         *)
(* A node is its normalised address.  Of a record only last_ok_at matters  *)
(* here, and of that only its age: times are kept as ages in ticks, which  *)
(* stop at TooOld, one more than the age at which a node is removed.       *)
(* Names, latency and the online flag are what a client is shown.          *)
(***************************************************************************)
EXTENDS Naturals, FiniteSets

CONSTANTS
  Nodes,         \* normalised addresses
  Outgrown,      \* those that normalising would refuse: longer than an address may be
  Submitters,    \* connections that submit, each one node at a time
  Sweeper,       \* the background task
  Capacity,      \* COMMUNITY_NODE_CAPACITY
  MaxOffline,    \* COMMUNITY_NODE_MAX_OFFLINE_SECS
  MaxProbe,      \* longest time from the start of a submission to its result
  ProbePermits,  \* COMMUNITY_NODE_PROBE_CONCURRENCY
  Nothing

ASSUME NodesAssumption ==
  /\ IsFiniteSet(Nodes) /\ Outgrown \subseteq Nodes
  /\ Capacity \in Nat \ {0}
  /\ MaxOffline \in Nat
  /\ MaxProbe \in Nat
  /\ MaxProbe <= MaxOffline
  /\ ProbePermits \in Nat \ {0}
  /\ Sweeper \notin Submitters
  /\ Nothing \notin Nodes \cup Submitters \cup {Sweeper}

VARIABLES
  up,           \* whether the server runs
  nodes,        \* the registry: age of last_ok_at by address
  file,         \* the same on disk
  submission,   \* what each submitter is about
  sweep,        \* what the sweeper is about
  snapshot,     \* the nodes about to be written by the holder of the persist lock
  save_failed,  \* the last write of the file failed
  reachable,    \* nodes that answer a probe
  last_alive    \* age of each node's last successful probe since the server started;
                \* while it is stopped, of what it had recorded

nodes_vars == <<up, nodes, file, submission, sweep, snapshot, save_failed, reachable, last_alive>>

TooOld == MaxOffline + 1
Ages == 0..TooOld
Tables == UNION {[S -> Ages] : S \in SUBSET Nodes}
EmptyTable == [n \in {} |-> 0]

\* An absent snapshot is not a table.
ASSUME TablesAssumption == Nothing \notin Tables

Idle == [phase |-> "idle", node |-> Nothing, age |-> 0]
NoSweep == [phase |-> "idle", targets |-> {}, alive |-> {}]
Writers == Submitters \cup {Sweeper}
NotSaving == [w \in Writers |-> Nothing]

SubmissionPhases ==
  {"idle", "submitted", "unknown", "queued", "probing", "alive", "unsaved", "accepted"}

\* One type invariant: tables hold at most the known nodes, with an age each.
NodesTypeOK ==
  /\ up \in BOOLEAN
  /\ nodes \in Tables
  /\ file \in Tables
  /\ submission \in [Submitters -> [phase: SubmissionPhases, node: Nodes \cup {Nothing},
                                    age: 0..MaxProbe]]
  /\ sweep \in [phase: {"idle", "probing", "unsaved"}, targets: SUBSET Nodes,
                alive: SUBSET Nodes]
  /\ snapshot \in [Writers -> Tables \cup {Nothing}]
  /\ save_failed \in BOOLEAN
  /\ reachable \in SUBSET Nodes
  /\ last_alive \in [Nodes -> Ages]

NodesInit ==
  /\ up = TRUE
  /\ nodes = EmptyTable
  /\ file = EmptyTable
  /\ submission = [s \in Submitters |-> Idle]
  /\ sweep = NoSweep
  /\ snapshot = NotSaving
  /\ save_failed = FALSE
  /\ reachable \in SUBSET Nodes
  /\ last_alive = [n \in Nodes |-> TooOld]

is_community_node_expired(age) == age > MaxOffline

Expired(table) == {n \in DOMAIN table : is_community_node_expired(table[n])}

Unexpired(table) == [n \in DOMAIN table \ Expired(table) |-> table[n]]

\* The record of n is inserted, or its time overwritten.
With(table, n, age) == [m \in DOMAIN table \cup {n} |-> IF m = n THEN age ELSE table[m]]

-----------------------------------------------------------------------------
\* handle_community_node_submit_with_limits, from the time it takes on; what
\* goes before is in SubmitLimits.

At(s, p) == submission[s].phase = p

Goto(s, p) == submission' = [submission EXCEPT ![s].phase = p]

Finish(s) == submission' = [submission EXCEPT ![s] = Idle]

Submit(s, n) ==
  /\ up /\ At(s, "idle")
  /\ submission' = [submission EXCEPT ![s] = [phase |-> "submitted", node |-> n, age |-> 0]]
  /\ UNCHANGED <<up, nodes, file, sweep, snapshot, save_failed, reachable, last_alive>>

\* already_exists, and for a new node the number of nodes: two reads.
CheckExists(s) ==
  /\ At(s, "submitted")
  /\ Goto(s, IF submission[s].node \in DOMAIN nodes THEN "queued" ELSE "unknown")
  /\ UNCHANGED <<up, nodes, file, sweep, snapshot, save_failed, reachable, last_alive>>

IsFull == Cardinality(DOMAIN nodes) >= Capacity

CheckCapacity(s) ==
  /\ At(s, "unknown")
  /\ IF IsFull THEN Finish(s) ELSE Goto(s, "queued")
  /\ UNCHANGED <<up, nodes, file, sweep, snapshot, save_failed, reachable, last_alive>>

PermitsTaken == Cardinality({s \in Submitters : At(s, "probing")})

\* probe_community_node_limited: a permit in time, or the reply that it is busy.
BeginProbe(s) ==
  /\ At(s, "queued")
  /\ PermitsTaken < ProbePermits
  /\ Goto(s, "probing")
  /\ UNCHANGED <<up, nodes, file, sweep, snapshot, save_failed, reachable, last_alive>>

ProbeBusy(s) ==
  /\ At(s, "queued")
  /\ PermitsTaken = ProbePermits \/ sweep.phase = "probing"
  /\ Finish(s)
  /\ UNCHANGED <<up, nodes, file, sweep, snapshot, save_failed, reachable, last_alive>>

EndProbe(s) ==
  /\ At(s, "probing")
  /\ IF submission[s].node \in reachable
     THEN /\ Goto(s, "alive")
          /\ last_alive' = [last_alive EXCEPT ![submission[s].node] = 0]
     ELSE Finish(s) /\ UNCHANGED last_alive
  /\ UNCHANGED <<up, nodes, file, sweep, snapshot, save_failed, reachable>>

\* MUTANT of MayInsert: the number of nodes is not checked a second time.
MayInsertUnchecked(n) == TRUE

\* Under the write lock: the node exists, or there is still room.
MayInsert(n) == n \in DOMAIN nodes \/ ~IsFull

\* The record gets the time the submission began with.
Insert(s) ==
  /\ At(s, "alive")
  /\ IF MayInsert(submission[s].node)
     THEN /\ nodes' = With(nodes, submission[s].node, submission[s].age)
          /\ submission' = [submission EXCEPT ![s].phase = "unsaved", ![s].age = 0]
     ELSE Finish(s) /\ UNCHANGED nodes
  /\ UNCHANGED <<up, file, sweep, snapshot, save_failed, reachable, last_alive>>

\* The reply goes out.
Reply(s) ==
  /\ At(s, "accepted")
  /\ Finish(s)
  /\ UNCHANGED <<up, nodes, file, sweep, snapshot, save_failed, reachable, last_alive>>

-----------------------------------------------------------------------------
\* persist_community_nodes, for the submission or the sweep w.

WantsSave(w) == IF w = Sweeper THEN sweep.phase = "unsaved" ELSE At(w, "unsaved")

\* MUTANT of SaveLockFree: the writes of two tasks overlap.
SaveLockIgnored == TRUE

SaveLockFree == snapshot = NotSaving

\* The persist lock, then the snapshot.
BeginSave(w) ==
  /\ WantsSave(w)
  /\ snapshot[w] = Nothing /\ SaveLockFree
  /\ snapshot' = [snapshot EXCEPT ![w] = nodes]
  /\ UNCHANGED <<up, nodes, file, submission, sweep, save_failed, reachable, last_alive>>

SaveDone(w) ==
  /\ snapshot' = [snapshot EXCEPT ![w] = Nothing]
  /\ IF w = Sweeper THEN sweep' = NoSweep /\ UNCHANGED submission
     ELSE Goto(w, "accepted") /\ UNCHANGED sweep
  /\ UNCHANGED <<up, nodes, reachable, last_alive>>

\* The temporary file is written and renamed.
WriteFile(w) ==
  /\ snapshot[w] # Nothing
  /\ file' = snapshot[w]
  /\ save_failed' = FALSE
  /\ SaveDone(w)

\* A failure is logged, and that is all.
WriteFails(w) ==
  /\ snapshot[w] # Nothing
  /\ save_failed' = TRUE
  /\ UNCHANGED file
  /\ SaveDone(w)

-----------------------------------------------------------------------------
\* sweep_community_nodes_with_limiter.

\* The addresses to probe; with none the round is over.
BeginSweep ==
  /\ up /\ sweep.phase = "idle"
  /\ DOMAIN nodes # {}
  /\ sweep' = [phase |-> "probing", targets |-> DOMAIN nodes, alive |-> {}]
  /\ UNCHANGED <<up, nodes, file, submission, snapshot, save_failed, reachable, last_alive>>

\* One probe ends: alive, dead or blocked, or no permit in time (Busy).
SweepFindsAlive(n) ==
  /\ n \in sweep.targets \cap reachable
  /\ PermitsTaken < ProbePermits
  /\ sweep' = [sweep EXCEPT !.targets = @ \ {n}, !.alive = @ \cup {n}]
  /\ last_alive' = [last_alive EXCEPT ![n] = 0]
  /\ UNCHANGED <<up, nodes, file, submission, snapshot, save_failed, reachable>>

SweepFindsNothing(n) ==
  /\ n \in sweep.targets
  /\ n \notin reachable \/ PermitsTaken = ProbePermits
  /\ sweep' = [sweep EXCEPT !.targets = @ \ {n}]
  /\ UNCHANGED <<up, nodes, file, submission, snapshot, save_failed, reachable, last_alive>>

\* MUTANT of Refreshed: the answer of a node is not recorded.
RefreshedNever(table, alive) == table

Refreshed(table, alive) == [n \in DOMAIN table |-> IF n \in alive THEN 0 ELSE table[n]]

SweepSaves(removed) == removed # {}

\* MUTANT of Retained: nodes that are down stay.
RetainedAll(table) == table

Retained(table) == Unexpired(table)

\* The results are written under one lock, with the time of that moment.
ApplySweep ==
  /\ sweep.phase = "probing" /\ sweep.targets = {}
  /\ LET refreshed == Refreshed(nodes, sweep.alive)
     IN /\ nodes' = Retained(refreshed)
        /\ sweep' = IF SweepSaves(DOMAIN nodes \ DOMAIN nodes')
                    THEN [NoSweep EXCEPT !.phase = "unsaved"] ELSE NoSweep
  /\ UNCHANGED <<up, file, submission, snapshot, save_failed, reachable, last_alive>>

-----------------------------------------------------------------------------
\* The server stops at any moment.  The file is replaced by a rename.
Crash ==
  /\ up
  /\ up' = FALSE
  /\ nodes' = EmptyTable
  /\ submission' = [s \in Submitters |-> Idle]
  /\ sweep' = NoSweep
  /\ snapshot' = NotSaving
  /\ last_alive' = [n \in Nodes |-> IF n \in DOMAIN nodes THEN nodes[n] ELSE TooOld]
  /\ UNCHANGED <<file, save_failed, reachable>>

\* MUTANT of Loaded: a node at the limit is already dropped.
LoadedBelowLimit(table) ==
  [n \in {m \in DOMAIN table \ Outgrown : table[m] < MaxOffline} |-> table[n]]

\* load_community_nodes_from_disk: what cannot be normalised again is dropped, and
\* what is expired.  How a key outgrows its limit is in NodeProbe.
Loaded(table) == [n \in DOMAIN table \ (Outgrown \cup Expired(table)) |-> table[n]]

Restart ==
  /\ ~up
  /\ up' = TRUE
  /\ nodes' = Loaded(file)
  /\ last_alive' = [n \in Nodes |-> TooOld]
  /\ UNCHANGED <<file, submission, sweep, snapshot, save_failed, reachable>>

\* A node comes up or goes down.
NodeChanges(n) ==
  /\ reachable' = IF n \in reachable THEN reachable \ {n} ELSE reachable \cup {n}
  /\ UNCHANGED <<up, nodes, file, submission, sweep, snapshot, save_failed, last_alive>>

GrowOlder(age) == IF age < TooOld THEN age + 1 ELSE TooOld

Aged(table) == [n \in DOMAIN table |-> GrowOlder(table[n])]

InProbe(s) == submission[s].phase \in {"submitted", "unknown", "queued", "probing", "alive"}

\* Time passes, but no submission takes longer than its timeouts allow.
NodesTick ==
  /\ \A s \in Submitters : InProbe(s) => submission[s].age < MaxProbe
  /\ nodes' = Aged(nodes)
  /\ file' = Aged(file)
  /\ last_alive' = Aged(last_alive)
  /\ snapshot' = [w \in Writers |-> IF snapshot[w] = Nothing THEN Nothing ELSE Aged(snapshot[w])]
  /\ submission' = [s \in Submitters |->
       IF InProbe(s) THEN [submission[s] EXCEPT !.age = @ + 1] ELSE submission[s]]
  /\ UNCHANGED <<up, sweep, save_failed, reachable>>

SubmissionStep(s) ==
  \/ CheckExists(s) \/ CheckCapacity(s) \/ BeginProbe(s) \/ ProbeBusy(s)
  \/ EndProbe(s) \/ Insert(s) \/ Reply(s)

SaveStep(w) == BeginSave(w) \/ WriteFile(w) \/ WriteFails(w)

SweepStep ==
  \/ BeginSweep \/ ApplySweep
  \/ \E n \in Nodes : SweepFindsAlive(n) \/ SweepFindsNothing(n)

NodesNext ==
  \/ \E s \in Submitters : SubmissionStep(s) \/ \E n \in Nodes : Submit(s, n)
  \/ \E w \in Writers : SaveStep(w)
  \/ SweepStep
  \/ Crash \/ Restart \/ NodesTick
  \/ \E n \in Nodes : NodeChanges(n)

NodesSpec == NodesInit /\ [][NodesNext]_nodes_vars

\* Every wait of a submission and of the sweep has a timeout, the persist lock
\* is served in order, the sweep comes round, and a stopped server is restarted.
NodesFairness ==
  /\ WF_nodes_vars(NodesTick) /\ WF_nodes_vars(Restart) /\ WF_nodes_vars(SweepStep)
  /\ \A s \in Submitters : WF_nodes_vars(SubmissionStep(s))
  /\ \A w \in Writers : SF_nodes_vars(SaveStep(w))

FairNodes == NodesSpec /\ NodesFairness

-----------------------------------------------------------------------------
TablesFit ==
  Cardinality(DOMAIN nodes) <= Capacity /\ Cardinality(DOMAIN file) <= Capacity

\* Submissions that all saw room before their probes do not overfill the
\* registry, and neither does a restart; with the types.
WithinCapacity == NodesTypeOK /\ TablesFit

NobodySaves ==
  sweep.phase # "unsaved" /\ \A s \in Submitters : ~At(s, "unsaved")

\* Whenever nobody is about to write, the file holds the nodes of the registry,
\* and beyond them at most what a restart has dropped, expired nodes and ones with
\* a key that is too long: an older snapshot never replaces a newer one.
FileIsCurrent ==
  up /\ NobodySaves /\ ~save_failed =>
    /\ DOMAIN nodes \subseteq DOMAIN file
    /\ DOMAIN file \ DOMAIN nodes \subseteq Expired(file) \cup Outgrown

\* When a client is told that its node was taken, the node is in the file, and
\* would survive a crash, unless the write failed, a sweep has removed the node
\* meanwhile, or another submission has put it back and has still to save it.
AcceptedIsOnFile ==
  \A s \in Submitters :
    LET n == submission[s].node
    IN At(s, "accepted") /\ ~save_failed /\ n \in DOMAIN nodes =>
         \/ n \in DOMAIN file
         \/ \E t \in Submitters : At(t, "unsaved") /\ submission[t].node = n

\* A sweep removes no node that this run of the server has seen alive within
\* MaxOffline, but for the time a submission may hold on to an older one, and for
\* a node that has just answered a submission which is about to insert it again.
SweepRemovesOnlyDead ==
  [][\A n \in DOMAIN nodes \ DOMAIN nodes' :
       \/ ~up'
       \/ last_alive[n] > MaxOffline - MaxProbe
       \/ \E s \in Submitters : At(s, "alive") /\ submission[s].node = n]_nodes_vars

\* A node that is down for good leaves the list for good.
DeadNodesLeave ==
  \A n \in Nodes : <>[](n \notin reachable) => <>[](n \notin DOMAIN nodes)

\* What the README says of COMMUNITY_NODES_FILE: submissions are not lost when
\* the container is made again.  A saved node that was in the list
\* when the server stopped, with a probe that succeeded within MaxOffline, is
\* there again when it starts.
RestartKeepsLiveNodes ==
  [][~up /\ up' => \A n \in DOMAIN file \ DOMAIN nodes' : last_alive[n] > MaxOffline]_nodes_vars
=============================================================================

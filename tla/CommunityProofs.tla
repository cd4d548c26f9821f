--------------------------- MODULE CommunityProofs ---------------------------
(***************************************************************************)
(* Proofs about CommunityNodes, for any finite set of nodes, any set of    *)
(* submitters, any capacity and any timeouts, and about NodeProbe, for any *)
(* submissions, names, ports, addresses and number of targets.             *)
(***************************************************************************)
EXTENDS CommunityNodes, NodeProbe, Induction, FiniteSetTheorems, SequenceTheorems, TLAPS

-----------------------------------------------------------------------------
\* The inductive invariant.

\* A stopped server has nothing but its file.
Stopped ==
  ~up => /\ nodes = EmptyTable /\ sweep = NoSweep /\ snapshot = NotSaving
         /\ \A s \in Submitters : submission[s] = Idle

\* A submission is about a node, and only a sweep that probes has targets and
\* results.
Busy ==
  /\ \A s \in Submitters : submission[s].phase # "idle" => submission[s].node \in Nodes
  /\ sweep.phase # "probing" => sweep.targets = {} /\ sweep.alive = {}

\* A snapshot belongs to a writer that has not finished, the holder of the lock.
LockHeld ==
  /\ \A w \in Writers : snapshot[w] # Nothing => WantsSave(w)
  /\ \A v, w \in Writers : snapshot[v] # Nothing /\ snapshot[w] # Nothing => v = w

SnapshotsWithinCapacity ==
  \A w \in Writers : snapshot[w] # Nothing => Cardinality(DOMAIN snapshot[w]) <= Capacity

\* Submission t has inserted n and still to save it.
StillToSave(t, n) == At(t, "unsaved") /\ submission[t].node = n

\* Every node of the registry is in the file, or its submission has still to
\* save it; after a write that failed, the next snapshot has it.
NodesOnFile ==
  \A n \in DOMAIN nodes :
    save_failed \/ n \in DOMAIN file \/ \E t \in Submitters : StillToSave(t, n)

\* A snapshot lacks only nodes whose submission waits for the lock.
NodesInSnapshot ==
  \A w \in Writers : snapshot[w] # Nothing =>
    \A n \in DOMAIN nodes :
      n \in DOMAIN snapshot[w] \/ \E t \in Submitters : StillToSave(t, n) /\ snapshot[t] = Nothing

\* While nobody waits for the lock, the snapshot about to be written has the
\* nodes of the registry; if there is none, and the last write succeeded, the
\* file has no others but those that a restart drops.
Waiting(w) == WantsSave(w) /\ snapshot[w] = Nothing

NoOthersKept ==
  up /\ (\A w \in Writers : ~Waiting(w)) =>
    /\ \A w \in Writers : snapshot[w] # Nothing => DOMAIN snapshot[w] \subseteq DOMAIN nodes
    /\ (\A w \in Writers : snapshot[w] = Nothing) /\ ~save_failed =>
         DOMAIN file \ DOMAIN nodes \subseteq Expired(file) \cup Outgrown

\* n has answered a probe whose result is still to be entered.
ResultPending(n) ==
  \/ n \in sweep.alive
  \/ \E s \in Submitters : At(s, "alive") /\ submission[s].node = n

\* The time on record is behind the last successful probe by no more than a
\* submission takes, unless that probe is old or its result still to be entered.
TimesOnRecord ==
  \A n \in DOMAIN nodes :
    \/ nodes[n] <= last_alive[n] + MaxProbe
    \/ last_alive[n] > MaxOffline - MaxProbe
    \/ ResultPending(n)

IndInv ==
  /\ NodesTypeOK /\ Stopped /\ Busy /\ LockHeld
  /\ TablesFit /\ SnapshotsWithinCapacity
  /\ NodesOnFile /\ NodesInSnapshot /\ NoOthersKept /\ TimesOnRecord

-----------------------------------------------------------------------------
\* Tables.

LEMMA TableParts ==
  ASSUME NEW t \in Tables
  PROVE  /\ DOMAIN t \subseteq Nodes /\ IsFiniteSet(DOMAIN t)
         /\ \A n \in DOMAIN t : t[n] \in Ages
<1>1. PICK S \in SUBSET Nodes : t \in [S -> Ages]
  BY DEF Tables
<1> QED
  BY <1>1, FS_Subset, NodesAssumption

LEMMA TableMade ==
  ASSUME NEW S, S \subseteq Nodes, NEW t \in [S -> Ages]
  PROVE  t \in Tables
BY DEF Tables

LEMMA AgesAreNumbers ==
  /\ MaxOffline \in Nat /\ MaxProbe \in Nat /\ MaxProbe <= MaxOffline
  /\ TooOld = MaxOffline + 1 /\ Ages = 0 .. MaxOffline + 1
  /\ 0 \in Ages /\ \A a \in Ages : GrowOlder(a) \in Ages
  /\ \A a \in 0 .. MaxProbe : a \in Ages
BY NodesAssumption DEF TooOld, Ages, GrowOlder

LEMMA EmptyTableIs == EmptyTable \in Tables /\ DOMAIN EmptyTable = {}
<1>1. EmptyTable \in [{} -> Ages] /\ DOMAIN EmptyTable = {}
  BY DEF EmptyTable
<1> QED
  BY <1>1, TableMade

LEMMA WithTable ==
  ASSUME NEW t \in Tables, NEW n \in Nodes, NEW a \in Ages
  PROVE  /\ With(t, n, a) \in Tables
         /\ DOMAIN With(t, n, a) = DOMAIN t \cup {n}
         /\ With(t, n, a)[n] = a
         /\ \A m \in DOMAIN t \ {n} : With(t, n, a)[m] = t[m]
<1>1. With(t, n, a) \in [DOMAIN t \cup {n} -> Ages] /\ DOMAIN t \cup {n} \subseteq Nodes
  BY TableParts DEF With
<1>2. With(t, n, a) \in Tables
  BY <1>1, TableMade
<1> QED
  BY <1>2 DEF With

LEMMA UnexpiredTable ==
  ASSUME NEW t \in Tables
  PROVE  /\ Unexpired(t) \in Tables
         /\ DOMAIN Unexpired(t) = DOMAIN t \ Expired(t)
         /\ \A n \in DOMAIN Unexpired(t) : Unexpired(t)[n] = t[n]
<1>1. /\ Unexpired(t) \in [DOMAIN t \ Expired(t) -> Ages]
      /\ DOMAIN t \ Expired(t) \subseteq Nodes
  BY TableParts DEF Unexpired
<1>2. Unexpired(t) \in Tables
  BY <1>1, TableMade
<1> QED
  BY <1>2 DEF Unexpired

LEMMA LoadedTable ==
  ASSUME NEW t \in Tables
  PROVE  /\ Loaded(t) \in Tables
         /\ DOMAIN Loaded(t) = DOMAIN t \ (Outgrown \cup Expired(t))
<1>1. /\ Loaded(t) \in [DOMAIN t \ (Outgrown \cup Expired(t)) -> Ages]
      /\ DOMAIN t \ (Outgrown \cup Expired(t)) \subseteq Nodes
  BY TableParts DEF Loaded
<1>2. Loaded(t) \in Tables
  BY <1>1, TableMade
<1> QED
  BY <1>2 DEF Loaded

LEMMA RefreshedTable ==
  ASSUME NEW t \in Tables, NEW S
  PROVE  /\ Refreshed(t, S) \in Tables
         /\ DOMAIN Refreshed(t, S) = DOMAIN t
         /\ \A n \in DOMAIN t : Refreshed(t, S)[n] = IF n \in S THEN 0 ELSE t[n]
<1>1. Refreshed(t, S) \in [DOMAIN t -> Ages] /\ DOMAIN t \subseteq Nodes
  BY TableParts, AgesAreNumbers DEF Refreshed
<1>2. Refreshed(t, S) \in Tables
  BY <1>1, TableMade
<1> QED
  BY <1>2 DEF Refreshed

\* What is expired stays so.
LEMMA AgedTable ==
  ASSUME NEW t \in Tables
  PROVE  /\ Aged(t) \in Tables
         /\ DOMAIN Aged(t) = DOMAIN t
         /\ \A n \in DOMAIN t : Aged(t)[n] = GrowOlder(t[n])
         /\ Expired(t) \subseteq Expired(Aged(t))
<1>1. Aged(t) \in [DOMAIN t -> Ages] /\ DOMAIN t \subseteq Nodes
  BY TableParts, AgesAreNumbers DEF Aged
<1>2. Aged(t) \in Tables
  BY <1>1, TableMade
<1>3. DOMAIN Aged(t) = DOMAIN t /\ \A n \in DOMAIN t : Aged(t)[n] = GrowOlder(t[n])
  BY DEF Aged
<1>4. Expired(t) \subseteq Expired(Aged(t))
  BY <1>3, TableParts, AgesAreNumbers DEF Expired, is_community_node_expired, GrowOlder
<1> QED
  BY <1>2, <1>3, <1>4

\* Fewer nodes are within the capacity too.
LEMMA FewerWithin ==
  ASSUME NEW t \in Tables, NEW S, S \subseteq DOMAIN t, Cardinality(DOMAIN t) <= Capacity
  PROVE  Cardinality(S) <= Capacity
<1>1. IsFiniteSet(DOMAIN t)
  BY TableParts
<1>2. Cardinality(S) <= Cardinality(DOMAIN t) /\ Cardinality(S) \in Nat
      /\ Cardinality(DOMAIN t) \in Nat
  BY <1>1, FS_Subset, FS_CardinalityType
<1> QED
  BY <1>2, NodesAssumption

-----------------------------------------------------------------------------
\* The initial states and the steps.

LEMMA InitEstablishes == NodesInit => IndInv
<1> SUFFICES ASSUME NodesInit PROVE IndInv
  OBVIOUS
<1>0. DOMAIN nodes = {} /\ DOMAIN file = {} /\ nodes \in Tables
  BY EmptyTableIs DEF NodesInit
<1>1. NodesTypeOK
  <2>1. submission \in [Submitters -> [phase: SubmissionPhases, node: Nodes \cup {Nothing},
                                       age: 0..MaxProbe]]
    BY NodesAssumption DEF NodesInit, Idle, SubmissionPhases
  <2>2. sweep \in [phase: {"idle", "probing", "unsaved"}, targets: SUBSET Nodes,
                   alive: SUBSET Nodes]
    BY DEF NodesInit, NoSweep
  <2>3. last_alive \in [Nodes -> Ages]
    BY AgesAreNumbers DEF NodesInit
  <2> QED
    BY <2>1, <2>2, <2>3, <1>0, EmptyTableIs DEF NodesInit, NodesTypeOK, NotSaving
<1>2. Stopped /\ Busy /\ LockHeld /\ SnapshotsWithinCapacity /\ NodesInSnapshot
  BY DEF NodesInit, Stopped, Busy, LockHeld, SnapshotsWithinCapacity, NodesInSnapshot,
         NoSweep, Idle,
         NotSaving
<1>3. TablesFit
  BY <1>0, FS_EmptySet, NodesAssumption DEF TablesFit
<1>4. NodesOnFile /\ NoOthersKept /\ TimesOnRecord
  BY <1>0 DEF NodesInit, NodesOnFile, NoOthersKept, TimesOnRecord, NotSaving
<1> QED
  BY <1>1, <1>2, <1>3, <1>4 DEF IndInv

\* A submission moves on, or ends, without touching the registry.
LEMMA SubmissionMoves ==
  ASSUME IndInv, NEW s \in Submitters, up, UNCHANGED <<up, nodes, file, sweep, snapshot, save_failed>>,
         reachable' \in SUBSET Nodes, last_alive' \in [Nodes -> Ages],
         NEW r \in [phase: SubmissionPhases, node: Nodes \cup {Nothing}, age: 0..MaxProbe],
         submission' = [submission EXCEPT ![s] = r],
         ~At(s, "unsaved"), r.phase # "unsaved", r.phase # "idle" => r.node \in Nodes,
         At(s, "alive") => submission[s].node \notin DOMAIN nodes,
         \A n \in Nodes : last_alive'[n] = last_alive[n] \/ (r.phase = "alive" /\ r.node = n)
  PROVE  IndInv'
<1>0. NodesTypeOK /\ DOMAIN nodes \subseteq Nodes
  BY TableParts DEF IndInv, NodesTypeOK
<1>1. /\ submission'[s] = r
      /\ \A t \in Submitters \ {s} : submission'[t] = submission[t]
      /\ submission' \in [Submitters -> [phase: SubmissionPhases, node: Nodes \cup {Nothing},
                                         age: 0..MaxProbe]]
  BY <1>0 DEF NodesTypeOK
<1>2. \A t \in Submitters : \A n : StillToSave(t, n)' <=> StillToSave(t, n)
  BY <1>1 DEF StillToSave, At
<1>3. \A w \in Writers : WantsSave(w)' <=> WantsSave(w)
  BY <1>1 DEF WantsSave, At, Writers
<1>4. NodesTypeOK'
  BY <1>0, <1>1 DEF NodesTypeOK
<1>5. Stopped' /\ Busy'
  BY <1>1 DEF IndInv, Stopped, Busy
<1>6. LockHeld' /\ SnapshotsWithinCapacity' /\ TablesFit'
  BY <1>3 DEF IndInv, LockHeld, SnapshotsWithinCapacity, TablesFit
<1>7. NodesOnFile' /\ NodesInSnapshot'
  BY <1>2 DEF IndInv, NodesOnFile, NodesInSnapshot
<1>8. NoOthersKept'
  BY <1>3 DEF IndInv, NoOthersKept, Waiting, Expired
<1>9. TimesOnRecord'
  <2> SUFFICES ASSUME NEW n \in DOMAIN nodes
               PROVE  \/ nodes[n] <= last_alive'[n] + MaxProbe
                      \/ last_alive'[n] > MaxOffline - MaxProbe
                      \/ ResultPending(n)'
    BY DEF TimesOnRecord
  <2>1. CASE r.phase = "alive" /\ r.node = n
    BY <2>1, <1>1 DEF ResultPending, At
  <2>2. CASE last_alive'[n] = last_alive[n]
    <3>1. ResultPending(n) => ResultPending(n)'
      BY <1>1 DEF ResultPending, At
    <3> QED
      BY <2>2, <3>1 DEF IndInv, TimesOnRecord
  <2> QED
    BY <2>1, <2>2, <1>0
<1> QED
  BY <1>4, <1>5, <1>6, <1>7, <1>8, <1>9 DEF IndInv

\* All steps of a submission but the insertion.
LEMMA SubmissionPreserves ==
  ASSUME IndInv, NEW s \in Submitters,
         \/ \E n \in Nodes : Submit(s, n)
         \/ CheckExists(s) \/ CheckCapacity(s) \/ BeginProbe(s) \/ ProbeBusy(s)
         \/ EndProbe(s) \/ Reply(s)
  PROVE  IndInv'
<1> DEFINE Submission == [phase: SubmissionPhases, node: Nodes \cup {Nothing}, age: 0..MaxProbe]
           To(p) == [submission[s] EXCEPT !.phase = p]
<1>0. NodesTypeOK /\ submission[s] \in Submission /\ reachable \in SUBSET Nodes
      /\ last_alive \in [Nodes -> Ages]
  BY DEF IndInv, NodesTypeOK
<1>1. Idle \in Submission /\ Idle.phase = "idle"
  BY NodesAssumption DEF Idle, SubmissionPhases
<1>2. \A p \in SubmissionPhases :
        To(p) \in Submission /\ To(p).phase = p /\ To(p).node = submission[s].node
  BY <1>0
<1>3. submission[s].phase # "idle" => up /\ submission[s].node \in Nodes
  BY DEF IndInv, Stopped, Busy, Idle
<1>4. CASE \E n \in Nodes : Submit(s, n)
  <2>1. PICK n \in Nodes : Submit(s, n)
    BY <1>4
  <2>2. [phase |-> "submitted", node |-> n, age |-> 0] \in Submission
    BY NodesAssumption DEF SubmissionPhases
  <2> QED
    BY <2>1, <2>2, <1>0, SubmissionMoves DEF Submit, At
<1>5. CASE CheckExists(s) \/ BeginProbe(s)
  <2>1. PICK p \in {"queued", "unknown", "probing"} : submission' = [submission EXCEPT ![s] = To(p)]
    BY <1>5 DEF CheckExists, BeginProbe, Goto
  <2>2. To(p) \in Submission /\ To(p).phase = p /\ To(p).node = submission[s].node
    BY <2>1, <1>2 DEF SubmissionPhases
  <2>3. submission[s].phase \in {"submitted", "queued"}
    BY <1>5 DEF CheckExists, BeginProbe, At
  <2> HIDE DEF To, Submission
  <2> QED
    BY <2>1, <2>2, <2>3, <1>0, <1>3, <1>5, SubmissionMoves
    DEF CheckExists, BeginProbe, At, Submission
<1>6. CASE ProbeBusy(s) \/ Reply(s) \/ (CheckCapacity(s) /\ IsFull)
           \/ (EndProbe(s) /\ submission[s].node \notin reachable)
  <2>1. submission' = [submission EXCEPT ![s] = Idle]
    BY <1>6 DEF ProbeBusy, Reply, CheckCapacity, EndProbe, Finish
  <2>2. submission[s].phase \in {"queued", "accepted", "unknown", "probing"}
    BY <1>6 DEF ProbeBusy, Reply, CheckCapacity, EndProbe, At
  <2>3. UNCHANGED <<up, nodes, file, sweep, snapshot, save_failed, reachable, last_alive>>
    BY <1>6 DEF ProbeBusy, Reply, CheckCapacity, EndProbe
  <2> HIDE DEF Submission
  <2> QED
    BY <2>1, <2>2, <2>3, <1>0, <1>1, <1>3, SubmissionMoves DEF At, Submission
<1>7. CASE CheckCapacity(s) /\ ~IsFull
  <2>1. submission' = [submission EXCEPT ![s] = To("queued")]
    BY <1>7 DEF CheckCapacity, Goto
  <2>2. /\ To("queued") \in Submission /\ To("queued").phase = "queued"
        /\ To("queued").node = submission[s].node
    BY <1>2 DEF SubmissionPhases
  <2>3. submission[s].phase = "unknown"
    BY <1>7 DEF CheckCapacity, At
  <2> HIDE DEF To, Submission
  <2> QED
    BY <2>1, <2>2, <2>3, <1>0, <1>3, <1>7, SubmissionMoves DEF CheckCapacity, At, Submission
<1>8. CASE EndProbe(s) /\ submission[s].node \in reachable
  <2>1. submission' = [submission EXCEPT ![s] = To("alive")]
    BY <1>8 DEF EndProbe, Goto
  <2>2. /\ To("alive") \in Submission /\ To("alive").phase = "alive"
        /\ To("alive").node = submission[s].node
    BY <1>2 DEF SubmissionPhases
  <2>3. submission[s].phase = "probing"
    BY <1>8 DEF EndProbe, At
  <2>4. /\ last_alive' = [last_alive EXCEPT ![submission[s].node] = 0]
        /\ last_alive' \in [Nodes -> Ages]
    BY <1>8, <1>0, AgesAreNumbers DEF EndProbe
  <2>5. \A n \in Nodes : last_alive'[n] = last_alive[n] \/ submission[s].node = n
    BY <2>4, <1>0
  <2> HIDE DEF To, Submission
  <2> QED
    BY <2>1, <2>2, <2>3, <2>4, <2>5, <1>0, <1>3, <1>8, SubmissionMoves
    DEF EndProbe, At, Submission
<1> QED
  BY <1>4, <1>5, <1>6, <1>7, <1>8

\* The insertion: there is room, counted again under the write lock.
LEMMA InsertPreserves ==
  ASSUME IndInv, NEW s \in Submitters, Insert(s)
  PROVE  IndInv'
<1> DEFINE Submission == [phase: SubmissionPhases, node: Nodes \cup {Nothing}, age: 0..MaxProbe]
<1>0. /\ NodesTypeOK /\ nodes \in Tables /\ submission[s] \in Submission
      /\ submission[s].phase = "alive"
      /\ up /\ submission[s].node \in Nodes
      /\ UNCHANGED <<up, file, sweep, snapshot, save_failed, reachable, last_alive>>
  BY DEF IndInv, NodesTypeOK, Stopped, Busy, Idle, Insert, At
<1>1. PICK n \in Nodes : n = submission[s].node
  BY <1>0
<1>2. CASE ~MayInsert(n)
  <2>1. submission' = [submission EXCEPT ![s] = Idle] /\ nodes' = nodes
    BY <1>1, <1>2 DEF Insert, Finish
  <2>2. Idle \in Submission /\ Idle.phase = "idle"
    BY NodesAssumption DEF Idle, SubmissionPhases
  <2>3. n \notin DOMAIN nodes
    BY <1>2 DEF MayInsert
  <2>4. reachable \in SUBSET Nodes /\ last_alive \in [Nodes -> Ages]
    BY <1>0 DEF NodesTypeOK
  <2> HIDE DEF Submission
  <2> QED
    BY <2>1, <2>2, <2>3, <2>4, <1>0, <1>1, SubmissionMoves DEF At, Submission
<1>3. CASE MayInsert(n)
  <2>1. PICK a \in 0..MaxProbe : a = submission[s].age
    BY <1>0
  <2>2. /\ nodes' = With(nodes, n, a)
        /\ submission' = [submission EXCEPT ![s].phase = "unsaved", ![s].age = 0]
    BY <1>1, <1>3, <2>1 DEF Insert
  <2>3. /\ nodes' \in Tables /\ DOMAIN nodes' = DOMAIN nodes \cup {n}
        /\ \A m \in DOMAIN nodes' : nodes'[m] = IF m = n THEN a ELSE nodes[m]
    <3>1. a \in Ages /\ nodes \in Tables
      BY <1>0, AgesAreNumbers
    <3>2. /\ With(nodes, n, a) \in Tables /\ DOMAIN With(nodes, n, a) = DOMAIN nodes \cup {n}
          /\ With(nodes, n, a)[n] = a
          /\ \A m \in DOMAIN nodes \ {n} : With(nodes, n, a)[m] = nodes[m]
      BY <3>1, WithTable, Zenon
    <3> QED
      BY <2>2, <3>2
  <2>4. /\ submission'[s] = [phase |-> "unsaved", node |-> n, age |-> 0]
        /\ \A t \in Submitters \ {s} : submission'[t] = submission[t]
        /\ submission' \in [Submitters -> Submission]
    <3> DEFINE Inserted == [phase |-> "unsaved", node |-> n, age |-> 0]
    <3>1. /\ submission \in [Submitters -> Submission] /\ Inserted \in Submission
      BY <1>0, NodesAssumption DEF NodesTypeOK, SubmissionPhases
    <3>2. /\ submission' \in [Submitters -> Submission] /\ submission'[s] \in Submission
          /\ \A t \in Submitters \ {s} : submission'[t] = submission[t]
      BY <1>0, <3>1, <2>2, NodesAssumption DEF SubmissionPhases
    <3>3. /\ submission'[s].phase = "unsaved" /\ submission'[s].age = 0
          /\ submission'[s].node = n
      BY <1>0, <1>1, <3>1, <2>2
    <3>4. submission'[s] = Inserted
      BY <3>2, <3>3
    <3> QED
      BY <3>2, <3>4
  <2> HIDE DEF Submission
  <2>5. s \in Writers /\ s # Sweeper /\ snapshot[s] = Nothing
    BY <1>0, NodesAssumption DEF IndInv, LockHeld, WantsSave, At, Writers
  <2>6. StillToSave(s, n)' /\ \A t \in Submitters : \A m : StillToSave(t, m) => StillToSave(t, m)'
    BY <1>0, <2>4 DEF StillToSave, At
  <2>7. WantsSave(s)' /\ \A w \in Writers \ {s} : WantsSave(w)' <=> WantsSave(w)
    BY <1>0, <2>4, <2>5 DEF WantsSave, At, Writers
  <2>8. NodesTypeOK'
    BY <1>0, <2>3, <2>4 DEF NodesTypeOK, Submission
  <2>9. Stopped' /\ Busy'
    BY <1>0, <2>4 DEF IndInv, Stopped, Busy
  <2>10. LockHeld' /\ SnapshotsWithinCapacity'
    BY <1>0, <2>5, <2>7 DEF IndInv, LockHeld, SnapshotsWithinCapacity
  <2>11. TablesFit'
    <3>1. IsFiniteSet(DOMAIN nodes) /\ Cardinality(DOMAIN nodes) \in Nat
      BY <1>0, TableParts, FS_CardinalityType
    <3>2. Cardinality(DOMAIN nodes \cup {n}) =
            IF n \in DOMAIN nodes THEN Cardinality(DOMAIN nodes) ELSE Cardinality(DOMAIN nodes) + 1
      BY <3>1, FS_AddElement
    <3>3. Cardinality(DOMAIN nodes) <= Capacity /\ Cardinality(DOMAIN file) <= Capacity
      BY DEF IndInv, TablesFit
    <3>4. n \in DOMAIN nodes \/ Cardinality(DOMAIN nodes) < Capacity
      BY <1>3, <3>1, NodesAssumption DEF MayInsert, IsFull
    <3>5. Cardinality(DOMAIN nodes \cup {n}) <= Capacity
      BY <3>1, <3>2, <3>3, <3>4, NodesAssumption
    <3> QED
      BY <3>3, <3>5, <2>3, <1>0 DEF TablesFit
  <2>12. NodesOnFile' /\ NodesInSnapshot'
    BY <1>0, <2>3, <2>5, <2>6 DEF IndInv, NodesOnFile, NodesInSnapshot
  <2>13. NoOthersKept'
    BY <1>0, <2>5, <2>7 DEF NoOthersKept, Waiting
  <2>14. TimesOnRecord'
    <3> SUFFICES ASSUME NEW m \in DOMAIN nodes'
                 PROVE  \/ nodes'[m] <= last_alive[m] + MaxProbe
                        \/ last_alive[m] > MaxOffline - MaxProbe
                        \/ ResultPending(m)'
      BY <1>0 DEF TimesOnRecord
    <3>1. CASE m = n
      <4>1. last_alive[m] \in 0 .. MaxOffline + 1
        BY <1>0, <3>1, AgesAreNumbers DEF NodesTypeOK
      <4>2. nodes'[m] = a
        BY <3>1, <2>3
      <4>3. a <= last_alive[m] + MaxProbe
        BY <4>1, NodesAssumption
      <4> QED
        BY <4>2, <4>3
    <3>2. CASE m # n
      <4>1. m \in DOMAIN nodes /\ nodes'[m] = nodes[m]
        BY <3>2, <2>3
      <4>2. ResultPending(m) => ResultPending(m)'
        BY <1>0, <1>1, <3>2, <2>4 DEF ResultPending, At
      <4> QED
        BY <4>1, <4>2 DEF IndInv, TimesOnRecord
    <3> QED
      BY <3>1, <3>2
  <2> QED
    BY <2>8, <2>9, <2>10, <2>11, <2>12, <2>13, <2>14 DEF IndInv
<1> QED
  BY <1>2, <1>3

LEMMA BeginSavePreserves ==
  ASSUME IndInv, NEW w \in Writers, BeginSave(w)
  PROVE  IndInv'
<1>0. /\ NodesTypeOK /\ nodes \in Tables /\ nodes # Nothing
      /\ WantsSave(w) /\ snapshot = NotSaving
      /\ snapshot' = [snapshot EXCEPT ![w] = nodes]
      /\ UNCHANGED <<up, nodes, file, submission, sweep, save_failed, reachable, last_alive>>
  BY TablesAssumption DEF IndInv, NodesTypeOK, BeginSave, SaveLockFree
<1>1. snapshot'[w] = nodes /\ \A v \in Writers \ {w} : snapshot'[v] = Nothing
  BY <1>0 DEF NotSaving
<1>2. up
  BY <1>0 DEF IndInv, Stopped, WantsSave, At, Idle, NoSweep, Writers
<1>3. NodesTypeOK'
  BY <1>0 DEF NodesTypeOK
<1>4. Stopped' /\ Busy'
  BY <1>0, <1>2 DEF IndInv, Stopped, Busy
<1>5. LockHeld'
  BY <1>0, <1>1 DEF LockHeld, WantsSave, At
<1>6. SnapshotsWithinCapacity' /\ TablesFit'
  BY <1>0, <1>1 DEF IndInv, SnapshotsWithinCapacity, TablesFit
<1>7. NodesOnFile' /\ NodesInSnapshot'
  BY <1>0, <1>1 DEF IndInv, NodesOnFile, NodesInSnapshot, StillToSave, At
<1>8. NoOthersKept'
  BY <1>0, <1>1 DEF NoOthersKept, Waiting, WantsSave, At
<1>9. TimesOnRecord'
  BY <1>0 DEF IndInv, TimesOnRecord, ResultPending, At
<1> QED
  BY <1>3, <1>4, <1>5, <1>6, <1>7, <1>8, <1>9 DEF IndInv

\* The write ends, well or not, and with it the hold of the lock.
LEMMA WritePreserves ==
  ASSUME IndInv, NEW w \in Writers, WriteFile(w) \/ WriteFails(w)
  PROVE  IndInv'
<1>0. /\ NodesTypeOK /\ snapshot[w] # Nothing /\ snapshot[w] \in Tables
      /\ snapshot' = [snapshot EXCEPT ![w] = Nothing]
      /\ UNCHANGED <<up, nodes, reachable, last_alive>>
      /\ \/ file' = snapshot[w] /\ save_failed' = FALSE
         \/ file' = file /\ save_failed' = TRUE
  BY DEF IndInv, NodesTypeOK, WriteFile, WriteFails, SaveDone
<1>1. WantsSave(w) /\ \A v \in Writers \ {w} : snapshot[v] = Nothing
  BY <1>0 DEF IndInv, LockHeld
<1>2. \A v \in Writers : snapshot'[v] = Nothing
  BY <1>0, <1>1 DEF NodesTypeOK
<1>3. /\ \A t \in Submitters \ {w} : submission'[t] = submission[t]
      /\ w \in Submitters => /\ submission'[w] = [submission[w] EXCEPT !.phase = "accepted"]
                             /\ submission[w].phase = "unsaved"
                             /\ sweep' = sweep
      /\ w \notin Submitters => /\ submission' = submission /\ sweep' = NoSweep
                                /\ sweep.phase = "unsaved" /\ w = Sweeper
  BY <1>0, <1>1, NodesAssumption
  DEF IndInv, NodesTypeOK, WriteFile, WriteFails, SaveDone, Goto, WantsSave, At, Writers
<1>4. NodesTypeOK'
  <2>1. /\ submission' \in [Submitters -> [phase: SubmissionPhases, node: Nodes \cup {Nothing},
                                           age: 0..MaxProbe]]
        /\ sweep' \in [phase: {"idle", "probing", "unsaved"}, targets: SUBSET Nodes,
                       alive: SUBSET Nodes]
    BY <1>0, NodesAssumption
    DEF NodesTypeOK, WriteFile, WriteFails, SaveDone, Goto, SubmissionPhases, NoSweep
  <2>2. snapshot' \in [Writers -> Tables \cup {Nothing}]
    BY <1>0 DEF NodesTypeOK
  <2> QED
    BY <2>1, <2>2, <1>0 DEF NodesTypeOK
<1>5. up
  BY <1>1 DEF IndInv, Stopped, WantsSave, At, Idle, NoSweep, Writers
<1>6. Stopped'
  BY <1>0, <1>5 DEF Stopped
<1>7. Busy'
  <2>1. \A t \in Submitters : submission'[t].node = submission[t].node
                              /\ (submission'[t].phase # "idle" => submission[t].phase # "idle")
    BY <1>0, <1>3 DEF NodesTypeOK
  <2>2. sweep'.phase # "probing" => sweep'.targets = {} /\ sweep'.alive = {}
    BY <1>3 DEF IndInv, Busy, NoSweep, Writers
  <2> QED
    BY <2>1, <2>2 DEF IndInv, Busy
<1>8. LockHeld' /\ SnapshotsWithinCapacity' /\ NodesInSnapshot'
  BY <1>2 DEF LockHeld, SnapshotsWithinCapacity, NodesInSnapshot
<1>9. TablesFit'
  BY <1>0 DEF IndInv, TablesFit, SnapshotsWithinCapacity
<1>10. NodesOnFile'
  <2> SUFFICES ASSUME NEW n \in DOMAIN nodes
               PROVE  save_failed' \/ n \in DOMAIN file' \/ \E t \in Submitters : StillToSave(t, n)'
    BY <1>0 DEF NodesOnFile
  <2>1. n \in DOMAIN snapshot[w] \/ \E t \in Submitters : StillToSave(t, n) /\ snapshot[t] = Nothing
    BY <1>0 DEF IndInv, NodesInSnapshot
  <2>2. ASSUME NEW t \in Submitters, StillToSave(t, n), snapshot[t] = Nothing
        PROVE  StillToSave(t, n)'
    BY <2>2, <1>0, <1>3 DEF StillToSave, At
  <2> QED
    BY <2>1, <2>2, <1>0
<1>11. NoOthersKept'
  <2>1. \A v \in Writers : Waiting(v) => Waiting(v)'
    <3>1. ASSUME NEW v \in Writers, Waiting(v)
          PROVE  WantsSave(v)'
      <4>1. v # w /\ WantsSave(v)
        BY <3>1, <1>0 DEF Waiting
      <4>2. CASE v = Sweeper
        <5>1. w \in Submitters
          BY <4>1, <4>2 DEF Writers
        <5> QED
          BY <4>1, <4>2, <5>1, <1>3 DEF WantsSave
      <4>3. CASE v # Sweeper
        <5>1. v \in Submitters
          BY <4>3 DEF Writers
        <5> QED
          BY <4>1, <4>3, <5>1, <1>3 DEF WantsSave, At
      <4> QED
        BY <4>2, <4>3
    <3> QED
      BY <3>1, <1>2 DEF Waiting
  <2>2. ASSUME \A v \in Writers : ~Waiting(v)', ~save_failed'
        PROVE  DOMAIN file' \subseteq DOMAIN nodes'
    BY <2>1, <2>2, <1>0, <1>5 DEF IndInv, NoOthersKept
  <2> QED
    BY <2>2, <1>2 DEF NoOthersKept
<1>12. TimesOnRecord'
  <2>1. \A n : ResultPending(n) => ResultPending(n)'
    <3> SUFFICES ASSUME NEW n, ResultPending(n)
                 PROVE  ResultPending(n)'
      OBVIOUS
    <3>1. CASE n \in sweep.alive
      BY <3>1, <1>3 DEF IndInv, Busy, ResultPending
    <3>2. CASE \E t \in Submitters : At(t, "alive") /\ submission[t].node = n
      BY <3>2, <1>3 DEF ResultPending, At
    <3> QED
      BY <3>1, <3>2 DEF ResultPending
  <2> QED
    BY <2>1, <1>0 DEF IndInv, TimesOnRecord
<1> QED
  BY <1>4, <1>6, <1>7, <1>8, <1>9, <1>10, <1>11, <1>12 DEF IndInv

\* A round begins, and its probes end one by one.
LEMMA SweepProbesPreserve ==
  ASSUME IndInv,
         BeginSweep \/ \E n \in Nodes : SweepFindsAlive(n) \/ SweepFindsNothing(n)
  PROVE  IndInv'
<1> DEFINE Moved ==
        /\ up /\ sweep.phase # "unsaved" /\ sweep'.phase = "probing"
        /\ sweep' \in [phase: {"idle", "probing", "unsaved"}, targets: SUBSET Nodes,
                       alive: SUBSET Nodes]
        /\ sweep.alive \subseteq sweep'.alive
        /\ last_alive' \in [Nodes -> Ages]
        /\ \A m \in Nodes : last_alive'[m] = last_alive[m] \/ m \in sweep'.alive
<1>0. /\ NodesTypeOK /\ DOMAIN nodes \subseteq Nodes
      /\ UNCHANGED <<up, nodes, file, submission, snapshot, save_failed, reachable>>
  BY TableParts DEF IndInv, NodesTypeOK, BeginSweep, SweepFindsAlive, SweepFindsNothing
<1>1. Moved
  <2>1. CASE BeginSweep
    <3>1. sweep' = [phase |-> "probing", targets |-> DOMAIN nodes, alive |-> {}]
          /\ up /\ sweep.phase = "idle" /\ last_alive' = last_alive
      BY <2>1 DEF BeginSweep
    <3>2. sweep.alive = {}
      BY <3>1 DEF IndInv, Busy
    <3> QED
      BY <3>1, <3>2, <1>0 DEF NodesTypeOK
  <2>2. ASSUME NEW n \in Nodes, SweepFindsAlive(n) \/ SweepFindsNothing(n)
        PROVE  Moved
    <3>1. n \in sweep.targets
      BY <2>2 DEF SweepFindsAlive, SweepFindsNothing
    <3>2. sweep.phase = "probing" /\ up
      BY <3>1 DEF IndInv, Busy, Stopped, NoSweep
    <3>3. CASE SweepFindsAlive(n)
      <4>1. sweep' = [sweep EXCEPT !.targets = @ \ {n}, !.alive = @ \cup {n}]
            /\ last_alive' = [last_alive EXCEPT ![n] = 0]
        BY <3>3 DEF SweepFindsAlive
      <4> QED
        BY <4>1, <3>2, <1>0, AgesAreNumbers DEF NodesTypeOK
    <3>4. CASE SweepFindsNothing(n)
      <4>1. sweep' = [sweep EXCEPT !.targets = @ \ {n}] /\ last_alive' = last_alive
        BY <3>4 DEF SweepFindsNothing
      <4> QED
        BY <4>1, <3>2, <1>0 DEF NodesTypeOK
    <3> QED
      BY <2>2, <3>3, <3>4
  <2> QED
    BY <2>1, <2>2
<1>2. \A w \in Writers : WantsSave(w)' <=> WantsSave(w)
  BY <1>0, <1>1 DEF WantsSave, At
<1>3. NodesTypeOK'
  BY <1>0, <1>1 DEF NodesTypeOK
<1>4. Stopped' /\ Busy'
  BY <1>0, <1>1 DEF IndInv, Stopped, Busy
<1>5. LockHeld' /\ SnapshotsWithinCapacity' /\ TablesFit'
  BY <1>0, <1>2 DEF IndInv, LockHeld, SnapshotsWithinCapacity, TablesFit
<1>6. NodesOnFile' /\ NodesInSnapshot'
  BY <1>0 DEF IndInv, NodesOnFile, NodesInSnapshot, StillToSave, At
<1>7. NoOthersKept'
  BY <1>0, <1>2 DEF IndInv, NoOthersKept, Waiting, Expired
<1>8. TimesOnRecord'
  <2>1. \A n : ResultPending(n) => ResultPending(n)'
    BY <1>0, <1>1 DEF ResultPending, At
  <2>2. \A n : n \in sweep'.alive => ResultPending(n)'
    BY DEF ResultPending
  <2> QED
    BY <1>0, <1>1, <2>1, <2>2 DEF IndInv, TimesOnRecord
<1> QED
  BY <1>3, <1>4, <1>5, <1>6, <1>7, <1>8 DEF IndInv

\* The end of a round leaves a table with the times of the answers and without
\* the expired nodes.
LEMMA SweptTable ==
  ASSUME IndInv, ApplySweep
  PROVE  /\ nodes' \in Tables
         /\ DOMAIN nodes' \subseteq DOMAIN nodes
         /\ \A n \in DOMAIN nodes' : nodes'[n] = IF n \in sweep.alive THEN 0 ELSE nodes[n]
         /\ \A n \in DOMAIN nodes \ DOMAIN nodes' : n \notin sweep.alive /\ nodes[n] > MaxOffline
<1>0. nodes \in Tables /\ nodes' = Unexpired(Refreshed(nodes, sweep.alive))
  BY DEF IndInv, NodesTypeOK, ApplySweep, Retained
<1>1. PICK t \in Tables : t = Refreshed(nodes, sweep.alive)
  BY <1>0, RefreshedTable
<1>2. DOMAIN t = DOMAIN nodes /\ \A n \in DOMAIN nodes : t[n] = IF n \in sweep.alive THEN 0 ELSE nodes[n]
  BY <1>0, <1>1, RefreshedTable
<1>3. /\ Unexpired(t) \in Tables /\ DOMAIN Unexpired(t) = DOMAIN t \ Expired(t)
      /\ \A n \in DOMAIN Unexpired(t) : Unexpired(t)[n] = t[n]
  BY UnexpiredTable
<1>4. \A n \in Expired(t) : n \notin sweep.alive /\ nodes[n] > MaxOffline
  BY <1>2, AgesAreNumbers DEF Expired, is_community_node_expired
<1> QED
  BY <1>0, <1>1, <1>2, <1>3, <1>4

LEMMA ApplySweepPreserves ==
  ASSUME IndInv, ApplySweep
  PROVE  IndInv'
<1>0. /\ NodesTypeOK /\ sweep.phase = "probing"
      /\ UNCHANGED <<up, file, submission, snapshot, save_failed, reachable, last_alive>>
  BY DEF IndInv, ApplySweep
<1>1. up
  BY <1>0 DEF IndInv, Stopped, NoSweep
<1>2. /\ nodes' \in Tables
      /\ DOMAIN nodes' \subseteq DOMAIN nodes
      /\ \A n \in DOMAIN nodes' : nodes'[n] = IF n \in sweep.alive THEN 0 ELSE nodes[n]
  BY SweptTable
<1>3. \/ sweep' = NoSweep /\ DOMAIN nodes' = DOMAIN nodes
      \/ sweep' = [phase |-> "unsaved", targets |-> {}, alive |-> {}]
  BY <1>2 DEF ApplySweep, SweepSaves, NoSweep
<1>4. NodesTypeOK'
  BY <1>0, <1>2, <1>3 DEF NodesTypeOK, NoSweep
<1>5. Stopped' /\ Busy'
  BY <1>0, <1>1, <1>3 DEF IndInv, Stopped, Busy, NoSweep
<1>6. \A w \in Writers : WantsSave(w) => WantsSave(w)'
  BY <1>0 DEF WantsSave, At
<1>7. snapshot[Sweeper] = Nothing
  BY <1>0 DEF IndInv, LockHeld, WantsSave, Writers
<1>8. LockHeld' /\ SnapshotsWithinCapacity'
  BY <1>0, <1>6 DEF IndInv, LockHeld, SnapshotsWithinCapacity
<1>9. TablesFit'
  <2>1. nodes \in Tables /\ Cardinality(DOMAIN nodes) <= Capacity
    BY <1>0 DEF IndInv, NodesTypeOK, TablesFit
  <2>2. Cardinality(DOMAIN nodes') <= Capacity
    BY <1>2, <2>1, FewerWithin
  <2> QED
    BY <1>0, <2>2 DEF IndInv, TablesFit
<1>10. NodesOnFile' /\ NodesInSnapshot'
  BY <1>0, <1>2 DEF IndInv, NodesOnFile, NodesInSnapshot, StillToSave, At
<1>11. NoOthersKept'
  <2>1. CASE sweep' = NoSweep /\ DOMAIN nodes' = DOMAIN nodes
    <3>1. \A w \in Writers : WantsSave(w)' <=> WantsSave(w)
      BY <1>0, <2>1 DEF WantsSave, At, NoSweep
    <3> QED
      BY <1>0, <2>1, <3>1 DEF IndInv, NoOthersKept, Waiting, Expired
  <2>2. CASE sweep' = [phase |-> "unsaved", targets |-> {}, alive |-> {}]
    <3>1. Sweeper \in Writers /\ Waiting(Sweeper)'
      BY <1>0, <1>7, <2>2 DEF Waiting, WantsSave, Writers
    <3> QED
      BY <3>1 DEF NoOthersKept
  <2> QED
    BY <1>3, <2>1, <2>2
<1>12. TimesOnRecord'
  <2> SUFFICES ASSUME NEW n \in DOMAIN nodes'
               PROVE  \/ nodes'[n] <= last_alive[n] + MaxProbe
                      \/ last_alive[n] > MaxOffline - MaxProbe
                      \/ ResultPending(n)'
    BY <1>0 DEF TimesOnRecord
  <2>0. n \in DOMAIN nodes /\ n \in Nodes
    BY <1>0, <1>2, TableParts DEF NodesTypeOK
  <2>1. CASE n \in sweep.alive
    <3>1. last_alive[n] \in 0 .. MaxOffline + 1 /\ nodes'[n] = 0
      BY <1>0, <1>2, <2>0, <2>1, AgesAreNumbers DEF NodesTypeOK
    <3> QED
      BY <3>1, AgesAreNumbers
  <2>2. CASE n \notin sweep.alive
    <3>1. nodes'[n] = nodes[n] /\ (ResultPending(n) => ResultPending(n)')
      BY <1>0, <1>2, <2>2 DEF ResultPending, At
    <3> QED
      BY <2>0, <3>1 DEF IndInv, TimesOnRecord
  <2> QED
    BY <2>1, <2>2
<1> QED
  BY <1>4, <1>5, <1>8, <1>9, <1>10, <1>11, <1>12 DEF IndInv

LEMMA CrashPreserves ==
  ASSUME IndInv, Crash
  PROVE  IndInv'
<1>0. /\ NodesTypeOK /\ up' = FALSE /\ nodes' = EmptyTable
      /\ submission' = [s \in Submitters |-> Idle]
      /\ sweep' = NoSweep /\ snapshot' = NotSaving
      /\ UNCHANGED <<file, save_failed, reachable>>
  BY DEF IndInv, Crash
<1>1. nodes' \in Tables /\ DOMAIN nodes' = {}
  BY <1>0, EmptyTableIs
<1>2. NodesTypeOK'
  <2>1. submission' \in [Submitters -> [phase: SubmissionPhases, node: Nodes \cup {Nothing},
                                        age: 0..MaxProbe]]
    BY <1>0, NodesAssumption DEF Idle, SubmissionPhases
  <2>2. sweep' \in [phase: {"idle", "probing", "unsaved"}, targets: SUBSET Nodes,
                    alive: SUBSET Nodes]
    BY <1>0 DEF NoSweep
  <2>3. last_alive' \in [Nodes -> Ages]
    <3>1. last_alive' = [n \in Nodes |-> IF n \in DOMAIN nodes THEN nodes[n] ELSE TooOld]
      BY DEF Crash
    <3>2. nodes \in Tables /\ \A n \in DOMAIN nodes : nodes[n] \in Ages
      BY <1>0, TableParts DEF NodesTypeOK
    <3> QED
      BY <3>1, <3>2, AgesAreNumbers
  <2> QED
    BY <1>0, <1>1, <2>1, <2>2, <2>3 DEF NodesTypeOK, NotSaving
<1>3. Stopped' /\ Busy' /\ LockHeld' /\ SnapshotsWithinCapacity' /\ NodesInSnapshot'
  BY <1>0 DEF Stopped, Busy, LockHeld, SnapshotsWithinCapacity, NodesInSnapshot, NotSaving,
              Idle, NoSweep
<1>4. TablesFit'
  BY <1>0, <1>1, FS_EmptySet, NodesAssumption DEF IndInv, TablesFit
<1>5. NodesOnFile' /\ NoOthersKept' /\ TimesOnRecord'
  BY <1>0, <1>1 DEF NodesOnFile, NoOthersKept, TimesOnRecord
<1> QED
  BY <1>2, <1>3, <1>4, <1>5 DEF IndInv

\* The server comes back with the nodes of its file that it does not drop.
LEMMA RestartPreserves ==
  ASSUME IndInv, Restart
  PROVE  IndInv'
<1>0. /\ NodesTypeOK /\ up' = TRUE /\ file \in Tables /\ nodes' = Loaded(file)
      /\ last_alive' = [n \in Nodes |-> TooOld]
      /\ UNCHANGED <<file, submission, sweep, snapshot, save_failed, reachable>>
  BY DEF IndInv, NodesTypeOK, Restart
<1>1. /\ sweep = NoSweep /\ snapshot = NotSaving
      /\ \A s \in Submitters : submission[s] = Idle
  BY DEF IndInv, Stopped, Restart
<1>2. nodes' \in Tables /\ DOMAIN nodes' = DOMAIN file \ (Outgrown \cup Expired(file))
  BY <1>0, LoadedTable
<1>3. NodesTypeOK'
  BY <1>0, <1>2, AgesAreNumbers DEF NodesTypeOK
<1>4. Stopped' /\ Busy' /\ LockHeld' /\ SnapshotsWithinCapacity' /\ NodesInSnapshot'
  BY <1>0, <1>1 DEF Stopped, Busy, LockHeld, SnapshotsWithinCapacity, NodesInSnapshot, NotSaving,
                    Idle, NoSweep
<1>5. TablesFit'
  <2>1. Cardinality(DOMAIN file) <= Capacity
    BY DEF IndInv, TablesFit
  <2>2. Cardinality(DOMAIN file \ (Outgrown \cup Expired(file))) <= Capacity
    BY <1>0, <2>1, FewerWithin
  <2> QED
    BY <1>0, <1>2, <2>1, <2>2 DEF TablesFit
<1>6. NodesOnFile' /\ NoOthersKept'
  BY <1>0, <1>1, <1>2 DEF NodesOnFile, NoOthersKept, NotSaving, Expired
<1>7. TimesOnRecord'
  <2>1. \A n \in DOMAIN nodes' : last_alive'[n] = TooOld
    BY <1>0, <1>2, TableParts
  <2>2. TooOld > MaxOffline - MaxProbe
    BY AgesAreNumbers
  <2> QED
    BY <2>1, <2>2 DEF TimesOnRecord
<1> QED
  BY <1>3, <1>4, <1>5, <1>6, <1>7 DEF IndInv

\* A tick ages the times on record and the last answers alike.
LEMMA TickPreserves ==
  ASSUME IndInv, NodesTick
  PROVE  IndInv'
<1> DEFINE Submission == [phase: SubmissionPhases, node: Nodes \cup {Nothing}, age: 0..MaxProbe]
<1>0. /\ NodesTypeOK /\ nodes \in Tables /\ file \in Tables
      /\ nodes' = Aged(nodes) /\ file' = Aged(file) /\ last_alive' = Aged(last_alive)
      /\ snapshot' = [w \in Writers |-> IF snapshot[w] = Nothing THEN Nothing ELSE Aged(snapshot[w])]
      /\ UNCHANGED <<up, sweep, save_failed, reachable>>
  BY DEF IndInv, NodesTypeOK, NodesTick
<1>1. /\ nodes' \in Tables /\ DOMAIN nodes' = DOMAIN nodes
      /\ \A n \in DOMAIN nodes : nodes'[n] = GrowOlder(nodes[n])
  <2>1. /\ Aged(nodes) \in Tables /\ DOMAIN Aged(nodes) = DOMAIN nodes
        /\ \A n \in DOMAIN nodes : Aged(nodes)[n] = GrowOlder(nodes[n])
    BY <1>0, AgedTable
  <2> QED
    BY <1>0, <2>1
<1>2. file' \in Tables /\ DOMAIN file' = DOMAIN file /\ Expired(file) \subseteq Expired(file')
  <2>1. /\ Aged(file) \in Tables /\ DOMAIN Aged(file) = DOMAIN file
        /\ Expired(file) \subseteq Expired(Aged(file))
    BY <1>0, AgedTable
  <2> QED
    BY <1>0, <2>1
<1>3. last_alive' \in [Nodes -> Ages] /\ \A n \in Nodes : last_alive'[n] = GrowOlder(last_alive[n])
  BY <1>0, AgesAreNumbers DEF Aged, NodesTypeOK
<1>4. /\ submission' \in [Submitters -> Submission]
      /\ \A s \in Submitters : /\ submission'[s].phase = submission[s].phase
                               /\ submission'[s].node = submission[s].node
                               /\ submission[s].phase = "idle" => submission'[s] = submission[s]
  <2>1. /\ submission' = [s \in Submitters |->
             IF InProbe(s) THEN [submission[s] EXCEPT !.age = @ + 1] ELSE submission[s]]
        /\ \A s \in Submitters : InProbe(s) => submission[s].age < MaxProbe
    BY DEF NodesTick
  <2> SUFFICES ASSUME NEW s \in Submitters
               PROVE  /\ submission'[s] \in Submission
                      /\ submission'[s].phase = submission[s].phase
                      /\ submission'[s].node = submission[s].node
                      /\ submission[s].phase = "idle" => submission'[s] = submission[s]
    BY <2>1
  <2>2. submission[s] \in Submission
    BY <1>0 DEF NodesTypeOK
  <2>3. CASE InProbe(s)
    <3>1. submission'[s] = [submission[s] EXCEPT !.age = @ + 1]
      BY <2>1, <2>3
    <3>2. submission[s].age + 1 \in 0..MaxProbe
      BY <2>1, <2>2, <2>3, AgesAreNumbers
    <3>3. submission[s].phase # "idle"
      BY <2>3 DEF InProbe
    <3> QED
      BY <2>2, <3>1, <3>2, <3>3
  <2>4. CASE ~InProbe(s)
    BY <2>1, <2>2, <2>4
  <2> QED
    BY <2>3, <2>4
<1>5. \A w \in Writers : /\ snapshot'[w] \in Tables \cup {Nothing}
                         /\ snapshot'[w] = Nothing <=> snapshot[w] = Nothing
                         /\ snapshot[w] # Nothing => DOMAIN snapshot'[w] = DOMAIN snapshot[w]
  <2> SUFFICES ASSUME NEW w \in Writers, snapshot[w] # Nothing
               PROVE  /\ snapshot'[w] \in Tables /\ snapshot'[w] # Nothing
                      /\ DOMAIN snapshot'[w] = DOMAIN snapshot[w]
    BY <1>0
  <2>1. PICK t \in Tables : t = snapshot[w]
    BY <1>0 DEF NodesTypeOK
  <2>2. snapshot'[w] = Aged(t)
    BY <1>0, <2>1
  <2> QED
    BY <2>1, <2>2, AgedTable, TablesAssumption
<1> HIDE DEF Submission
<1>6. \A w \in Writers : WantsSave(w)' <=> WantsSave(w)
  BY <1>0, <1>4 DEF WantsSave, At, Writers
<1>7. \A s \in Submitters : \A n : StillToSave(s, n)' <=> StillToSave(s, n)
  BY <1>4 DEF StillToSave, At
<1>8. NodesTypeOK'
  <2>1. snapshot' \in [Writers -> Tables \cup {Nothing}]
    BY <1>0, <1>5
  <2> QED
    BY <1>0, <1>1, <1>2, <1>3, <1>4, <2>1 DEF NodesTypeOK, Submission
<1>9. Stopped'
  <2> SUFFICES ASSUME ~up
               PROVE  /\ nodes' = EmptyTable /\ snapshot' = NotSaving
                      /\ \A s \in Submitters : submission'[s] = Idle
    BY <1>0 DEF IndInv, Stopped
  <2>1. nodes = EmptyTable /\ snapshot = NotSaving /\ \A s \in Submitters : submission[s] = Idle
    BY DEF IndInv, Stopped
  <2>2. nodes' = EmptyTable
    BY <1>0, <2>1 DEF Aged, EmptyTable
  <2>3. snapshot' = NotSaving
    BY <1>0, <2>1 DEF NotSaving
  <2> QED
    BY <2>1, <2>2, <2>3, <1>4 DEF Idle
<1>10. Busy'
  BY <1>0, <1>4 DEF IndInv, Busy
<1>11. LockHeld'
  BY <1>5, <1>6 DEF IndInv, LockHeld
<1>12. TablesFit' /\ SnapshotsWithinCapacity'
  BY <1>1, <1>2, <1>5 DEF IndInv, TablesFit, SnapshotsWithinCapacity
<1>13. NodesOnFile'
  BY <1>0, <1>1, <1>2, <1>7 DEF IndInv, NodesOnFile
<1>14. NodesInSnapshot'
  <2>1. \A s \in Submitters : snapshot'[s] = Nothing <=> snapshot[s] = Nothing
    BY <1>5 DEF Writers
  <2> QED
    BY <1>1, <1>5, <1>7, <2>1 DEF IndInv, NodesInSnapshot
<1>15. NoOthersKept'
  <2>1. \A w \in Writers : Waiting(w)' <=> Waiting(w)
    BY <1>5, <1>6 DEF Waiting
  <2>2. Expired(file)' = Expired(file')
    BY DEF Expired
  <2> QED
    BY <1>0, <1>1, <1>2, <1>5, <2>1, <2>2 DEF IndInv, NoOthersKept
<1>16. TimesOnRecord'
  <2> SUFFICES ASSUME NEW n \in DOMAIN nodes
               PROVE  \/ nodes'[n] <= last_alive'[n] + MaxProbe
                      \/ last_alive'[n] > MaxOffline - MaxProbe
                      \/ ResultPending(n)'
    BY <1>1 DEF TimesOnRecord
  <2>1. n \in Nodes /\ nodes[n] \in Ages /\ last_alive[n] \in Ages
    BY <1>0, TableParts DEF NodesTypeOK
  <2>2. nodes'[n] = GrowOlder(nodes[n]) /\ last_alive'[n] = GrowOlder(last_alive[n])
    BY <1>1, <1>3, <2>1
  <2>3. ResultPending(n) => ResultPending(n)'
    BY <1>0, <1>4 DEF ResultPending, At
  <2>4. \/ nodes[n] <= last_alive[n] + MaxProbe
        \/ last_alive[n] > MaxOffline - MaxProbe
        \/ ResultPending(n)
    BY DEF IndInv, TimesOnRecord
  <2>5. \A a, b \in Ages :
          /\ a <= b + MaxProbe =>
               GrowOlder(a) <= GrowOlder(b) + MaxProbe \/ GrowOlder(b) > MaxOffline - MaxProbe
          /\ b > MaxOffline - MaxProbe => GrowOlder(b) > MaxOffline - MaxProbe
    BY AgesAreNumbers DEF GrowOlder
  <2> QED
    BY <2>1, <2>2, <2>3, <2>4, <2>5
<1> QED
  BY <1>8, <1>9, <1>10, <1>11, <1>12, <1>13, <1>14, <1>15, <1>16 DEF IndInv

\* The registry, the file and those at work see nothing of a node that comes up
\* or goes down.
LEMMA NothingElseMoves ==
  ASSUME IndInv, reachable' \in SUBSET Nodes,
         UNCHANGED <<up, nodes, file, submission, sweep, snapshot, save_failed, last_alive>>
  PROVE  IndInv'
<1>1. NodesTypeOK' /\ Stopped' /\ Busy' /\ LockHeld' /\ TablesFit' /\ SnapshotsWithinCapacity'
  BY DEF IndInv, NodesTypeOK, Stopped, Busy, LockHeld, WantsSave, At, TablesFit,
         SnapshotsWithinCapacity
<1>2. NodesOnFile' /\ NodesInSnapshot'
  BY DEF IndInv, NodesOnFile, NodesInSnapshot, StillToSave, At
<1>3. NoOthersKept' /\ TimesOnRecord'
  BY DEF IndInv, NoOthersKept, Waiting, WantsSave, At, Expired, TimesOnRecord, ResultPending
<1> QED
  BY <1>1, <1>2, <1>3 DEF IndInv

LEMMA StepPreserves ==
  ASSUME IndInv, [NodesNext]_nodes_vars
  PROVE  IndInv'
<1>1. ASSUME NEW s \in Submitters, SubmissionStep(s) \/ \E n \in Nodes : Submit(s, n)
      PROVE  IndInv'
  BY <1>1, SubmissionPreserves, InsertPreserves DEF SubmissionStep
<1>2. ASSUME NEW w \in Writers, SaveStep(w)
      PROVE  IndInv'
  BY <1>2, BeginSavePreserves, WritePreserves DEF SaveStep
<1>3. CASE SweepStep
  BY <1>3, SweepProbesPreserve, ApplySweepPreserves DEF SweepStep
<1>4. ASSUME NEW n \in Nodes, NodeChanges(n)
      PROVE  IndInv'
  <2>1. reachable' \in SUBSET Nodes
    BY <1>4 DEF NodeChanges, IndInv, NodesTypeOK
  <2> QED
    BY <1>4, <2>1, NothingElseMoves DEF NodeChanges
<1>5. CASE UNCHANGED nodes_vars
  <2>1. reachable' \in SUBSET Nodes
    BY <1>5 DEF nodes_vars, IndInv, NodesTypeOK
  <2> QED
    BY <1>5, <2>1, NothingElseMoves DEF nodes_vars
<1> QED
  BY <1>1, <1>2, <1>3, <1>4, <1>5, CrashPreserves, RestartPreserves, TickPreserves DEF NodesNext

LEMMA Inductive == NodesSpec => []IndInv
<1>1. IndInv /\ [NodesNext]_nodes_vars => IndInv'
  BY StepPreserves
<1> QED
  BY InitEstablishes, <1>1, PTL DEF NodesSpec

-----------------------------------------------------------------------------
\* The registry and the file hold what NodesTypeOK says, and never more nodes than
\* the capacity: the second count under the write lock (Insert) is enough for
\* any number of submissions that saw room before their probes, and a restart
\* loads no more than was saved.
THEOREM CapacityHolds == NodesSpec => []WithinCapacity
<1>1. IndInv => WithinCapacity
  BY DEF IndInv, WithinCapacity
<1> QED
  BY Inductive, <1>1, PTL

\* A submission that has been accepted is on file, whatever the order of inserts,
\* snapshots, writes, sweeps and crashes, unless its node was removed, a write
\* failed or another submission of the node has still to save it.
THEOREM AcceptedAreOnFile == NodesSpec => []AcceptedIsOnFile
<1>1. IndInv => AcceptedIsOnFile
  BY DEF IndInv, NodesOnFile, StillToSave, AcceptedIsOnFile
<1> QED
  BY Inductive, <1>1, PTL

\* Whenever no task is about to save and the last write succeeded, the file is the
\* registry, but for nodes that the loader has dropped: persist_community_nodes takes its snapshot
\* under the lock, so that no older one overwrites a newer one.
THEOREM FileFollowsRegistry == NodesSpec => []FileIsCurrent
<1>1. ASSUME IndInv, up, NobodySaves, ~save_failed
      PROVE  /\ DOMAIN nodes \subseteq DOMAIN file
             /\ DOMAIN file \ DOMAIN nodes \subseteq Expired(file) \cup Outgrown
  <2>1. \A w \in Writers : ~WantsSave(w)
    BY <1>1 DEF NobodySaves, WantsSave, Writers
  <2>2. \A w \in Writers : snapshot[w] = Nothing /\ ~Waiting(w)
    BY <2>1, <1>1 DEF IndInv, LockHeld, Waiting
  <2>3. \A t \in Submitters : \A n : ~StillToSave(t, n)
    BY <1>1 DEF NobodySaves, StillToSave
  <2> QED
    BY <2>2, <2>3, <1>1 DEF IndInv, NodesOnFile, NoOthersKept
<1>2. IndInv => FileIsCurrent
  BY <1>1 DEF FileIsCurrent
<1> QED
  BY Inductive, <1>2, PTL

\* Every node that leaves the registry of a running server leaves it in
\* sweep_community_nodes, and was then not seen alive for about MaxOffline.
THEOREM OnlyDeadAreRemoved == NodesSpec => SweepRemovesOnlyDead
<1> DEFINE Cause(n) == \/ ~up'
                       \/ last_alive[n] > MaxOffline - MaxProbe
                       \/ \E s \in Submitters : At(s, "alive") /\ submission[s].node = n
<1>1. ASSUME IndInv, NodesNext, NEW n \in DOMAIN nodes \ DOMAIN nodes'
      PROVE  Cause(n)
  <2>1. ASSUME NEW s \in Submitters, SubmissionStep(s) \/ \E m \in Nodes : Submit(s, m)
        PROVE  FALSE
    <3>1. DOMAIN nodes \subseteq DOMAIN nodes'
      BY <2>1 DEF SubmissionStep, Submit, CheckExists, CheckCapacity, BeginProbe, ProbeBusy,
                  EndProbe, Insert, Reply, With
    <3> QED
      BY <3>1
  <2>2. ASSUME NEW w \in Writers, SaveStep(w)
        PROVE  FALSE
    BY <2>2 DEF SaveStep, BeginSave, WriteFile, WriteFails, SaveDone
  <2>3. CASE ApplySweep
    <3>1. n \notin sweep.alive /\ nodes[n] > MaxOffline
      BY <1>1, <2>3, SweptTable
    <3>2. \/ nodes[n] <= last_alive[n] + MaxProbe
          \/ last_alive[n] > MaxOffline - MaxProbe
          \/ ResultPending(n)
      BY <1>1 DEF IndInv, TimesOnRecord
    <3>3. nodes[n] \in Ages /\ last_alive[n] \in Ages
      BY <1>1, TableParts DEF IndInv, NodesTypeOK
    <3>4. CASE ResultPending(n)
      BY <3>1, <3>4 DEF ResultPending
    <3>5. nodes[n] <= last_alive[n] + MaxProbe => last_alive[n] > MaxOffline - MaxProbe
      BY <3>1, <3>3, AgesAreNumbers
    <3> QED
      BY <3>2, <3>4, <3>5
  <2>4. CASE SweepStep /\ ~ApplySweep
    BY <2>4, <1>1 DEF SweepStep, BeginSweep, SweepFindsAlive, SweepFindsNothing
  <2>5. CASE Crash
    BY <2>5 DEF Crash
  <2>6. CASE Restart
    BY <2>6, <1>1, EmptyTableIs DEF Restart, IndInv, Stopped
  <2>7. CASE NodesTick
    BY <2>7, <1>1 DEF NodesTick, Aged
  <2>8. ASSUME NEW m \in Nodes, NodeChanges(m)
        PROVE  FALSE
    BY <2>8, <1>1 DEF NodeChanges
  <2> QED
    BY <1>1, <2>1, <2>2, <2>3, <2>4, <2>5, <2>6, <2>7, <2>8 DEF NodesNext
<1> HIDE DEF Cause
<1>2. IndInv /\ [NodesNext]_nodes_vars => [\A n \in DOMAIN nodes \ DOMAIN nodes' : Cause(n)]_nodes_vars
  BY <1>1
<1>3. NodesSpec => [][\A n \in DOMAIN nodes \ DOMAIN nodes' : Cause(n)]_nodes_vars
  BY Inductive, <1>2, PTL DEF NodesSpec
<1> QED
  BY <1>3 DEF SweepRemovesOnlyDead, Cause

-----------------------------------------------------------------------------
\* One node by itself (NodeProbe), for any submissions: first, the addresses that
\* may be probed.

\* The masks of the octets are ranges.
LEMMA MasksOfOctets ==
  ASSUME NEW x \in 0..255
  PROVE  /\ AndU8(x, 192) = 64 <=> x \in 64..127
         /\ AndU8(x, 254) = 18 <=> x \in 18..19
<1>1. AndU8(x, 192) = x - (x % 64) /\ AndU8(x, 254) = x - (x % 2)
  BY DEF AndU8
<1> QED BY SMT, <1>1

\* Segments are two bytes.
LEMMA BytesOfSegment ==
  ASSUME NEW x \in U16
  PROVE  x \in Nat /\ x <= 65535 /\ x \div 256 \in U8 /\ x % 256 \in U8
<1>1. x \in Nat /\ x <= 65535
  BY SMT DEF U16
<1>2. /\ x \div 256 \in Int /\ x % 256 \in 0..255
      /\ x = 256 * (x \div 256) + (x % 256)
  BY SMT, <1>1
<1>3. x \div 256 \in 0..255
  BY SMT, <1>1, <1>2
<1> QED BY SMT, <1>1, <1>2, <1>3 DEF U8

\* So are those of the segments.
LEMMA MasksOfSegments ==
  ASSUME NEW x \in U16
  PROVE  /\ AndU16(x, 65280) = 65280 <=> x \in 65280..65535
         /\ AndU16(x, 65024) = 64512 <=> x \in 64512..65023
         /\ AndU16(x, 65472) = 65152 <=> x \in 65152..65215
<1>0. x \in Nat /\ x <= 65535
  BY BytesOfSegment
<1>1. /\ AndU16(x, 65280) = x - (x % 256)
      /\ AndU16(x, 65024) = x - (x % 512)
      /\ AndU16(x, 65472) = x - (x % 64)
  BY SMT, <1>0 DEF AndU16
<1>2. x - (x % 256) = 65280 <=> x \in 65280..65535
  BY SMT, <1>0
<1>3. x - (x % 512) = 64512 <=> x \in 64512..65023
  <2>1. x \in 64512..65023 => x % 512 = x - 64512
    <3>1. /\ x \in Int /\ x % 512 \in 0..511 /\ x \div 512 \in Int
          /\ x = 512 * (x \div 512) + (x % 512)
      BY SMT, <1>0
    <3> DEFINE q == x \div 512
    <3>2. q \in Int /\ (q <= 125 \/ q = 126 \/ q >= 127)
      BY <3>1
    <3>3. x = 512 * q + (x % 512)
      BY <3>1
    <3> HIDE DEF q
    <3>4. q <= 125 => 512 * q <= 64000
      BY <3>2
    <3>5. q >= 127 => 512 * q >= 65024
      BY <3>2
    <3> QED BY SMT, <3>1, <3>2, <3>3, <3>4, <3>5
  <2>2. x % 512 \in 0..511
    BY SMT, <1>0
  <2> QED BY SMT, <1>0, <2>1, <2>2
<1>4. x - (x % 64) = 65152 <=> x \in 65152..65215
  BY SMT, <1>0
<1> QED BY SMT, <1>1, <1>2, <1>3, <1>4

\* is_public_v4 lets through what is in none of the blocks.
LEMMA PublicV4 ==
  ASSUME NEW o \in [1..4 -> U8]
  PROVE  is_public_v4(o) <=> ~ReservedV4(o)
<1>1. PICK a, b, c, d \in U8 : a = o[1] /\ b = o[2] /\ c = o[3] /\ d = o[4]
  <2>1. o[1] \in U8 /\ o[2] \in U8 /\ o[3] \in U8 /\ o[4] \in U8
    BY SMT
  <2> QED BY <2>1, Zenon
<1>2. /\ o = <<0, 0, 0, 0>> <=> a = 0 /\ b = 0 /\ c = 0 /\ d = 0
      /\ o = <<255, 255, 255, 255>> <=> a = 255 /\ b = 255 /\ c = 255 /\ d = 255
  BY SMT, <1>1
<1>3. /\ SubSeq(o, 1, 3) = <<192, 0, 2>> <=> a = 192 /\ b = 0 /\ c = 2
      /\ SubSeq(o, 1, 3) = <<198, 51, 100>> <=> a = 198 /\ b = 51 /\ c = 100
      /\ SubSeq(o, 1, 3) = <<203, 0, 113>> <=> a = 203 /\ b = 0 /\ c = 113
  <2>1. PICK t : t = SubSeq(o, 1, 3)
    OBVIOUS
  <2>2. t \in Seq(U8) /\ Len(t) = 3 /\ \A i \in 1..3 : t[i] = o[i]
    <3>1. \A i \in 1..3 : o[i] \in U8
      BY SMT
    <3> QED BY SMT, <2>1, <3>1, SubSeqProperties
  <2>3. t \in [1..3 -> U8] /\ t[1] = a /\ t[2] = b /\ t[3] = c
    BY SMT, <1>1, <2>2
  <2>4. /\ t = <<192, 0, 2>> <=> a = 192 /\ b = 0 /\ c = 2
        /\ t = <<198, 51, 100>> <=> a = 198 /\ b = 51 /\ c = 100
        /\ t = <<203, 0, 113>> <=> a = 203 /\ b = 0 /\ c = 113
    BY SMT, <2>3
  <2> QED BY SMT, <2>1, <2>4
<1>4. /\ AndU8(b, 192) = 64 <=> b \in 64..127
      /\ AndU8(b, 254) = 18 <=> b \in 18..19
  BY SMT, MasksOfOctets DEF U8
<1>5. is_public_v4(o) <=>
        ~ \/ a = 0 /\ b = 0 /\ c = 0 /\ d = 0
          \/ a = 127 \/ a = 10
          \/ a = 172 /\ b \in 16..31
          \/ a = 192 /\ b = 168
          \/ a = 169 /\ b = 254
          \/ a = 192 /\ b = 0 /\ c = 2
          \/ a = 198 /\ b = 51 /\ c = 100
          \/ a = 203 /\ b = 0 /\ c = 113
          \/ a \in 224..239
          \/ a = 100 /\ b \in 64..127
          \/ a = 192 /\ b = 0 /\ c = 0
          \/ a = 198 /\ b \in 18..19
          \/ a >= 240
  BY SMT, <1>1, <1>2, <1>3, <1>4 DEF is_public_v4, StdSpecialV4, U8
<1>6. ReservedV4(o) <=>
        LET n == (a * 256 + b) * 256 + c
        IN  \/ a = 0 /\ b = 0 /\ c = 0 /\ d = 0
            \/ 655360 <= n /\ n <= 720895
            \/ 6569984 <= n /\ n <= 6586367
            \/ 8323072 <= n /\ n <= 8388607
            \/ 11140608 <= n /\ n <= 11140863
            \/ 11276288 <= n /\ n <= 11280383
            \/ n = 12582912
            \/ n = 12582914
            \/ 12625920 <= n /\ n <= 12626175
            \/ 12980736 <= n /\ n <= 12981247
            \/ n = 12989284
            \/ n = 13303921
            \/ 14680064 <= n /\ n <= 16777215
  BY SMT, <1>1, <1>2 DEF ReservedV4, InRange, Block, U8
<1> QED BY SMT, <1>5, <1>6 DEF U8

\* The first six segments, as the code and the reference compare them.
LEMMA FirstSix ==
  ASSUME NEW s \in [1..8 -> U16]
  PROVE  /\ SubSeq(s, 1, 6) = <<0, 0, 0, 0, 0, 0>> <=> \A i \in 1..6 : s[i] = 0
         /\ SubSeq(s, 1, 6) = <<0, 0, 0, 0, 0, 65535>> =>
              s[1] = 0 /\ s[6] = 65535
<1>1. PICK t : t = SubSeq(s, 1, 6)
  OBVIOUS
<1>2. t \in Seq(U16) /\ Len(t) = 6 /\ \A i \in 1..6 : t[i] = s[i]
  <2>1. \A i \in 1..6 : s[i] \in U16
    BY SMT
  <2> QED BY SMT, <1>1, <2>1, SubSeqProperties
<1>3. t \in [1..6 -> U16]
  BY SMT, <1>2
<1>4. t = <<0, 0, 0, 0, 0, 0>> <=> \A i \in 1..6 : t[i] = 0
  BY SMT, <1>3
<1>5. t = <<0, 0, 0, 0, 0, 65535>> => t[1] = 0 /\ t[6] = 65535
  BY SMT, <1>3
<1> QED BY SMT, <1>1, <1>2, <1>4, <1>5

LEMMA UnmappedType ==
  ASSUME NEW s \in [1..8 -> U16]
  PROVE  Unmapped(s) \in [1..4 -> U8]
<1>1. s[7] \in U16 /\ s[8] \in U16
  OBVIOUS
<1>2. \A x \in U16 : x \div 256 \in U8 /\ x % 256 \in U8
  BY BytesOfSegment
<1>3. PICK a, b, c, d \in U8 : Unmapped(s) = <<a, b, c, d>>
  <2>1. /\ s[7] \div 256 \in U8 /\ s[7] % 256 \in U8
        /\ s[8] \div 256 \in U8 /\ s[8] % 256 \in U8
    BY <1>1, <1>2
  <2> QED BY <2>1 DEF Unmapped
<1> QED BY <1>3

\* The same of an IPv6 address, an embedded IPv4 one included.
LEMMA PublicV6 ==
  ASSUME NEW s \in [1..8 -> U16]
  PROVE  is_public_probe_target(V6(s)) <=> ~ReservedV6(s)
<1>1. is_public_probe_target(V6(s)) <=>
        /\ ~StdSpecialV6(s)
        /\ IF IsMapped(s) THEN is_public_v4(Unmapped(s))
           ELSE SubSeq(s, 1, 6) # <<0, 0, 0, 0, 0, 0>> /\ is_public_v6(s)
  BY DEF is_public_probe_target, V6
<1>2. is_public_v4(Unmapped(s)) <=> ~ReservedV4(Unmapped(s))
  BY UnmappedType, PublicV4
<1>3. s[1] \in U16 /\ s[1] \in Nat /\ s[1] <= 65535 /\ s[2] \in U16
  <2>1. s[1] \in U16 /\ s[2] \in U16
    OBVIOUS
  <2> QED BY <2>1, BytesOfSegment
<1>4. /\ AndU16(s[1], 65280) = 65280 <=> s[1] \in 65280..65535
      /\ AndU16(s[1], 65024) = 64512 <=> s[1] \in 64512..65023
      /\ AndU16(s[1], 65472) = 65152 <=> s[1] \in 65152..65215
  BY SMT, <1>3, MasksOfSegments
<1>5. is_public_v6(s) <=> ~ \/ s[1] \in 64512..65023
                            \/ s[1] \in 65152..65215
                            \/ s[1] = 8193 /\ s[2] = 3512
  BY SMT, <1>4 DEF is_public_v6
<1>6. StdSpecialV6(s) <=> \/ \A i \in 1..7 : s[i] = 0 /\ s[8] \in {0, 1}
                          \/ s[1] \in 65280..65535
  BY SMT, <1>4 DEF StdSpecialV6
<1>7. CASE IsMapped(s)
  <2>1. s[1] = 0 /\ s[6] = 65535
    BY SMT, <1>7, FirstSix DEF IsMapped
  <2>2. SubSeq(s, 1, 6) # <<0, 0, 0, 0, 0, 0>>
    BY SMT, <2>1, FirstSix
  <2>3. ~StdSpecialV6(s)
    BY SMT, <1>6, <2>1
  <2> QED BY SMT, <1>1, <1>2, <1>7, <2>1, <2>2, <2>3 DEF ReservedV6
<1>8. CASE ~IsMapped(s)
  <2>1. (\A i \in 1..7 : s[i] = 0 /\ s[8] \in {0, 1}) =>
          SubSeq(s, 1, 6) = <<0, 0, 0, 0, 0, 0>>
    BY FirstSix
  <2>2. ReservedV6(s) <=> \/ SubSeq(s, 1, 6) = <<0, 0, 0, 0, 0, 0>>
                          \/ s[1] \in 64512..65023
                          \/ s[1] \in 65152..65215
                          \/ s[1] \in 65280..65535
                          \/ s[1] = 8193 /\ s[2] = 3512
    BY SMT, <1>8 DEF ReservedV6
  <2> QED BY SMT, <1>1, <1>5, <1>6, <1>8, <2>1, <2>2
<1> QED BY SMT, <1>7, <1>8

\* The masks cover the blocks, whatever the address is.
LEMMA PublicIsNotReserved ==
  ASSUME NEW ip \in IpAddresses
  PROVE  is_public_probe_target(ip) <=> ~Reserved(ip)
<1>1. CASE ip \in [version : {4}, parts : [1..4 -> U8]]
  <2>1. ip.parts \in [1..4 -> U8] /\ ip.version = 4
    BY SMT, <1>1
  <2> QED BY SMT, <2>1, PublicV4 DEF is_public_probe_target, Reserved
<1>2. CASE ip \in [version : {6}, parts : [1..8 -> U16]]
  <2>1. ip.parts \in [1..8 -> U16] /\ ip.version = 6 /\ ip = V6(ip.parts)
    BY SMT, <1>2 DEF V6
  <2>2. is_public_probe_target(ip) <=> ~ReservedV6(ip.parts)
    BY SMT, <2>1, PublicV6
  <2> QED BY SMT, <2>1, <2>2 DEF Reserved
<1> QED BY SMT, <1>1, <1>2 DEF IpAddresses

-----------------------------------------------------------------------------
\* The parts of a spelling, and of its key.
LEMMA SpellingParts ==
  ASSUME NEW a \in Spellings
  PROVE  /\ a.scheme \in Schemes /\ a.lower \in BOOLEAN /\ a.host \in Names
         /\ a.bracketed \in BOOLEAN
         /\ a.port \in Ports \cup {Absent} /\ a.slash \in BOOLEAN
         /\ a.path \in Paths \cup {NoPath}
         /\ a = [scheme |-> a.scheme, lower |-> a.lower, host |-> a.host,
                 bracketed |-> a.bracketed, port |-> a.port, slash |-> a.slash,
                 path |-> a.path]
         /\ a.path # NoPath => a.slash
  BY DEF Spellings, Spelling

LEMMA PortIsSpelled ==
  ASSUME NEW a \in Spellings
  PROVE  Port(a) \in Ports /\ Port(a) # Absent /\ Port(a) \in Nat
<1>1. DefaultPort(a.scheme) \in {80, 443, 11010}
  BY DEF DefaultPort
<1> QED BY <1>1, SpellingParts, ProbeAssumption DEF Port, AddressAssumption

LEMMA PortsAreU16 ==
  ASSUME NEW n \in PortNumbers
  PROVE  IsU16(n)
  BY SMT DEF PortNumbers, IsU16

\* The key of an accepted address can be spelled: it has no brackets only if its
\* host has no colon.
KeyIs(k, a) ==
  /\ k = normalize_community_node_address(a)
  /\ k.scheme = a.scheme /\ k.lower = TRUE /\ k.host = a.host
  /\ k.bracketed = (a.host \in WithColon)
  /\ k.port = Port(a) /\ k.slash = (a.path # NoPath) /\ k.path = a.path

LEMMA KeyParts ==
  ASSUME NEW a \in Spellings, Port(a) \in PortNumbers
  PROVE  \E k \in Spellings : KeyIs(k, a) /\ Port(k) = Port(a)
<1> DEFINE k == normalize_community_node_address(a)
<1>1. /\ a \in Spelling /\ (a.path # NoPath) \in BOOLEAN /\ Port(a) \in Ports
      /\ (a.host \in WithColon) \in BOOLEAN
  BY PortIsSpelled DEF Spellings
<1>2. /\ k \in Spelling
      /\ k.scheme = a.scheme /\ k.lower = TRUE /\ k.host = a.host
      /\ k.bracketed = (a.host \in WithColon)
      /\ k.port = Port(a) /\ k.slash = (a.path # NoPath) /\ k.path = a.path
  BY <1>1 DEF normalize_community_node_address, Spelling
<1>3. Port(k) = Port(a)
  <2>1. k.port = Port(a)
    BY <1>2
  <2>2. \A x : x.port # Absent => Port(x) = x.port
    BY DEF Port
  <2> HIDE DEF k
  <2> QED BY <2>1, <2>2, PortIsSpelled
<1>4. IsU16(k.port) /\ k.port # Absent
  <2>1. IsU16(Port(a))
    BY PortsAreU16
  <2> QED BY <1>2, <2>1, PortIsSpelled
<1>5. k \in Spellings
  <2> HIDE DEF k
  <2> QED BY <1>2, <1>4 DEF Spellings
<1> QED BY <1>2, <1>3, <1>5 DEF KeyIs

LEMMA SameParts ==
  ASSUME NEW k \in Spellings, NEW l \in Spellings
  PROVE  k = l <=> /\ k.scheme = l.scheme /\ k.lower = l.lower /\ k.host = l.host
                   /\ k.bracketed = l.bracketed /\ k.port = l.port
                   /\ k.slash = l.slash /\ k.path = l.path
  BY SpellingParts

\* Two spellings have one key if and only if they mean the same node.
LEMMA KeyOfNode ==
  ASSUME NEW a \in Spellings, NEW b \in Spellings,
         Port(a) \in PortNumbers, Port(b) \in PortNumbers
  PROVE  normalize_community_node_address(b) = normalize_community_node_address(a)
           <=> SameNode(a, b)
<1>1. PICK k \in Spellings : KeyIs(k, a)
  BY KeyParts
<1>2. PICK l \in Spellings : KeyIs(l, b)
  BY KeyParts
<1>3. k = l <=> a.scheme = b.scheme /\ a.host = b.host /\ a.path = b.path
                  /\ Port(a) = Port(b)
  <2>1. k = l <=> /\ k.scheme = l.scheme /\ k.lower = l.lower /\ k.host = l.host
                  /\ k.bracketed = l.bracketed /\ k.port = l.port
                  /\ k.slash = l.slash /\ k.path = l.path
    BY SameParts
  <2> QED BY <1>1, <1>2, <2>1, Zenon DEF KeyIs
<1> DEFINE port(x) == IF x.port \in {Absent, DefaultPort(x.scheme)} THEN Absent ELSE x.port
<1>4. a.scheme = b.scheme => (Port(a) = Port(b) <=> port(a) = port(b))
  <2>1. a.port \in Ports \cup {Absent} /\ b.port \in Ports \cup {Absent}
    BY SpellingParts
  <2>2. Port(a) # Absent /\ Port(b) # Absent
    BY PortIsSpelled
  <2> QED BY <2>1, <2>2 DEF Port
<1>5. SameNode(a, b) <=> a.scheme = b.scheme /\ a.host = b.host /\ a.path = b.path
                           /\ port(a) = port(b)
  BY DEF SameNode
<1>6. k = normalize_community_node_address(a) /\ l = normalize_community_node_address(b)
  BY <1>1, <1>2 DEF KeyIs
<1> QED BY <1>3, <1>4, <1>5, <1>6, Zenon

\* A key is its own key.
LEMMA KeyOfKey ==
  ASSUME NEW a \in Spellings, Port(a) \in PortNumbers
  PROVE  normalize_community_node_address(normalize_community_node_address(a))
           = normalize_community_node_address(a)
<1>1. PICK k \in Spellings : KeyIs(k, a) /\ Port(k) = Port(a)
  BY KeyParts
<1>2. PICK l \in Spellings : KeyIs(l, k)
  BY <1>1, KeyParts
<1>3. k = l
  <2>1. k = l <=> /\ k.scheme = l.scheme /\ k.lower = l.lower /\ k.host = l.host
                  /\ k.bracketed = l.bracketed /\ k.port = l.port
                  /\ k.slash = l.slash /\ k.path = l.path
    BY SameParts
  <2> QED BY <1>1, <1>2, <2>1, Zenon DEF KeyIs
<1> QED BY <1>1, <1>2, <1>3 DEF KeyIs

\* What normalising may add to an address.
GrowsByKey(a) == a.port = Absent \/ (~a.bracketed /\ a.host \in WithColon)

\* The key of an address that is taken is refused only for its length, and has
\* grown by the port or by brackets.
LEMMA KeyIsTooLong ==
  ASSUME NEW a \in Spellings, Accepted(a),
         ~Accepted(normalize_community_node_address(a))
  PROVE  Length(normalize_community_node_address(a)) > MaxLength /\ GrowsByKey(a)
<1>0. Port(a) \in PortNumbers
  BY DEF Accepted
<1>1. PICK k \in Spellings : KeyIs(k, a) /\ Port(k) = Port(a)
  BY <1>0, KeyParts
<1>2. ~(Length(k) <= MaxLength) /\ Length(a) <= MaxLength
  <2>1. ~Accepted(k) /\ k.scheme = a.scheme
    BY <1>1 DEF KeyIs
  <2> QED BY <1>1, <2>1 DEF Accepted
<1> DEFINE rest(x) == (IF x.scheme = "http" THEN 4 ELSE IF x.scheme = "ws" THEN 2 ELSE 3) + 3
                        + NameLength[x.host]
           brackets(x) == IF x.bracketed THEN 2 ELSE 0
           slash(x) == IF x.slash THEN 1 ELSE 0
           path(x) == IF x.path = NoPath THEN 0 ELSE PathLength[x.path]
<1>3. rest(a) \in Nat /\ path(a) \in Nat /\ MaxLength \in Nat
  BY SpellingParts, ProbeAssumption DEF AddressAssumption
<1>4. PortLength(a.port) \in Nat /\ PortLength(k.port) \in Nat
  BY DEF PortLength, Digits
<1>5. /\ Length(a) = rest(a) + brackets(a) + PortLength(a.port) + slash(a) + path(a)
      /\ Length(k) = rest(k) + brackets(k) + PortLength(k.port) + slash(k) + path(k)
  BY DEF Length
<1>6. rest(k) = rest(a) /\ path(k) = path(a) /\ slash(k) <= slash(a)
  BY <1>1, SpellingParts DEF KeyIs
<1>7. /\ slash(a) \in Nat /\ slash(k) \in Nat
      /\ brackets(a) \in Nat /\ brackets(k) \in Nat
  OBVIOUS
<1>8. ~GrowsByKey(a) => k.port = a.port /\ brackets(k) <= brackets(a)
  BY <1>1, SpellingParts DEF Port, KeyIs, GrowsByKey
<1> HIDE DEF rest, slash, path, brackets
<1>9. Length(k) \in Nat /\ Length(a) \in Nat
  BY <1>3, <1>4, <1>5, <1>6, <1>7
<1>10. ~GrowsByKey(a) => Length(k) <= Length(a)
  BY <1>3, <1>4, <1>5, <1>6, <1>7, <1>8
<1>11. k = normalize_community_node_address(a)
  BY <1>1 DEF KeyIs
<1> QED BY <1>2, <1>3, <1>9, <1>10, <1>11

-----------------------------------------------------------------------------
\* What Probeable takes, address by address.
Takes(g, s, n) ==
  \A i \in 0..n :
    g[i] = IF i = 0 THEN <<>>
           ELSE IF MayProbe(s[i]) /\ Len(g[i - 1]) < MaxTargets
                THEN Append(g[i - 1], s[i])
                ELSE g[i - 1]

LEMMA TakenExists ==
  ASSUME NEW s \in Seq(IpAddresses)
  PROVE  \E g \in [0..Len(s) -> Seq(IpAddresses)] : Takes(g, s, Len(s))
<1> DEFINE n == Len(s)
           S == {m \in 0..n : \E g \in [0..m -> Seq(IpAddresses)] : Takes(g, s, m)}
<1>0. n \in Nat /\ \A i \in 1..n : s[i] \in IpAddresses
  OBVIOUS
<1> HIDE DEF n
<1>1. 0 \in S
  <2> DEFINE g == [i \in 0..0 |-> <<>>]
  <2>1. g \in [0..0 -> Seq(IpAddresses)] /\ Takes(g, s, 0)
    BY DEF Takes
  <2>2. \E f \in [0..0 -> Seq(IpAddresses)] : Takes(f, s, 0)
    BY <2>1, Zenon
  <2>3. 0 \in 0..n
    BY <1>0
  <2> QED BY <2>2, <2>3
<1>2. ASSUME NEW m \in 0..n, m > 0, m - 1 \in S PROVE m \in S
  <2>1. PICK g \in [0..(m - 1) -> Seq(IpAddresses)] : Takes(g, s, m - 1)
    BY <1>2
  <2>2. g[m - 1] \in Seq(IpAddresses) /\ s[m] \in IpAddresses /\ m \in Nat
    BY <1>0, <1>2
  <2>3. PICK last \in Seq(IpAddresses) :
          last = IF MayProbe(s[m]) /\ Len(g[m - 1]) < MaxTargets
                 THEN Append(g[m - 1], s[m]) ELSE g[m - 1]
    <3>1. Append(g[m - 1], s[m]) \in Seq(IpAddresses)
      BY <2>2, AppendProperties
    <3> QED BY <2>2, <3>1, Zenon
  <2> DEFINE h == [i \in 0..m |-> IF i = m THEN last ELSE g[i]]
  <2>4. h \in [0..m -> Seq(IpAddresses)]
    BY <1>0, <1>2
  <2>5. Takes(h, s, m)
    <3> SUFFICES ASSUME NEW i \in 0..m
                 PROVE  h[i] = IF i = 0 THEN <<>>
                               ELSE IF MayProbe(s[i]) /\ Len(h[i - 1]) < MaxTargets
                                    THEN Append(h[i - 1], s[i])
                                    ELSE h[i - 1]
      BY DEF Takes
    <3>1. CASE i = m
      <4>1. h[i] = last /\ i # 0 /\ h[i - 1] = g[m - 1]
        BY <1>0, <1>2, <3>1
      <4> QED BY <2>3, <3>1, <4>1
    <3>2. CASE i # m
      <4>1. i \in 0..(m - 1) /\ h[i] = g[i] /\ (i # 0 => h[i - 1] = g[i - 1])
        BY <1>0, <1>2, <3>2
      <4> QED BY <2>1, <4>1 DEF Takes
    <3> QED BY <3>1, <3>2
  <2> QED BY <2>4, <2>5
<1>3. n \in S
  <2>1. \A m \in 0..n : m > 0 /\ m - 1 \in S => m \in S
    BY <1>2
  <2> HIDE DEF S
  <2>2. \A m \in 0..n : m \in S
    BY <1>0, <1>1, <2>1, UpTo
  <2> QED BY <1>0, <2>2
<1> QED BY <1>3 DEF n

\* The targets come from the addresses, are at most MaxTargets and may be probed;
\* if they are fewer, they are all that may.
Targets(t, s) ==
  /\ t \in Seq(IpAddresses)
  /\ Len(t) <= MaxTargets
  /\ \A i \in 1..Len(t) : MayProbe(t[i]) /\ t[i] \in ElementsOf(s)
  /\ Len(t) < MaxTargets => \A ip \in ElementsOf(s) : MayProbe(ip) => ip \in ElementsOf(t)

LEMMA ProbeableTakes ==
  ASSUME NEW s \in Seq(IpAddresses)
  PROVE  Targets(Probeable(s), s)
<1> DEFINE n == Len(s)
           step(g, i) == IF i = 0 THEN <<>>
                         ELSE IF MayProbe(s[i]) /\ Len(g[i - 1]) < MaxTargets
                              THEN Append(g[i - 1], s[i])
                              ELSE g[i - 1]
           R == CHOOSE g : g = [i \in 0..n |-> step(g, i)]
<1>1. PICK g \in [0..n -> Seq(IpAddresses)] : Takes(g, s, n)
  BY TakenExists
<1>2. g = [i \in 0..n |-> step(g, i)]
  BY <1>1 DEF Takes
<1>3. R = [i \in 0..n |-> step(R, i)]
  BY <1>2, Zenon
<1>4. Probeable(s) = R[n]
  BY Zenon DEF Probeable
<1>5. n \in Nat /\ \A i \in 1..n : s[i] \in IpAddresses
  OBVIOUS
<1>6. MaxTargets \in Nat \ {0}
  BY ProbeAssumption
<1> HIDE DEF R
<1>7. /\ R[0] = <<>>
      /\ \A i \in 1..n : R[i] = IF MayProbe(s[i]) /\ Len(R[i - 1]) < MaxTargets
                                THEN Append(R[i - 1], s[i]) ELSE R[i - 1]
  <2>1. \A i \in 0..n : R[i] = step(R, i)
    BY <1>3, Zenon
  <2> QED BY <1>5, <2>1
<1> HIDE DEF n, step
<1> DEFINE Good(i) ==
             /\ R[i] \in Seq(IpAddresses)
             /\ Len(R[i]) <= MaxTargets
             /\ \A j \in 1..Len(R[i]) : MayProbe(R[i][j]) /\ R[i][j] \in ElementsOf(s)
             /\ Len(R[i]) < MaxTargets =>
                  \A j \in 1..i : MayProbe(s[j]) => \E k \in 1..Len(R[i]) : R[i][k] = s[j]
           S == {i \in 0..n : Good(i)}
<1>8. 0 \in S
  <2>1. R[0] \in Seq(IpAddresses) /\ Len(R[0]) = 0
    BY <1>7
  <2>2. 0 \in 0..n /\ 1..0 = {}
    BY <1>5
  <2> QED BY <1>6, <2>1, <2>2
<1>9. ASSUME NEW i \in 0..n, i > 0, i - 1 \in S PROVE i \in S
  <2>1. Good(i - 1) /\ i \in 1..n /\ s[i] \in IpAddresses
    BY <1>5, <1>9
  <2>2. CASE ~(MayProbe(s[i]) /\ Len(R[i - 1]) < MaxTargets)
    <3>1. R[i] = R[i - 1]
      BY <1>7, <2>1, <2>2
    <3>2. \A j \in 1..i : j = i \/ j \in 1..(i - 1)
      BY <1>5
    <3> QED BY <2>1, <2>2, <3>1, <3>2
  <2>3. CASE MayProbe(s[i]) /\ Len(R[i - 1]) < MaxTargets
    <3>1. PICK p \in Seq(IpAddresses) : p = R[i - 1]
      BY <2>1
    <3>2. R[i] = Append(p, s[i])
      BY <1>7, <2>1, <2>3, <3>1
    <3>3. PICK q \in Seq(IpAddresses) : q = R[i]
      BY <2>1, <3>1, <3>2, AppendProperties
    <3>4. /\ Len(q) = Len(p) + 1 /\ q[Len(q)] = s[i]
          /\ \A j \in 1..Len(p) : q[j] = p[j]
      BY <2>1, <3>1, <3>2, <3>3
    <3>5. Len(p) \in Nat /\ Len(q) \in Nat /\ Len(q) <= MaxTargets
      BY <1>6, <2>3, <3>1, <3>4
    <3>6. s[i] \in ElementsOf(s)
      BY <2>1 DEF ElementsOf, n
    <3>7. \A j \in 1..Len(q) : MayProbe(q[j]) /\ q[j] \in ElementsOf(s)
      <4> SUFFICES ASSUME NEW j \in 1..Len(q)
                   PROVE  MayProbe(q[j]) /\ q[j] \in ElementsOf(s)
        OBVIOUS
      <4>1. CASE j = Len(q)
        BY <2>3, <3>4, <3>6, <4>1
      <4>2. CASE j # Len(q)
        <5>1. j \in 1..Len(p)
          BY <3>4, <3>5, <4>2
        <5> QED BY <2>1, <3>1, <3>4, <5>1
      <4> QED BY <4>1, <4>2
    <3>8. \A j \in 1..i : MayProbe(s[j]) => \E k \in 1..Len(q) : q[k] = s[j]
      <4> SUFFICES ASSUME NEW j \in 1..i, MayProbe(s[j])
                   PROVE  \E k \in 1..Len(q) : q[k] = s[j]
        OBVIOUS
      <4>1. CASE j = i
        BY <3>4, <3>5, <4>1
      <4>2. CASE j # i
        <5>1. j \in 1..(i - 1)
          BY <1>5, <4>2
        <5>2. PICK k \in 1..Len(p) : p[k] = s[j]
          BY <2>1, <2>3, <3>1, <5>1
        <5>3. k \in 1..Len(q) /\ q[k] = s[j]
          BY <3>4, <3>5, <5>2
        <5> QED BY <5>3
      <4> QED BY <4>1, <4>2
    <3> QED BY <3>3, <3>5, <3>7, <3>8
  <2> QED BY <2>2, <2>3
<1>10. Good(n)
  <2>1. \A i \in 0..n : i > 0 /\ i - 1 \in S => i \in S
    BY <1>9
  <2>2. \A i \in 0..n : i \in S
    <3> HIDE DEF S
    <3> QED BY <1>5, <1>8, <2>1, UpTo
  <2>3. n \in S
    <3>1. n \in 0..n
      BY <1>5
    <3> HIDE DEF S
    <3> QED BY <2>2, <3>1
  <2> HIDE DEF Good
  <2> QED BY <2>3
<1>11. \A ip \in ElementsOf(s) : \E j \in 1..n : ip = s[j]
  BY DEF ElementsOf, n
<1>12. \A k \in 1..Len(R[n]) : R[n][k] \in ElementsOf(R[n])
  BY DEF ElementsOf
<1> QED BY <1>4, <1>10, <1>11, <1>12 DEF Targets

-----------------------------------------------------------------------------
\* The inductive invariant of NodeProbe.

\* Past the address, the case is a submission that is taken, under its key.
Known ==
  outcome \notin {"new", "refused"} =>
    /\ case \in Cases /\ Accepted(case.spelled)
    /\ key = normalize_community_node_address(case.spelled)

\* Before the name is resolved there are no targets.
Unresolved ==
  outcome \in {"new", "refused", "resolving"} =>
    targets = <<>> /\ tried = 0 /\ contacted = {}

\* The targets may be probed, and while the probe has not succeeded they are what
\* Probeable takes.
Taken ==
  /\ targets \in Seq(IpAddresses) /\ Len(targets) <= MaxTargets
  /\ \A i \in 1..Len(targets) : MayProbe(targets[i])
  /\ outcome \in {"tcp", "udp", "dead"} => Targets(targets, case.resolved) /\ targets # <<>>

\* No target that was tried listens; by UDP a udp:// node is tried after all of
\* them, and given up without a reply.
NoneListens ==
  /\ outcome \in {"tcp", "udp", "dead"} => \A i \in 1..tried : targets[i] \notin case.listening
  /\ outcome \in {"udp", "dead"} => tried = Len(targets)
  /\ outcome = "udp" => case.spelled.scheme = "udp"
  /\ outcome = "dead" /\ case.spelled.scheme = "udp" => case.udp[targets[1]] # "reply"

\* A restart loads the key or drops a node whose key is too long.
Restarted ==
  /\ outcome # "loaded" => loaded = Absent
  /\ outcome = "loaded" => loaded = key
  /\ outcome = "dropped" => Length(key) > MaxLength /\ GrowsByKey(case.spelled)

ProbeInv ==
  ProbeTypeOK /\ Known /\ Unresolved /\ Taken /\ NoneListens /\ AliveHasAnswered /\ Restarted

\* What a submission is, for the steps.
LEMMA CaseParts ==
  ASSUME NEW c \in Cases
  PROVE  /\ c.spelled \in Spellings /\ c.resolved \in Seq(IpAddresses)
         /\ c.listening \subseteq ElementsOf(c.resolved)
  BY ProbeAssumption

LEMMA ProbeInitInv == ProbeInit => ProbeInv
<1> SUFFICES ASSUME ProbeInit PROVE ProbeInv
  OBVIOUS
<1> USE DEF ProbeInit
<1>1. MaxTargets \in Nat
  BY ProbeAssumption
<1>2. targets \in Seq(IpAddresses) /\ Len(targets) = 0 /\ 1..0 = {} /\ ElementsOf(targets) = {}
  BY DEF ElementsOf
<1>3. ProbeTypeOK
  BY <1>2 DEF ProbeTypeOK, Outcomes
<1>4. Taken
  BY <1>1, <1>2 DEF Taken
<1>5. Known /\ Unresolved /\ NoneListens /\ AliveHasAnswered /\ Restarted
  BY DEF Known, Unresolved, NoneListens, AliveHasAnswered, Restarted
<1> QED BY <1>3, <1>4, <1>5 DEF ProbeInv

LEMMA SubmitAddressInv ==
  ASSUME ProbeInv, NEW c \in Cases, SubmitAddress(c)
  PROVE  ProbeInv'
<1> USE DEF SubmitAddress
<1>1. /\ targets = <<>> /\ tried = 0 /\ contacted = {} /\ loaded = Absent
      /\ key \in Spellings \cup {Absent}
  BY DEF ProbeInv, Unresolved, Restarted, ProbeTypeOK
<1>2. outcome' \in {"resolving", "refused"}
  OBVIOUS
<1>3. outcome' = "resolving" =>
        Accepted(c.spelled) /\ key' = normalize_community_node_address(c.spelled)
  OBVIOUS
<1>4. key' \in Spellings \cup {Absent}
  <2>1. Accepted(c.spelled) => normalize_community_node_address(c.spelled) \in Spellings
    <3>1. Accepted(c.spelled) => Port(c.spelled) \in PortNumbers
      BY DEF Accepted
    <3> QED BY <3>1, CaseParts, KeyParts DEF KeyIs
  <2> QED BY <1>1, <1>3, <2>1
<1>5. ElementsOf(targets') = {} /\ Len(targets') = 0
  BY <1>1 DEF ElementsOf
<1>6. ProbeTypeOK'
  BY <1>1, <1>2, <1>4, <1>5 DEF ProbeTypeOK, Outcomes
<1>7. Known'
  BY <1>2, <1>3 DEF Known
<1>8. Unresolved' /\ NoneListens' /\ AliveHasAnswered' /\ Restarted'
  BY <1>1, <1>2 DEF Unresolved, NoneListens, AliveHasAnswered, Restarted
<1>9. Taken'
  BY <1>2 DEF Taken, ProbeInv
<1> QED BY <1>6, <1>7, <1>8, <1>9 DEF ProbeInv

LEMMA ResolveInv ==
  ASSUME ProbeInv, Resolve
  PROVE  ProbeInv'
<1> USE DEF Resolve
<1>1. case \in Cases /\ tried = 0 /\ contacted = {} /\ loaded = Absent
  BY DEF ProbeInv, Known, Unresolved, Restarted
<1>2. Targets(targets', case.resolved)
  BY <1>1, CaseParts, ProbeableTakes
<1>3. outcome' \in {"blocked", "tcp"} /\ (outcome' = "tcp" => targets' # <<>>)
  OBVIOUS
<1>4. ElementsOf(targets') \subseteq ElementsOf(case.resolved) /\ Len(targets') \in Nat
  BY <1>2 DEF Targets, ElementsOf
<1>5. ProbeTypeOK'
  BY <1>1, <1>3, <1>4 DEF ProbeInv, ProbeTypeOK, Outcomes
<1>6. Known' /\ Unresolved'
  BY <1>3 DEF ProbeInv, Known, Unresolved
<1>7. Taken'
  BY <1>2, <1>3 DEF Taken, Targets
<1>8. NoneListens'
  BY <1>1, <1>3 DEF NoneListens
<1>9. AliveHasAnswered' /\ Restarted'
  BY <1>1, <1>3 DEF AliveHasAnswered, Restarted
<1> QED BY <1>5, <1>6, <1>7, <1>8, <1>9 DEF ProbeInv

LEMMA ResolveFailsInv ==
  ASSUME ProbeInv, ResolveFails
  PROVE  ProbeInv'
<1> USE DEF ResolveFails, ProbeInv
<1>1. ProbeTypeOK'
  BY DEF ProbeTypeOK, Outcomes
<1>2. Known' /\ Unresolved' /\ Taken'
  BY DEF Known, Unresolved, Taken
<1>3. NoneListens' /\ AliveHasAnswered' /\ Restarted'
  BY DEF NoneListens, AliveHasAnswered, Restarted
<1> QED BY <1>1, <1>2, <1>3

LEMMA ConnectInv ==
  ASSUME ProbeInv, Connect
  PROVE  ProbeInv'
<1> USE DEF Connect, Target
<1>1. /\ targets \in Seq(IpAddresses) /\ tried \in 0..Len(targets) /\ tried < Len(targets)
      /\ contacted \subseteq ElementsOf(targets)
  BY DEF ProbeInv, ProbeTypeOK, Taken
<1>2. PICK n \in 1..Len(targets) : n = tried + 1 /\ n = tried'
  BY <1>1
<1>3. targets[n] \in ElementsOf(targets)
  BY DEF ElementsOf
<1>4. contacted' = contacted \cup {targets[n]} /\ outcome' \in {"alive", "tcp"}
  BY <1>2
<1>5. ProbeTypeOK'
  BY <1>1, <1>2, <1>3, <1>4 DEF ProbeInv, ProbeTypeOK, Outcomes
<1>6. Known' /\ Unresolved'
  BY <1>4 DEF ProbeInv, Known, Unresolved
<1>7. Taken'
  BY <1>4 DEF ProbeInv, Taken
<1>8. NoneListens'
  <2>1. outcome' = "tcp" => targets[n] \notin case.listening
    BY <1>2
  <2>2. \A i \in 1..n : i = n \/ i \in 1..tried
    BY <1>1, <1>2
  <2>3. \A i \in 1..tried : targets[i] \notin case.listening
    BY DEF ProbeInv, NoneListens
  <2> QED BY <1>2, <1>4, <2>1, <2>2, <2>3 DEF NoneListens
<1>9. AliveHasAnswered'
  <2>1. outcome' = "alive" => targets[n] \in case.listening
    BY <1>2
  <2> QED BY <1>4, <2>1 DEF AliveHasAnswered
<1>10. Restarted'
  BY <1>4 DEF ProbeInv, Restarted
<1> QED BY <1>5, <1>6, <1>7, <1>8, <1>9, <1>10 DEF ProbeInv

LEMMA NoneConnectedInv ==
  ASSUME ProbeInv, NoneConnected
  PROVE  ProbeInv'
<1> USE DEF NoneConnected, AllTried
<1>1. outcome' \in {"udp", "dead"} /\ (outcome' = "udp" <=> key.scheme = "udp")
  BY DEF MayTryUdp
<1>2. key.scheme = case.spelled.scheme
  <2>1. /\ case \in Cases /\ key = normalize_community_node_address(case.spelled)
        /\ Port(case.spelled) \in PortNumbers
    BY DEF ProbeInv, Known, Accepted
  <2> QED BY <2>1, CaseParts, KeyParts DEF KeyIs
<1>3. ProbeTypeOK'
  BY <1>1 DEF ProbeInv, ProbeTypeOK, Outcomes
<1>4. Known' /\ Unresolved' /\ Taken'
  BY <1>1 DEF ProbeInv, Known, Unresolved, Taken
<1>5. NoneListens'
  BY <1>1, <1>2 DEF ProbeInv, NoneListens
<1>6. AliveHasAnswered' /\ Restarted'
  BY <1>1 DEF ProbeInv, AliveHasAnswered, Restarted
<1> QED BY <1>3, <1>4, <1>5, <1>6 DEF ProbeInv

LEMMA SendUdpInv ==
  ASSUME ProbeInv, SendUdp
  PROVE  ProbeInv'
<1> USE DEF SendUdp
<1>1. targets \in Seq(IpAddresses) /\ targets # <<>>
  BY DEF ProbeInv, Taken
<1>2. targets[1] \in ElementsOf(targets)
  BY <1>1 DEF ElementsOf
<1>3. /\ outcome' \in {"alive", "dead"}
      /\ outcome' = "alive" <=> case.udp[targets[1]] = "reply"
  BY DEF UdpVerdict
<1>4. ProbeTypeOK'
  BY <1>2, <1>3 DEF ProbeInv, ProbeTypeOK, Outcomes
<1>5. Known' /\ Unresolved' /\ Taken'
  BY <1>3 DEF ProbeInv, Known, Unresolved, Taken
<1>6. NoneListens' /\ Restarted'
  BY <1>3 DEF ProbeInv, NoneListens, Restarted
<1>7. AliveHasAnswered'
  BY <1>3 DEF ProbeInv, NoneListens, AliveHasAnswered
<1> QED BY <1>4, <1>5, <1>6, <1>7 DEF ProbeInv

LEMMA StoreInv ==
  ASSUME ProbeInv, Store
  PROVE  ProbeInv'
<1> USE DEF Store, ProbeInv
<1>1. ProbeTypeOK'
  BY DEF ProbeTypeOK, Outcomes
<1>2. Known' /\ Unresolved' /\ Taken'
  BY DEF Known, Unresolved, Taken
<1>3. NoneListens' /\ AliveHasAnswered' /\ Restarted'
  BY DEF NoneListens, AliveHasAnswered, Restarted
<1> QED BY <1>1, <1>2, <1>3

LEMMA ReloadInv ==
  ASSUME ProbeInv, Reload
  PROVE  ProbeInv'
<1> USE DEF Reload
<1>1. /\ case \in Cases /\ Accepted(case.spelled)
      /\ key = normalize_community_node_address(case.spelled)
  BY DEF ProbeInv, Known
<1>2. case.spelled \in Spellings /\ Port(case.spelled) \in PortNumbers
  BY <1>1, CaseParts DEF Accepted
<1>3. key \in Spellings /\ normalize_community_node_address(key) = key
  BY <1>1, <1>2, KeyParts, KeyOfKey DEF KeyIs
<1>4. \/ outcome' = "loaded" /\ loaded' = key
      \/ outcome' = "dropped" /\ loaded' = loaded /\ ~Accepted(key)
  BY <1>3
<1>5. ProbeTypeOK'
  BY <1>3, <1>4 DEF ProbeInv, ProbeTypeOK, Outcomes
<1>6. Known' /\ Unresolved' /\ Taken'
  BY <1>4 DEF ProbeInv, Known, Unresolved, Taken
<1>7. NoneListens' /\ AliveHasAnswered'
  BY <1>4 DEF ProbeInv, NoneListens, AliveHasAnswered
<1>8. Restarted'
  <2>1. ~Accepted(key) => Length(key) > MaxLength /\ GrowsByKey(case.spelled)
    BY <1>1, <1>2, KeyIsTooLong
  <2> QED BY <1>4, <2>1 DEF ProbeInv, Restarted
<1> QED BY <1>5, <1>6, <1>7, <1>8 DEF ProbeInv

LEMMA ProbeQuiet ==
  ASSUME ProbeInv, UNCHANGED probe_vars
  PROVE  ProbeInv'
  BY DEF probe_vars, ProbeInv, ProbeTypeOK, Known, Unresolved, Taken, NoneListens,
         AliveHasAnswered, Restarted

LEMMA ProbeInvariance == ProbeSpec => []ProbeInv
<1>1. ASSUME ProbeInv, [ProbeNext]_probe_vars PROVE ProbeInv'
  BY <1>1, SubmitAddressInv, ResolveInv, ResolveFailsInv, ConnectInv, NoneConnectedInv,
     SendUdpInv, StoreInv, ReloadInv, ProbeQuiet DEF ProbeNext
<1> QED BY <1>1, ProbeInitInv, PTL DEF ProbeSpec

\* A set of targets is no larger than their number.
LEMMA FewElements ==
  ASSUME NEW s \in Seq(IpAddresses), NEW T, T \subseteq ElementsOf(s)
  PROVE  Cardinality(T) \in Nat /\ Cardinality(T) <= Len(s)
<1> DEFINE n == Len(s)
           f == [i \in 1..n |-> s[i]]
<1>1. n \in Nat
  OBVIOUS
<1>2. IsFiniteSet(1..n) /\ Cardinality(1..n) = n
  <2> HIDE DEF n
  <2> QED BY <1>1, FS_Interval
<1>3. f \in Surjection(1..n, ElementsOf(s))
  BY DEF Surjection, ElementsOf
<1>4. IsFiniteSet(ElementsOf(s)) /\ Cardinality(ElementsOf(s)) <= n
  <2> HIDE DEF f, n
  <2> QED BY <1>2, <1>3, FS_Surjection
<1>5. Cardinality(T) <= Cardinality(ElementsOf(s)) /\ IsFiniteSet(T)
  BY <1>4, FS_Subset
<1>6. Cardinality(T) \in Nat /\ Cardinality(ElementsOf(s)) \in Nat
  BY <1>4, <1>5, FS_CardinalityType
<1> QED BY <1>1, <1>4, <1>5, <1>6

\* Whatever a name resolves to, is_public_probe_target accepts exactly what is in
\* none of the blocks it names, and resolve_probe_targets gives the probes nothing
\* else and no more than MaxTargets addresses.
THEOREM NamedBlocksAreRefused == ProbeSpec => []NamedBlocksRefused
<1>1. ProbeInv => NamedBlocksRefused
  <2> SUFFICES ASSUME ProbeInv PROVE NamedBlocksRefused
    OBVIOUS
  <2>1. MasksMatchBlocks
    <3> SUFFICES ASSUME case # Absent, NEW ip \in ElementsOf(case.resolved)
                 PROVE  is_public_probe_target(ip) <=> ~Reserved(ip)
      BY DEF MasksMatchBlocks
    <3>1. case \in Cases
      BY DEF ProbeInv, ProbeTypeOK
    <3>2. case.resolved \in Seq(IpAddresses)
      BY <3>1, CaseParts
    <3>3. ip \in IpAddresses
      BY <3>2 DEF ElementsOf
    <3> QED BY <3>3, PublicIsNotReserved
  <2>2. ASSUME ~AllowPrivate, NEW ip \in contacted PROVE ~Reserved(ip)
    <3>1. PICK i \in 1..Len(targets) : ip = targets[i]
      BY DEF ProbeInv, ProbeTypeOK, ElementsOf
    <3>2. ip \in IpAddresses /\ MayProbe(ip)
      BY <3>1 DEF ProbeInv, Taken
    <3> QED BY <2>2, <3>2, PublicIsNotReserved DEF MayProbe
  <2>3. Cardinality(contacted) <= MaxTargets
    <3>1. /\ contacted \subseteq ElementsOf(targets) /\ targets \in Seq(IpAddresses)
          /\ Len(targets) <= MaxTargets /\ MaxTargets \in Nat
      BY ProbeAssumption DEF ProbeInv, ProbeTypeOK, Taken
    <3>2. Cardinality(contacted) <= Len(targets)
      BY <3>1, FewElements
    <3>3. Cardinality(contacted) \in Nat
      BY <3>1, FewElements
    <3> QED BY <3>1, <3>2, <3>3
  <2> QED BY <2>1, <2>2, <2>3 DEF NamedBlocksRefused
<1> QED BY <1>1, ProbeInvariance, PTL

\* The verdict of probe_community_node is what the addresses answered: alive only
\* after a connection or a reply, dead only if no address that may be probed
\* listens, or none of the first MaxTargets, and for a udp:// node only if the
\* first of them sent no reply by UDP.
THEOREM VerdictsAreRight == ProbeSpec => []VerdictIsRight
<1>1. ProbeInv => VerdictIsRight
  <2> SUFFICES ASSUME ProbeInv PROVE VerdictIsRight
    OBVIOUS
  <2>1. ProbeTypeOK /\ AliveHasAnswered
    BY DEF ProbeInv
  <2>2. ReachableIsFound
    <3> SUFFICES ASSUME outcome = "dead"
                 PROVE  /\ ElementsOf(targets) \cap case.listening = {}
                        /\ \/ Len(targets) = MaxTargets
                           \/ \A ip \in case.listening : ~MayProbe(ip)
                        /\ case.spelled.scheme = "udp" => case.udp[targets[1]] # "reply"
      BY DEF ReachableIsFound
    <3>1. ElementsOf(targets) \cap case.listening = {}
      BY DEF ProbeInv, NoneListens, ElementsOf
    <3>2. case.listening \subseteq ElementsOf(case.resolved)
      BY CaseParts DEF ProbeInv, Known
    <3>3. Targets(targets, case.resolved)
      BY DEF ProbeInv, Taken
    <3>4. Len(targets) # MaxTargets => Len(targets) < MaxTargets
      BY <3>3, ProbeAssumption DEF Targets
    <3>5. case.spelled.scheme = "udp" => case.udp[targets[1]] # "reply"
      BY DEF ProbeInv, NoneListens
    <3> QED BY <3>1, <3>2, <3>3, <3>4, <3>5 DEF Targets
  <2> QED BY <2>1, <2>2 DEF VerdictIsRight
<1> QED BY <1>1, ProbeInvariance, PTL

\* normalize_community_node_address gives two accepted spellings one key exactly
\* when they mean the same node, and load_community_nodes_from_disk leaves a key as
\* it is or drops a node whose key has outgrown MaxLength by a port or by brackets.
THEOREM KeysStayStable == ProbeSpec => []KeysAreStable
<1>1. ProbeInv => KeysAreStable
  <2> SUFFICES ASSUME ProbeInv PROVE KeysAreStable
    OBVIOUS
  <2>1. KeyIsTheNodes
    <3> SUFFICES ASSUME outcome = "resolving", NEW b \in Spellings, Accepted(b)
                 PROVE  normalize_community_node_address(b) = key
                          <=> SameNode(case.spelled, b)
      BY DEF KeyIsTheNodes
    <3>1. case \in Cases /\ key = normalize_community_node_address(case.spelled)
      BY DEF ProbeInv, Known
    <3>2. case.spelled \in Spellings
      BY <3>1, CaseParts
    <3>3. Port(b) \in PortNumbers /\ Port(case.spelled) \in PortNumbers
      BY DEF ProbeInv, Known, Accepted
    <3> QED BY <3>1, <3>2, <3>3, KeyOfNode
  <2>2. ReloadKeepsKey
    BY DEF ProbeInv, Restarted, ReloadKeepsKey, GrowsByKey
  <2> QED BY <2>1, <2>2 DEF KeysAreStable
<1> QED BY <1>1, ProbeInvariance, PTL
=============================================================================

---------------------------- MODULE SubmitLimits ----------------------------
(***************************************************************************)
(* What a node submission passes before the registry is looked at          *)
(* (community_nodes.rs, state.rs): the quota of its source, then the       *)
(* cooldown of its source, two tables under two locks.  The time used for  *)
(* the cooldown is taken before the first lock.                            *)
(*                                                                         *)
(* Times are ages in ticks.  Ages in the quota table stop at twice         *)
(* SubmitWindow, where an entry is dropped, those of cooldowns at          *)
(* CooldownOver.                                                           *)
(***************************************************************************)
EXTENDS Windows, FiniteSets

CONSTANTS
  SubmitSources, \* quota sources of submitting connections
  Connections,   \* connections
  SourceOf,      \* the quota source of each connection
  SubmitWindow,  \* COMMUNITY_NODE_SUBMIT_WINDOW_SECS
  MaxPerWindow,  \* COMMUNITY_NODE_SUBMIT_MAX_PER_WINDOW
  Cooldown,      \* COMMUNITY_NODE_SUBMIT_COOLDOWN_SECS
  MaxTracked,    \* MAX_TRACKED_IP_SUBMITTERS
  MaxDelay       \* longest wait for the two locks

ASSUME LimitsAssumption ==
  /\ IsFiniteSet(SubmitSources) /\ IsFiniteSet(Connections)
  /\ SourceOf \in [Connections -> SubmitSources]
  /\ SubmitWindow \in Nat \ {0} /\ Cooldown \in Nat /\ MaxDelay \in Nat
  /\ MaxPerWindow \in Nat \ {0} /\ MaxTracked \in Nat \ {0}
  /\ MaxDelay <= Cooldown
  /\ Cooldown + MaxDelay <= SubmitWindow

VARIABLES
  quotas,     \* per source: age of its window and submissions in it
  cooldowns,  \* per source: age of the time its last submission gave
  stage,      \* per connection: "idle", "quota" or "cooldown"
  taken,      \* per connection: age of the time it took
  allowed,    \* per source: how many of its submissions passed the quota, by age
  passed      \* per source: age of the moment its last submission passed the cooldown

limits_vars == <<quotas, cooldowns, stage, taken, allowed, passed>>

CooldownOver == Cooldown + MaxDelay + 1

Quota == [age : 0..(2 * SubmitWindow), submissions : 0..MaxPerWindow]

\* One type invariant.
LimitsTypeOK ==
  /\ DOMAIN quotas \subseteq SubmitSources
  /\ \A s \in DOMAIN quotas : quotas[s] \in Quota
  /\ DOMAIN cooldowns \subseteq SubmitSources
  /\ \A s \in DOMAIN cooldowns : cooldowns[s] \in 0..CooldownOver
  /\ stage \in [Connections -> {"idle", "quota", "cooldown"}]
  /\ taken \in [Connections -> 0..MaxDelay]
  /\ allowed \in [SubmitSources -> [0..(SubmitWindow - 1) -> Nat]]
  /\ passed \in [SubmitSources -> 0..CooldownOver]

LimitsInit ==
  /\ quotas = [s \in {} |-> 0]
  /\ cooldowns = [s \in {} |-> 0]
  /\ stage = [c \in Connections |-> "idle"]
  /\ taken = [c \in Connections |-> 0]
  /\ allowed = [s \in SubmitSources |-> [a \in 0..(SubmitWindow - 1) |-> 0]]
  /\ passed = [s \in SubmitSources |-> CooldownOver]

-----------------------------------------------------------------------------
\* The address and the name are fine; now_unix_secs().
Begin(c) ==
  /\ stage[c] = "idle"
  /\ stage' = [stage EXCEPT ![c] = "quota"]
  /\ taken' = [taken EXCEPT ![c] = 0]
  /\ UNCHANGED <<quotas, cooldowns, allowed, passed>>

\* MUTANT of RetainedQuotas: an entry goes when its window ends.
RetainedOneWindow == {s \in DOMAIN quotas : quotas[s].age < SubmitWindow}

RetainedQuotas == {s \in DOMAIN quotas : quotas[s].age < 2 * SubmitWindow}

\* The entry as allow_submit_quota finds it: new, in a new window, or as it was.
CurrentQuota(s) ==
  IF s \in RetainedQuotas /\ quotas[s].age < SubmitWindow
  THEN quotas[s] ELSE [age |-> 0, submissions |-> 0]

TooManySources(s) == s \notin RetainedQuotas /\ Cardinality(RetainedQuotas) >= MaxTracked

HasQuota(q) == q.submissions < MaxPerWindow

Counted(q) == [q EXCEPT !.submissions = @ + 1]

QuotasWith(s, q) ==
  [t \in RetainedQuotas \cup {s} |-> IF t = s THEN q ELSE quotas[t]]

\* The first section refuses: too many sources, or none of the quota left.
QuotaRefuses(c) ==
  LET s == SourceOf[c]
  IN  /\ stage[c] = "quota"
      /\ TooManySources(s) \/ ~HasQuota(CurrentQuota(s))
      /\ quotas' = IF TooManySources(s) THEN [t \in RetainedQuotas |-> quotas[t]]
                   ELSE QuotasWith(s, CurrentQuota(s))
      /\ stage' = [stage EXCEPT ![c] = "idle"]
      /\ taken' = [taken EXCEPT ![c] = 0]
      /\ UNCHANGED <<cooldowns, allowed, passed>>

QuotaAllows(c) ==
  LET s == SourceOf[c]
  IN  /\ stage[c] = "quota"
      /\ ~TooManySources(s) /\ HasQuota(CurrentQuota(s))
      /\ quotas' = QuotasWith(s, Counted(CurrentQuota(s)))
      /\ stage' = [stage EXCEPT ![c] = "cooldown"]
      /\ allowed' = [allowed EXCEPT ![s][0] = @ + 1]
      /\ UNCHANGED <<cooldowns, taken, passed>>

\* now.saturating_sub(at), for two times given by their ages.
Since(now, at) == IF at > now THEN at - now ELSE 0

\* MUTANT of RetainedCooldowns: an entry at the limit is over.
RetainedBelow(now) == {s \in DOMAIN cooldowns : Since(now, cooldowns[s]) < Cooldown}

RetainedCooldowns(now) == {s \in DOMAIN cooldowns : Since(now, cooldowns[s]) <= Cooldown}

\* The second section: refused while the source has an entry, or noted.  The
\* entry stays even when the submission fails later.
CooldownRefuses(c) ==
  /\ stage[c] = "cooldown"
  /\ SourceOf[c] \in RetainedCooldowns(taken[c])
  /\ cooldowns' = [s \in RetainedCooldowns(taken[c]) |-> cooldowns[s]]
  /\ stage' = [stage EXCEPT ![c] = "idle"]
  /\ taken' = [taken EXCEPT ![c] = 0]
  /\ UNCHANGED <<quotas, allowed, passed>>

CooldownAllows(c) ==
  /\ stage[c] = "cooldown"
  /\ SourceOf[c] \notin RetainedCooldowns(taken[c])
  /\ cooldowns' = [s \in RetainedCooldowns(taken[c]) \cup {SourceOf[c]} |->
                     IF s = SourceOf[c] THEN taken[c] ELSE cooldowns[s]]
  /\ passed' = [passed EXCEPT ![SourceOf[c]] = 0]
  /\ stage' = [stage EXCEPT ![c] = "idle"]
  /\ taken' = [taken EXCEPT ![c] = 0]
  /\ UNCHANGED <<quotas, allowed>>

\* Time passes; a lock is had within MaxDelay.
LimitsTick ==
  /\ \A c \in Connections : stage[c] # "idle" => taken[c] < MaxDelay
  /\ quotas' = [s \in DOMAIN quotas |->
       [quotas[s] EXCEPT !.age = IF @ < 2 * SubmitWindow THEN @ + 1 ELSE @]]
  /\ cooldowns' = [s \in DOMAIN cooldowns |->
       IF cooldowns[s] < CooldownOver THEN cooldowns[s] + 1 ELSE CooldownOver]
  /\ taken' = [c \in Connections |-> IF stage[c] = "idle" THEN 0 ELSE taken[c] + 1]
  /\ allowed' = [s \in SubmitSources |-> ATickLater(allowed[s])]
  /\ passed' = [s \in SubmitSources |->
       IF passed[s] < CooldownOver THEN passed[s] + 1 ELSE CooldownOver]
  /\ UNCHANGED stage

LimitsNext ==
  \/ \E c \in Connections : Begin(c) \/ QuotaRefuses(c) \/ QuotaAllows(c)
                           \/ CooldownRefuses(c) \/ CooldownAllows(c)
  \/ LimitsTick

LimitsSpec == LimitsInit /\ [][LimitsNext]_limits_vars

-----------------------------------------------------------------------------
\* Neither table outgrows MaxTracked.  The cooldown table has no check of its
\* own: it is bounded because the quota entry of a source outlives its cooldown.
TablesBounded ==
  /\ Cardinality(DOMAIN quotas) <= MaxTracked
  /\ Cardinality(DOMAIN cooldowns) <= MaxTracked

\* Two submissions of one source that pass are more than Cooldown apart, less the
\* wait for the locks, however the connections of that source interleave.
SubmissionsSpaced ==
  [][\A c \in Connections :
       CooldownAllows(c) => passed[SourceOf[c]] > Cooldown - MaxDelay]_limits_vars

\* In no stretch of SubmitWindow ticks does a source spend more than two windows'
\* quotas: the window restarts only once it is over, even when the entry is
\* dropped and made again.
AtMostTwoQuotas ==
  \A s \in SubmitSources : SumTo(allowed[s], SubmitWindow - 1) <= 2 * MaxPerWindow

\* Both, with the types.
QuotasHold == LimitsTypeOK /\ TablesBounded /\ AtMostTwoQuotas
=============================================================================

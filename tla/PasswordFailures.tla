-------------------------- MODULE PasswordFailures --------------------------
(***************************************************************************)
(* RegisterPasswordFailures (state.rs): wrong lobby passwords remembered   *)
(* by source and lobby, and the lock they lead to.  handle_v3 uses the     *)
(* table under the lobby lock, so one registration is one action.          *)
(*                                                                         *)
(* Instants are ages in ticks.  An entry older than the window stays in    *)
(* the table until the next prune; its age stops at Old.                   *)
(***************************************************************************)
EXTENDS Naturals, Sequences, FiniteSets

CONSTANTS
  Keys,         \* pairs of a quota source and a lobby
  MaxFailures,  \* MAX_REGISTER_PASSWORD_FAILURES
  MaxKeys,      \* MAX_REGISTER_PASSWORD_KEYS
  Window,       \* REGISTER_PASSWORD_FAILURE_WINDOW_SECS
  MaxGuesses    \* bound on the wrong guesses at one key within a window

ASSUME FailuresAssumption ==
  /\ IsFiniteSet(Keys)
  /\ MaxFailures \in Nat \ {0}
  /\ MaxKeys \in Nat \ {0}
  /\ Window \in Nat
  /\ MaxGuesses \in Nat \ {0}

VARIABLES
  attempts,    \* the table: per key the ages of its failures, oldest first
  guesses,     \* per key the ages, up to Window, of its wrong guesses since a right one
  last_wrong   \* per key the age of its last wrong guess

failures_vars == <<attempts, guesses, last_wrong>>

Old == Window + 1

Newest(ages) == ages[Len(ages)]

\* One type invariant: the table is bounded in both directions, holds no empty
\* entry, and each entry is in the order of its failures.
FailuresTypeOK ==
  /\ DOMAIN attempts \subseteq Keys
  /\ Cardinality(DOMAIN attempts) <= MaxKeys
  /\ \A k \in DOMAIN attempts :
       /\ attempts[k] \in Seq(0..Old)
       /\ Len(attempts[k]) \in 1..MaxFailures
       /\ \A i, j \in 1..Len(attempts[k]) : i < j => attempts[k][i] >= attempts[k][j]
  /\ guesses \in [Keys -> Seq(0..Window)]
  /\ last_wrong \in [Keys -> 0..Old]

FailuresInit ==
  /\ attempts = [k \in {} |-> <<>>]
  /\ guesses = [k \in Keys |-> <<>>]
  /\ last_wrong = [k \in Keys |-> Old]

-----------------------------------------------------------------------------
\* How many at the front are past the window, up to the first that is not.
Outdated(ages) ==
  CHOOSE n \in 0..Len(ages) : /\ \A i \in 1..n : ages[i] > Window
                              /\ n < Len(ages) => ages[n + 1] <= Window

\* The outdated ones are popped from the front.
Recent(ages) == SubSeq(ages, Outdated(ages) + 1, Len(ages))

prune(table) ==
  [k \in {x \in DOMAIN table : Recent(table[x]) # <<>>} |-> Recent(table[k])]

\* is_locked, on the pruned table.
is_locked(table, k) == k \in DOMAIN table /\ Len(table[k]) >= MaxFailures

\* MUTANT of Retired: the key that failed last goes.
RetiredLatest(table) ==
  {k \in DOMAIN table : \A o \in DOMAIN table : Newest(table[k]) <= Newest(table[o])}

\* The keys that may go from a full table: those that failed least recently.
Retired(table) ==
  {k \in DOMAIN table : \A o \in DOMAIN table : Newest(table[k]) >= Newest(table[o])}

Without(table, k) == [o \in DOMAIN table \ {k} |-> table[o]]

Recorded(table, k) ==
  [o \in DOMAIN table \cup {k} |->
     IF o # k THEN table[o]
     ELSE IF k \notin DOMAIN table THEN <<0>>
     ELSE IF Len(table[k]) < MaxFailures THEN Append(table[k], 0)
     ELSE table[k]]

MustRetire(table, k) == k \notin DOMAIN table /\ Cardinality(DOMAIN table) >= MaxKeys

record_failure(table, k) ==
  IF MustRetire(table, k)
  THEN \E o \in Retired(table) : attempts' = Recorded(Without(table, o), k)
  ELSE attempts' = Recorded(table, k)

-----------------------------------------------------------------------------
\* A registration is refused: the key is locked.
Refuse(k) ==
  LET table == prune(attempts)
  IN  /\ is_locked(table, k)
      /\ attempts' = table
      /\ UNCHANGED <<guesses, last_wrong>>

\* The lobby does not exist yet: there is no password to compare.
CreateLobby(k) ==
  LET table == prune(attempts)
  IN  /\ ~is_locked(table, k)
      /\ attempts' = table
      /\ UNCHANGED <<guesses, last_wrong>>

WrongPassword(k) ==
  LET table == prune(attempts)
  IN  /\ ~is_locked(table, k)
      /\ Len(guesses[k]) < MaxGuesses
      /\ record_failure(table, k)
      /\ guesses' = [guesses EXCEPT ![k] = Append(@, 0)]
      /\ last_wrong' = [last_wrong EXCEPT ![k] = 0]

\* The right password clears the key.
RightPassword(k) ==
  LET table == prune(attempts)
  IN  /\ ~is_locked(table, k)
      /\ attempts' = Without(table, k)
      /\ guesses' = [guesses EXCEPT ![k] = <<>>]
      /\ UNCHANGED last_wrong

Older(age) == IF age < Old THEN age + 1 ELSE Old

AllOlder(ages) == [i \in DOMAIN ages |-> Older(ages[i])]

FailuresTick ==
  /\ attempts' = [k \in DOMAIN attempts |-> AllOlder(attempts[k])]
  /\ guesses' = [k \in Keys |-> Recent(AllOlder(guesses[k]))]
  /\ last_wrong' = [k \in Keys |-> Older(last_wrong[k])]

FailuresNext ==
  \/ \E k \in Keys : Refuse(k) \/ CreateLobby(k) \/ WrongPassword(k) \/ RightPassword(k)
  \/ FailuresTick

FailuresSpec == FailuresInit /\ [][FailuresNext]_failures_vars

-----------------------------------------------------------------------------
Locked(k) == is_locked(prune(attempts), k)

\* Only a source's own wrong guesses at a lobby, within the window and since its
\* last right one, lock it there: neither other sources nor a full table do.
LockedOnlyByOwnFailures ==
  \A k \in Keys : Locked(k) => Len(guesses[k]) >= MaxFailures

\* The age of the guess from which on the last MaxFailures were made.
FirstOfLast(ages) == ages[Len(ages) - MaxFailures + 1]

\* After MaxFailures wrong guesses within the window a key is locked, and stays
\* so until the first of them leaves the window, unless MaxKeys other keys have
\* failed since: no smaller number of them pushes a key out of the table.
LockHoldsAgainstFewKeys ==
  \A k \in Keys :
    Len(guesses[k]) >= MaxFailures /\ ~Locked(k) =>
      Cardinality({o \in Keys \ {k} : last_wrong[o] <= FirstOfLast(guesses[k])}) >= MaxKeys

\* Both, with the bounds of the table.
LocksAreExact == FailuresTypeOK /\ LockedOnlyByOwnFailures /\ LockHoldsAgainstFewKeys
=============================================================================

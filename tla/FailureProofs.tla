---------------------------- MODULE FailureProofs ----------------------------
(***************************************************************************)
(* Proofs about PasswordFailures, for any sources and lobbies, any window  *)
(* and any limits.                                                         *)
(***************************************************************************)
EXTENDS PasswordFailures, Induction, FiniteSetTheorems, SequenceTheorems, TLAPS

\* Ages in the order of what they are the ages of: the oldest first.
InOrder(ages) == \A i, j \in 1..Len(ages) : i < j => ages[i] >= ages[j]

\* e is how s ends.
EndOf(e, s) ==
  /\ Len(e) <= Len(s)
  /\ \A i \in 1..Len(e) : e[i] = s[Len(s) - Len(e) + i]

\* The failures the table holds against a key, and as a prune would leave them.
Entry(k) == IF k \in DOMAIN attempts THEN attempts[k] ELSE <<>>
Held(k) == Recent(Entry(k))

\* The other keys that have failed since a guess of this age.
FailedSince(k, age) == {o \in Keys \ {k} : last_wrong[o] <= age}

\* The table holds the last of a key's wrong guesses, and all of them but for
\* those before which it was pushed out by MaxKeys others.
HeldAreLast(k) ==
  /\ EndOf(Held(k), guesses[k])
  /\ Len(Held(k)) < Len(guesses[k]) =>
       Cardinality(FailedSince(k, guesses[k][Len(guesses[k]) - Len(Held(k))])) >= MaxKeys

FailuresInv ==
  /\ FailuresTypeOK
  /\ \A k \in Keys : InOrder(guesses[k])
  /\ \A k \in DOMAIN attempts : last_wrong[k] <= Newest(attempts[k])
  /\ \A k \in Keys : HeldAreLast(k)

-----------------------------------------------------------------------------
\* Sequences of ages.

LEMMA Constants ==
  /\ IsFiniteSet(Keys) /\ Window \in Nat /\ Old \in Nat /\ Old = Window + 1
  /\ MaxFailures \in Nat /\ MaxFailures > 0 /\ MaxKeys \in Nat /\ MaxKeys > 0
BY FailuresAssumption DEF Old

\* The pop_front loop stops at the first failure within the window.
LEMMA OutdatedFacts ==
  ASSUME NEW ages \in Seq(0..Old)
  PROVE  /\ Len(ages) \in Nat /\ Outdated(ages) \in 0..Len(ages)
         /\ \A i \in 1..Outdated(ages) : ages[i] > Window
         /\ Outdated(ages) < Len(ages) => ages[Outdated(ages) + 1] <= Window
<1> DEFINE T == {n \in 0..Len(ages) : n < Len(ages) => ages[n + 1] <= Window}
<1>1. Len(ages) \in Nat /\ \A i \in 1..Len(ages) : ages[i] \in 0..Old
  BY ElementOfSeq, LenProperties
<1>2. Len(ages) \in T /\ T \subseteq Nat
  BY <1>1
<1>3. PICK n \in T : \A m \in T : n <= m
  <2> HIDE DEF T
  <2> QED BY <1>2, LeastNat
<1>4. ASSUME NEW i \in 1..n PROVE ages[i] > Window
  <2>1. i - 1 \in 0..Len(ages) /\ i - 1 < Len(ages) /\ (i - 1) + 1 = i /\ i \in 1..Len(ages)
    BY <1>1, <1>3
  <2>2. i - 1 \notin T
    <3>1. n \in Nat /\ i \in Nat /\ i <= n /\ ~(n <= i - 1)
      BY <1>3
    <3> HIDE DEF T
    <3> QED BY <1>3, <3>1
  <2>3. ~(ages[i] <= Window)
    BY <2>1, <2>2
  <2> QED BY <1>1, <2>1, <2>3, Constants
<1>5. /\ n \in 0..Len(ages) /\ \A i \in 1..n : ages[i] > Window
      /\ n < Len(ages) => ages[n + 1] <= Window
  BY <1>3, <1>4
<1>6. /\ Outdated(ages) \in 0..Len(ages)
      /\ \A i \in 1..Outdated(ages) : ages[i] > Window
      /\ Outdated(ages) < Len(ages) => ages[Outdated(ages) + 1] <= Window
  <2> HIDE DEF T
  <2> QED BY <1>5, Zenon DEF Outdated
<1> QED BY <1>1, <1>6

\* What is left: its length, its failures, and that it is all within the window.
LEMMA RecentFacts ==
  ASSUME NEW ages \in Seq(0..Old), InOrder(ages)
  PROVE  \E d \in 0..Len(ages) :
           /\ d = Outdated(ages) /\ Len(ages) \in Nat
           /\ Recent(ages) \in Seq(0..Window)
           /\ Len(Recent(ages)) = Len(ages) - d
           /\ \A i \in 1..(Len(ages) - d) : Recent(ages)[i] = ages[d + i]
           /\ \A i \in 1..d : ages[i] > Window
           /\ \A i \in (d + 1)..Len(ages) : ages[i] <= Window
<1>1. PICK d \in 0..Len(ages) :
        /\ d = Outdated(ages) /\ Len(ages) \in Nat
        /\ \A i \in 1..d : ages[i] > Window
        /\ d < Len(ages) => ages[d + 1] <= Window
  BY OutdatedFacts
<1>2. \A i \in 1..Len(ages) : ages[i] \in 0..Old
  BY ElementOfSeq
<1>3. \A i \in (d + 1)..Len(ages) : ages[i] <= Window
  <2> SUFFICES ASSUME NEW i \in (d + 1)..Len(ages) PROVE ages[i] <= Window
    OBVIOUS
  <2>1. /\ d + 1 \in 1..Len(ages) /\ i \in 1..Len(ages) /\ ages[d + 1] <= Window
    BY <1>1
  <2>2. CASE i = d + 1
    BY <2>1, <2>2
  <2>3. CASE i # d + 1
    <3>1. d + 1 < i
      BY <1>1, <2>3
    <3>2. ages[d + 1] >= ages[i]
      BY <2>1, <3>1 DEF InOrder
    <3> QED BY <1>2, <2>1, <3>2, Constants
  <2> QED BY <2>2, <2>3
<1>4. \A i \in (d + 1)..Len(ages) : ages[i] \in 0..Window
  BY <1>1, <1>2, <1>3, Constants
<1>5. d + 1 \in Int /\ Len(ages) \in Int
  BY <1>1
<1>6. /\ Recent(ages) \in Seq(0..Window)
      /\ Len(Recent(ages)) = IF d + 1 <= Len(ages) THEN Len(ages) - (d + 1) + 1 ELSE 0
      /\ \A i \in 1..(Len(ages) - (d + 1) + 1) : Recent(ages)[i] = ages[(d + 1) + i - 1]
  BY <1>1, <1>4, <1>5, SubSeqProperties DEF Recent
<1>7. \A i \in 1..(Len(ages) - d) : Recent(ages)[i] = ages[d + i]
  <2> SUFFICES ASSUME NEW i \in 1..(Len(ages) - d) PROVE Recent(ages)[i] = ages[d + i]
    OBVIOUS
  <2>1. i \in 1..(Len(ages) - (d + 1) + 1) /\ (d + 1) + i - 1 = d + i
    BY <1>1
  <2> QED BY <1>6, <2>1
<1>8. Len(Recent(ages)) = Len(ages) - d
  BY <1>1, <1>6
<1> QED BY <1>1, <1>3, <1>6, <1>7, <1>8

LEMMA RecentInOrder ==
  ASSUME NEW ages \in Seq(0..Old), InOrder(ages)
  PROVE  InOrder(Recent(ages))
<1>1. PICK d \in 0..Len(ages) :
        /\ Len(ages) \in Nat /\ Len(Recent(ages)) = Len(ages) - d
        /\ \A i \in 1..(Len(ages) - d) : Recent(ages)[i] = ages[d + i]
  BY RecentFacts
<1> SUFFICES ASSUME NEW i \in 1..Len(Recent(ages)), NEW j \in 1..Len(Recent(ages)), i < j
             PROVE  Recent(ages)[i] >= Recent(ages)[j]
  BY DEF InOrder
<1>2. i \in 1..(Len(ages) - d) /\ j \in 1..(Len(ages) - d)
  BY <1>1
<1>3. d + i \in 1..Len(ages) /\ d + j \in 1..Len(ages) /\ d + i < d + j
  BY <1>1, <1>2
<1>4. ages[d + i] >= ages[d + j]
  BY <1>3 DEF InOrder
<1> QED BY <1>1, <1>2, <1>4

\* Within the window nothing is popped.
LEMMA RecentOfRecent ==
  ASSUME NEW ages \in Seq(0..Window), InOrder(ages)
  PROVE  ages \in Seq(0..Old) /\ Recent(ages) = ages
<1>1. ages \in Seq(0..Old)
  <2>1. 0..Window \subseteq 0..Old
    BY Constants
  <2> QED BY <2>1, SeqMonotonic
<1>2. Len(ages) \in Nat /\ \A i \in 1..Len(ages) : ages[i] \in 0..Window
  BY ElementOfSeq, LenProperties
<1>3. PICK d \in 0..Len(ages) :
        /\ Recent(ages) \in Seq(0..Window)
        /\ Len(Recent(ages)) = Len(ages) - d
        /\ \A i \in 1..(Len(ages) - d) : Recent(ages)[i] = ages[d + i]
        /\ \A i \in 1..d : ages[i] > Window
  BY <1>1, RecentFacts
<1>4. d = 0
  <2> SUFFICES ASSUME d # 0 PROVE FALSE
    OBVIOUS
  <2>1. 1 \in 1..d /\ 1 \in 1..Len(ages)
    BY <1>2
  <2>2. ages[1] > Window /\ ages[1] \in 0..Window
    BY <1>2, <1>3, <2>1
  <2> QED BY <2>2, Constants
<1>5. Len(Recent(ages)) = Len(ages) /\ \A i \in 1..Len(Recent(ages)) : Recent(ages)[i] = ages[i]
  BY <1>2, <1>3, <1>4
<1> QED BY <1>1, <1>3, <1>5, SeqEqual

\* Popping at the front leaves the last failure.
LEMMA NewestOfRecent ==
  ASSUME NEW ages \in Seq(0..Old), InOrder(ages), Recent(ages) # <<>>
  PROVE  Newest(Recent(ages)) = Newest(ages) /\ Len(Recent(ages)) \in 1..Len(ages)
<1>1. PICK d \in 0..Len(ages) :
        /\ Len(ages) \in Nat /\ Recent(ages) \in Seq(0..Window)
        /\ Len(Recent(ages)) = Len(ages) - d
        /\ \A i \in 1..(Len(ages) - d) : Recent(ages)[i] = ages[d + i]
  BY RecentFacts
<1>2. Len(Recent(ages)) # 0
  BY <1>1, EmptySeq
<1>3. Len(ages) - d \in 1..(Len(ages) - d) /\ d + (Len(ages) - d) = Len(ages)
  BY <1>1, <1>2
<1>4. Recent(ages)[Len(ages) - d] = ages[d + (Len(ages) - d)]
  BY <1>1, <1>3
<1> QED BY <1>1, <1>2, <1>3, <1>4 DEF Newest

\* A tick: everything is older and in the same order.
LEMMA OlderFacts ==
  ASSUME NEW ages \in Seq(0..Old), InOrder(ages)
  PROVE  /\ AllOlder(ages) \in Seq(0..Old) /\ InOrder(AllOlder(ages))
         /\ Len(AllOlder(ages)) = Len(ages)
         /\ \A i \in 1..Len(ages) :
              AllOlder(ages)[i] = Older(ages[i]) /\ ages[i] \in 0..Old
<1>1. /\ Len(ages) \in Nat /\ DOMAIN ages = 1..Len(ages)
      /\ \A i \in 1..Len(ages) : ages[i] \in 0..Old
  BY LenProperties, ElementOfSeq
<1>2. \A i \in 1..Len(ages) : Older(ages[i]) \in 0..Old
  BY <1>1, Constants DEF Older
<1>3. AllOlder(ages) = [i \in 1..Len(ages) |-> Older(ages[i])]
  BY <1>1 DEF AllOlder
<1>4. AllOlder(ages) \in [1..Len(ages) -> 0..Old]
  BY <1>2, <1>3
<1>5. AllOlder(ages) \in Seq(0..Old)
  BY <1>1, <1>4, SeqDef
<1>6. Len(AllOlder(ages)) = Len(ages)
  <2>1. DOMAIN AllOlder(ages) = 1..Len(AllOlder(ages)) /\ Len(AllOlder(ages)) \in Nat
    BY <1>5, LenProperties
  <2>2. \A i \in Nat : i \in 1..Len(AllOlder(ages)) <=> i \in 1..Len(ages)
    BY <1>4, <2>1
  <2>3. ASSUME NEW m \in Nat, NEW n \in Nat, \A i \in Nat : i \in 1..m <=> i \in 1..n
        PROVE  m = n
    <3>1. m \in 1..m <=> m \in 1..n
      BY <2>3
    <3>2. n \in 1..m <=> n \in 1..n
      BY <2>3
    <3> QED BY <3>1, <3>2
  <2> QED BY <1>1, <2>1, <2>2, <2>3
<1>7. InOrder(AllOlder(ages))
  <2> SUFFICES ASSUME NEW i \in 1..Len(ages), NEW j \in 1..Len(ages), i < j
               PROVE  AllOlder(ages)[i] >= AllOlder(ages)[j]
    BY <1>6 DEF InOrder
  <2>1. ages[i] >= ages[j] /\ ages[i] \in 0..Old /\ ages[j] \in 0..Old
    BY <1>1 DEF InOrder
  <2>2. Older(ages[i]) >= Older(ages[j])
    BY <2>1, Constants DEF Older
  <2> QED BY <1>3, <2>2
<1> QED BY <1>1, <1>3, <1>5, <1>6, <1>7

\* A tick keeps what the table holds at the end of the guesses; and what is
\* missing of those afterwards was missing before.
LEMMA HeldLater ==
  ASSUME NEW a \in Seq(0..Old), InOrder(a), NEW g \in Seq(0..Window), InOrder(g),
         EndOf(Recent(a), g)
  PROVE  \E e, h :
           /\ e = Recent(AllOlder(a)) /\ h = Recent(AllOlder(g))
           /\ EndOf(e, h) /\ h \in Seq(0..Window) /\ InOrder(h)
           /\ Len(e) < Len(h) =>
                /\ Len(Recent(a)) < Len(g)
                /\ h[Len(h) - Len(e)] = Older(g[Len(g) - Len(Recent(a))])
<1> DEFINE e == Recent(AllOlder(a))
           h == Recent(AllOlder(g))
<1>0. g \in Seq(0..Old)
  BY RecentOfRecent
<1>1. PICK A : A = AllOlder(a)
  OBVIOUS
<1>2. PICK G : G = AllOlder(g)
  OBVIOUS
<1>3. /\ A \in Seq(0..Old) /\ InOrder(A) /\ Len(A) = Len(a) /\ Len(a) \in Nat
      /\ \A i \in 1..Len(a) : A[i] = Older(a[i]) /\ a[i] \in 0..Old
  BY <1>1, OlderFacts, LenProperties
<1>4. /\ G \in Seq(0..Old) /\ InOrder(G) /\ Len(G) = Len(g) /\ Len(g) \in Nat
      /\ \A i \in 1..Len(g) : G[i] = Older(g[i]) /\ g[i] \in 0..Old
  BY <1>0, <1>2, OlderFacts, LenProperties
<1>5. PICK d \in 0..Len(a) :
        /\ Len(Recent(a)) = Len(a) - d
        /\ \A i \in 1..(Len(a) - d) : Recent(a)[i] = a[d + i]
        /\ \A i \in 1..d : a[i] > Window
  BY RecentFacts
<1>6. PICK b \in 0..Len(a) :
        /\ Len(e) = Len(a) - b
        /\ \A i \in 1..(Len(a) - b) : e[i] = A[b + i]
        /\ \A i \in 1..b : A[i] > Window
        /\ \A i \in (b + 1)..Len(a) : A[i] <= Window
  BY <1>1, <1>3, RecentFacts
<1>7. PICK c \in 0..Len(g) :
        /\ h \in Seq(0..Window) /\ Len(h) = Len(g) - c
        /\ \A i \in 1..(Len(g) - c) : h[i] = G[c + i]
        /\ \A i \in 1..c : G[i] > Window
        /\ \A i \in (c + 1)..Len(g) : G[i] <= Window
  BY <1>2, <1>4, RecentFacts
<1>8. InOrder(h)
  BY <1>2, <1>4, RecentInOrder
\* The end of g is a, one by one.
<1>9. /\ Len(a) - d <= Len(g)
      /\ \A j \in (d + 1)..Len(a) : /\ Len(g) - Len(a) + j \in 1..Len(g)
                                    /\ a[j] = g[Len(g) - Len(a) + j]
                                    /\ A[j] = G[Len(g) - Len(a) + j]
  <2>1. Len(a) - d <= Len(g)
    BY <1>5 DEF EndOf
  <2>2. ASSUME NEW j \in (d + 1)..Len(a)
        PROVE  /\ Len(g) - Len(a) + j \in 1..Len(g)
               /\ a[j] = g[Len(g) - Len(a) + j]
               /\ A[j] = G[Len(g) - Len(a) + j]
    <3>1. PICK i \in 1..(Len(a) - d) : i = j - d
      BY <1>3, <1>5
    <3>2. Recent(a)[i] = a[j] /\ Recent(a)[i] = g[Len(g) - (Len(a) - d) + i]
      BY <1>3, <1>5, <3>1 DEF EndOf
    <3>3. /\ Len(g) - (Len(a) - d) + i = Len(g) - Len(a) + j
          /\ Len(g) - Len(a) + j \in 1..Len(g) /\ j \in 1..Len(a)
      BY <1>3, <1>4, <1>5, <2>1, <3>1
    <3>4. a[j] = g[Len(g) - Len(a) + j]
      BY <3>2, <3>3
    <3> QED BY <1>3, <1>4, <3>3, <3>4
  <2> QED BY <2>1, <2>2
\* What was outdated still is.
<1>10. d <= b
  <2> SUFFICES ASSUME b < d PROVE FALSE
    BY <1>3
  <2>1. b + 1 \in 1..d /\ b + 1 \in (b + 1)..Len(a) /\ b + 1 \in 1..Len(a)
    BY <1>3
  <2>2. a[b + 1] > Window /\ A[b + 1] <= Window /\ A[b + 1] = Older(a[b + 1]) /\ a[b + 1] \in 0..Old
    BY <1>3, <1>5, <1>6, <2>1
  <2> QED BY <2>2, Constants DEF Older
<1>11. Len(a) - b <= Len(g) - c
  <2> SUFFICES ASSUME Len(g) - c < Len(a) - b PROVE FALSE
    BY <1>3, <1>4
  <2>1. b + 1 \in (d + 1)..Len(a) /\ b + 1 \in (b + 1)..Len(a)
    BY <1>3, <1>4, <1>10
  <2>2. A[b + 1] = G[Len(g) - Len(a) + (b + 1)] /\ A[b + 1] <= Window
        /\ Len(g) - Len(a) + (b + 1) \in 1..Len(g)
    BY <1>6, <1>9, <2>1
  <2>3. Len(g) - Len(a) + (b + 1) \in 1..c
    BY <1>3, <1>4, <2>2
  <2>4. G[Len(g) - Len(a) + (b + 1)] > Window
    BY <1>7, <2>3
  <2>5. A[b + 1] \in 0..Old
    <3>1. b + 1 \in 1..Len(A)
      BY <1>3, <1>6, <2>1
    <3> QED BY <1>3, <3>1, ElementOfSeq
  <2>6. A[b + 1] > Window /\ A[b + 1] <= Window
    BY <2>2, <2>4
  <2> QED BY <2>5, <2>6, Constants
<1>12. EndOf(e, h)
  <2>1. Len(e) <= Len(h)
    BY <1>6, <1>7, <1>11
  <2>2. ASSUME NEW i \in 1..Len(e) PROVE e[i] = h[Len(h) - Len(e) + i]
    <3>1. b + i \in (d + 1)..Len(a) /\ i \in 1..(Len(a) - b)
      BY <1>3, <1>6, <1>10
    <3>2. e[i] = G[Len(g) - Len(a) + (b + i)]
      BY <1>6, <1>9, <3>1
    <3>3. PICK m \in 1..(Len(g) - c) : m = Len(h) - Len(e) + i
      <4>1. Len(h) - Len(e) + i \in 1..(Len(g) - c)
        BY <1>3, <1>4, <1>6, <1>7, <1>11
      <4> QED BY <4>1
    <3>4. c + m = Len(g) - Len(a) + (b + i)
      BY <1>3, <1>4, <1>6, <1>7, <3>3
    <3>5. h[m] = G[c + m]
      BY <1>7
    <3> QED BY <3>2, <3>3, <3>4, <3>5
  <2> QED BY <2>1, <2>2 DEF EndOf
<1>13. ASSUME Len(e) < Len(h)
       PROVE  /\ Len(Recent(a)) < Len(g)
              /\ h[Len(h) - Len(e)] = Older(g[Len(g) - Len(Recent(a))])
  <2>1. PICK m \in 1..(Len(g) - c) : m = Len(h) - Len(e)
    <3>1. Len(h) - Len(e) \in 1..(Len(g) - c)
      BY <1>3, <1>4, <1>6, <1>7, <1>13
    <3> QED BY <3>1
  <2>2. c + m = Len(g) - Len(a) + b /\ c + m \in (c + 1)..Len(g) /\ c + m \in 1..Len(g)
    BY <1>3, <1>4, <1>6, <1>7, <2>1
  <2>3. h[m] = G[c + m] /\ G[c + m] <= Window /\ G[c + m] = Older(g[c + m])
    BY <1>4, <1>7, <2>2
  <2>4. b = d
    <3> SUFFICES ASSUME d < b PROVE FALSE
      BY <1>3, <1>10
    <3>1. b \in (d + 1)..Len(a) /\ b \in 1..b /\ b \in 1..Len(a)
      BY <1>3
    <3>2. A[b] = G[c + m] /\ A[b] > Window
      BY <1>6, <1>9, <2>2, <3>1
    <3>3. A[b] \in 0..Old
      BY <1>3, <3>1, ElementOfSeq
    <3> QED BY <2>3, <3>2, <3>3, Constants
  <2>5. c + m = Len(g) - Len(Recent(a)) /\ Len(Recent(a)) < Len(g)
    BY <1>3, <1>4, <1>5, <2>1, <2>2, <2>4
  <2> QED BY <2>1, <2>3, <2>5
<1> HIDE DEF e, h
<1>14. /\ EndOf(e, h) /\ h \in Seq(0..Window) /\ InOrder(h)
       /\ Len(e) < Len(h) =>
            /\ Len(Recent(a)) < Len(g)
            /\ h[Len(h) - Len(e)] = Older(g[Len(g) - Len(Recent(a))])
  BY <1>7, <1>8, <1>12, <1>13
<1>15. e = Recent(AllOlder(a)) /\ h = Recent(AllOlder(g))
  BY DEF e, h
<1> QED BY <1>14, <1>15

-----------------------------------------------------------------------------
\* The table.

\* What every operation but the clock leaves: a pruned table.
Pruned(table) ==
  /\ DOMAIN table \subseteq Keys
  /\ Cardinality(DOMAIN table) <= MaxKeys
  /\ \A k \in DOMAIN table : /\ table[k] \in Seq(0..Window)
                             /\ Len(table[k]) \in 1..MaxFailures
                             /\ InOrder(table[k])

LEMMA EntryFacts ==
  ASSUME FailuresTypeOK, NEW k \in Keys
  PROVE  /\ Entry(k) \in Seq(0..Old) /\ InOrder(Entry(k))
         /\ Held(k) \in Seq(0..Window) /\ InOrder(Held(k))
         /\ guesses[k] \in Seq(0..Window) /\ Len(guesses[k]) \in Nat /\ Len(Held(k)) \in Nat
         /\ last_wrong[k] \in Nat
<1>1. Entry(k) \in Seq(0..Old) /\ InOrder(Entry(k))
  <2>1. CASE k \in DOMAIN attempts
    BY <2>1 DEF Entry, FailuresTypeOK, InOrder
  <2>2. CASE k \notin DOMAIN attempts
    <3>1. Entry(k) = <<>> /\ <<>> \in Seq(0..Old) /\ Len(<<>>) = 0
      BY <2>2, EmptySeq DEF Entry
    <3> QED BY <3>1 DEF InOrder
  <2> QED BY <2>1, <2>2
<1>2. Held(k) \in Seq(0..Window) /\ InOrder(Held(k))
  BY <1>1, RecentFacts, RecentInOrder DEF Held
<1>3. guesses[k] \in Seq(0..Window) /\ last_wrong[k] \in 0..Old
  BY DEF FailuresTypeOK
<1> QED BY <1>1, <1>2, <1>3, LenProperties, Constants

\* prune leaves what is held, and it is locked on that.
LEMMA PruneFacts ==
  ASSUME FailuresInv, NEW table, table = prune(attempts)
  PROVE  /\ Pruned(table) /\ IsFiniteSet(DOMAIN table)
         /\ \A k \in DOMAIN table : /\ k \in DOMAIN attempts /\ table[k] = Held(k)
                                    /\ last_wrong[k] <= Newest(table[k])
         /\ \A k \in Keys : k \notin DOMAIN table => Held(k) = <<>>
         /\ \A k \in Keys : is_locked(table, k) <=> Len(Held(k)) >= MaxFailures
<1>0. FailuresTypeOK
  BY DEF FailuresInv
<1>1. /\ DOMAIN table = {k \in DOMAIN attempts : Recent(attempts[k]) # <<>>}
      /\ \A k \in DOMAIN table : table[k] = Recent(attempts[k])
  BY DEF prune
<1>2. DOMAIN table \subseteq DOMAIN attempts /\ DOMAIN attempts \subseteq Keys
  BY <1>0, <1>1 DEF FailuresTypeOK
<1>3. \A k \in DOMAIN table : k \in Keys /\ table[k] = Held(k) /\ Entry(k) = attempts[k]
  BY <1>1, <1>2 DEF Held, Entry
<1>4. IsFiniteSet(DOMAIN attempts) /\ IsFiniteSet(DOMAIN table)
  BY <1>2, Constants, FS_Subset
<1>5. Cardinality(DOMAIN table) <= MaxKeys
  <2>1. Cardinality(DOMAIN table) <= Cardinality(DOMAIN attempts)
    BY <1>2, <1>4, FS_Subset
  <2>2. Cardinality(DOMAIN table) \in Nat /\ Cardinality(DOMAIN attempts) \in Nat
    BY <1>4, FS_CardinalityType
  <2> QED BY <1>0, <2>1, <2>2, Constants DEF FailuresTypeOK
<1>6. ASSUME NEW k \in DOMAIN table
      PROVE  /\ table[k] \in Seq(0..Window) /\ Len(table[k]) \in 1..MaxFailures
             /\ InOrder(table[k]) /\ last_wrong[k] <= Newest(table[k])
  <2>1. /\ k \in Keys /\ k \in DOMAIN attempts /\ table[k] = Held(k) /\ Entry(k) = attempts[k]
        /\ Recent(attempts[k]) # <<>> /\ table[k] = Recent(attempts[k])
    BY <1>1, <1>3
  <2>2. Held(k) \in Seq(0..Window) /\ InOrder(Held(k))
        /\ attempts[k] \in Seq(0..Old) /\ InOrder(attempts[k])
    BY <1>0, <2>1, EntryFacts
  <2>3. Newest(table[k]) = Newest(attempts[k]) /\ Len(table[k]) \in 1..Len(attempts[k])
    BY <2>1, <2>2, NewestOfRecent
  <2>4. Len(attempts[k]) \in 1..MaxFailures /\ last_wrong[k] <= Newest(attempts[k])
    BY <1>0, <2>1 DEF FailuresTypeOK, FailuresInv
  <2>5. Len(table[k]) \in 1..MaxFailures
    BY <2>3, <2>4, Constants
  <2> QED BY <2>1, <2>2, <2>3, <2>4, <2>5
<1>7. ASSUME NEW k \in Keys, k \notin DOMAIN table PROVE Held(k) = <<>>
  <2>1. CASE k \in DOMAIN attempts
    BY <1>1, <1>7, <2>1 DEF Held, Entry
  <2>2. CASE k \notin DOMAIN attempts
    <3>1. Entry(k) = <<>> /\ <<>> \in Seq(0..Window) /\ InOrder(<<>>)
      BY <2>2, EmptySeq DEF Entry, InOrder
    <3> QED BY <3>1, RecentOfRecent DEF Held
  <2> QED BY <2>1, <2>2
<1>8. ASSUME NEW k \in Keys PROVE is_locked(table, k) <=> Len(Held(k)) >= MaxFailures
  <2>1. CASE k \in DOMAIN table
    BY <1>3, <2>1 DEF is_locked
  <2>2. CASE k \notin DOMAIN table
    <3>1. Len(Held(k)) = 0
      BY <1>7, <2>2, EmptySeq
    <3> QED BY <2>2, <3>1, Constants DEF is_locked
  <2> QED BY <2>1, <2>2
<1>9. Pruned(table)
  BY <1>2, <1>5, <1>6 DEF Pruned
<1> QED BY <1>2, <1>3, <1>4, <1>6, <1>7, <1>8, <1>9

\* What a pruned table holds, once it is the table.
LEMMA HeldInPruned ==
  ASSUME NEW table, Pruned(table), attempts' = table, NEW k \in Keys
  PROVE  Held(k)' = IF k \in DOMAIN table THEN table[k] ELSE <<>>
<1>1. CASE k \in DOMAIN table
  <2>1. table[k] \in Seq(0..Window) /\ InOrder(table[k])
    BY <1>1 DEF Pruned
  <2>2. Recent(table[k]) = table[k]
    BY <2>1, RecentOfRecent
  <2> QED BY <1>1, <2>2 DEF Held, Entry
<1>2. CASE k \notin DOMAIN table
  <2>1. <<>> \in Seq(0..Window) /\ InOrder(<<>>)
    BY EmptySeq DEF InOrder
  <2>2. Recent(<<>>) = <<>>
    BY <2>1, RecentOfRecent
  <2> QED BY <1>2, <2>2 DEF Held, Entry
<1> QED BY <1>1, <1>2

\* The other keys that failed since some guess remain those, or become more.
LEMMA SinceGrows ==
  ASSUME NEW k \in Keys, NEW age, NEW later,
         \A o \in Keys \ {k} : last_wrong[o] <= age => last_wrong'[o] <= later,
         Cardinality(FailedSince(k, age)) >= MaxKeys
  PROVE  Cardinality({o \in Keys \ {k} : last_wrong'[o] <= later}) >= MaxKeys
<1> DEFINE S == FailedSince(k, age)
           T == {o \in Keys \ {k} : last_wrong'[o] <= later}
<1>1. S \subseteq T /\ T \subseteq Keys
  BY DEF FailedSince
<1>2. IsFiniteSet(T)
  BY <1>1, Constants, FS_Subset
<1>3. Cardinality(S) <= Cardinality(T) /\ IsFiniteSet(S)
  BY <1>1, <1>2, FS_Subset
<1>4. Cardinality(S) \in Nat /\ Cardinality(T) \in Nat
  BY <1>2, <1>3, FS_CardinalityType
<1> QED BY <1>3, <1>4, Constants

\* A key of which the table holds the same, whose guesses are the same.
LEMMA KeptKey ==
  ASSUME FailuresInv, NEW k \in Keys, Held(k)' = Held(k), guesses'[k] = guesses[k],
         \A o \in Keys : last_wrong'[o] = last_wrong[o] \/ last_wrong'[o] = 0
  PROVE  HeldAreLast(k)'
<1>1. HeldAreLast(k) /\ FailuresTypeOK
  BY DEF FailuresInv
<1>2. EndOf(Held(k), guesses[k])'
  BY <1>1 DEF HeldAreLast, EndOf
<1>3. ASSUME Len(Held(k)) < Len(guesses[k])
      PROVE  Cardinality(FailedSince(k, guesses[k][Len(guesses[k]) - Len(Held(k))])') >= MaxKeys
  <2>1. PICK age : age = guesses[k][Len(guesses[k]) - Len(Held(k))]
    OBVIOUS
  <2>2. Cardinality(FailedSince(k, age)) >= MaxKeys
    BY <1>1, <1>3, <2>1 DEF HeldAreLast
  <2>3. age \in Nat
    <3>1. Len(guesses[k]) - Len(Held(k)) \in 1..Len(guesses[k])
      BY <1>1, <1>3, EntryFacts
    <3>2. guesses[k] \in Seq(0..Window)
      BY <1>1, EntryFacts
    <3> QED BY <2>1, <3>1, <3>2, ElementOfSeq, Constants
  <2>4. \A o \in Keys \ {k} : last_wrong[o] <= age => last_wrong'[o] <= age
    BY <2>3
  <2>5. Cardinality({o \in Keys \ {k} : last_wrong'[o] <= age}) >= MaxKeys
    BY <2>2, <2>4, SinceGrows
  <2> QED BY <2>1, <2>5 DEF FailedSince
<1> QED BY <1>2, <1>3 DEF HeldAreLast

-----------------------------------------------------------------------------
\* The steps.

\* A step that leaves a pruned table, guesses in order, and every entry no older
\* than its key's last wrong guess.
LEMMA Rewritten ==
  ASSUME NEW table, Pruned(table), attempts' = table,
         guesses' \in [Keys -> Seq(0..Window)], last_wrong' \in [Keys -> 0..Old],
         \A k \in Keys : InOrder(guesses'[k]),
         \A k \in DOMAIN table : last_wrong'[k] <= Newest(table[k]),
         \A k \in Keys : HeldAreLast(k)'
  PROVE  FailuresInv'
<1>1. \A k \in DOMAIN table : table[k] \in Seq(0..Old)
  <2>1. 0..Window \subseteq 0..Old
    BY Constants
  <2> QED BY <2>1, SeqMonotonic DEF Pruned
<1>2. FailuresTypeOK'
  BY <1>1 DEF FailuresTypeOK, Pruned, InOrder
<1> QED BY <1>2 DEF FailuresInv

LEMMA FailuresStart ==
  ASSUME FailuresInit
  PROVE  FailuresInv
<1>1. DOMAIN attempts = {} /\ \A k \in Keys : guesses[k] = <<>>
  BY DEF FailuresInit
<1>2. <<>> \in Seq(0..Window) /\ InOrder(<<>>) /\ Len(<<>>) = 0
  BY EmptySeq DEF InOrder
<1>3. FailuresTypeOK
  <2>1. Cardinality(DOMAIN attempts) <= MaxKeys
    BY <1>1, FS_EmptySet, Constants
  <2>2. guesses \in [Keys -> Seq(0..Window)] /\ last_wrong \in [Keys -> 0..Old]
    BY <1>2, Constants DEF FailuresInit
  <2> QED BY <1>1, <2>1, <2>2 DEF FailuresTypeOK
<1>4. ASSUME NEW k \in Keys PROVE HeldAreLast(k)
  <2>1. Held(k) = <<>>
    BY <1>1, <1>2, RecentOfRecent DEF Held, Entry
  <2> QED BY <1>1, <1>2, <2>1 DEF HeldAreLast, EndOf
<1> QED BY <1>1, <1>2, <1>3, <1>4 DEF FailuresInv

\* Refuse and CreateLobby: only a prune.
LEMMA PruneStep ==
  ASSUME FailuresInv, attempts' = prune(attempts), UNCHANGED <<guesses, last_wrong>>
  PROVE  FailuresInv'
<1>1. PICK table : table = prune(attempts)
  OBVIOUS
<1>2. /\ Pruned(table)
      /\ \A k \in DOMAIN table : table[k] = Held(k) /\ last_wrong[k] <= Newest(table[k])
      /\ \A k \in Keys : k \notin DOMAIN table => Held(k) = <<>>
  BY <1>1, PruneFacts
<1>3. ASSUME NEW k \in Keys PROVE HeldAreLast(k)'
  <2>1. Held(k)' = IF k \in DOMAIN table THEN table[k] ELSE <<>>
    BY <1>1, <1>2, HeldInPruned
  <2>2. Held(k)' = Held(k)
    BY <1>2, <2>1
  <2> QED BY <2>2, KeptKey
<1> QED BY <1>1, <1>2, <1>3, Rewritten DEF FailuresInv, FailuresTypeOK

LEMMA RightStep ==
  ASSUME FailuresInv, NEW k \in Keys, RightPassword(k)
  PROVE  FailuresInv'
<1>0. FailuresTypeOK
  BY DEF FailuresInv
<1>1. PICK table : table = prune(attempts)
  OBVIOUS
<1>2. /\ Pruned(table) /\ IsFiniteSet(DOMAIN table)
      /\ \A o \in DOMAIN table : table[o] = Held(o) /\ last_wrong[o] <= Newest(table[o])
      /\ \A o \in Keys : o \notin DOMAIN table => Held(o) = <<>>
  BY <1>1, PruneFacts
<1>3. PICK rest : rest = Without(table, k)
  OBVIOUS
<1>4. /\ attempts' = rest /\ guesses' = [guesses EXCEPT ![k] = <<>>]
      /\ last_wrong' = last_wrong
  BY <1>1, <1>3 DEF RightPassword
<1>5. DOMAIN rest = DOMAIN table \ {k} /\ \A o \in DOMAIN rest : rest[o] = table[o]
  BY <1>3 DEF Without
<1>6. Pruned(rest)
  <2>1. /\ DOMAIN rest \subseteq DOMAIN table /\ IsFiniteSet(DOMAIN rest)
        /\ Cardinality(DOMAIN rest) <= Cardinality(DOMAIN table)
    BY <1>2, <1>5, FS_Subset
  <2>2. Cardinality(DOMAIN rest) \in Nat /\ Cardinality(DOMAIN table) \in Nat
    BY <1>2, <2>1, FS_CardinalityType
  <2>3. Cardinality(DOMAIN rest) <= MaxKeys
    BY <1>2, <2>1, <2>2, Constants DEF Pruned
  <2> QED BY <1>2, <1>5, <2>1, <2>3 DEF Pruned
<1>7. <<>> \in Seq(0..Window) /\ InOrder(<<>>) /\ Len(<<>>) = 0
  BY EmptySeq DEF InOrder
<1>8. /\ guesses' \in [Keys -> Seq(0..Window)] /\ guesses'[k] = <<>>
      /\ \A o \in Keys : o # k => guesses'[o] = guesses[o]
      /\ last_wrong' \in [Keys -> 0..Old]
  BY <1>0, <1>4, <1>7 DEF FailuresTypeOK
<1>9. ASSUME NEW o \in Keys PROVE HeldAreLast(o)'
  <2>1. Held(o)' = IF o \in DOMAIN rest THEN rest[o] ELSE <<>>
    BY <1>4, <1>6, HeldInPruned
  <2>2. CASE o = k
    <3>1. Held(o)' = <<>> /\ guesses'[o] = <<>>
      BY <1>5, <1>8, <2>1, <2>2
    <3> QED BY <1>7, <3>1 DEF HeldAreLast, EndOf
  <2>3. CASE o # k
    <3>1. Held(o)' = Held(o) /\ guesses'[o] = guesses[o]
      BY <1>2, <1>5, <1>8, <2>1, <2>3
    <3> QED BY <1>4, <3>1, KeptKey
  <2> QED BY <2>2, <2>3
<1>10. \A o \in Keys : InOrder(guesses'[o])
  BY <1>7, <1>8 DEF FailuresInv
<1>11. \A o \in DOMAIN rest : last_wrong'[o] <= Newest(rest[o])
  BY <1>2, <1>4, <1>5
<1> QED BY <1>4, <1>6, <1>8, <1>9, <1>10, <1>11, Rewritten

\* One more failure, now.
LEMMA OneMore ==
  ASSUME NEW s \in Seq(0..Window), InOrder(s)
  PROVE  /\ Append(s, 0) \in Seq(0..Window) /\ InOrder(Append(s, 0))
         /\ Len(Append(s, 0)) = Len(s) + 1 /\ Newest(Append(s, 0)) = 0
         /\ \A i \in 1..Len(s) : Append(s, 0)[i] = s[i]
         /\ Len(s) \in Nat
<1>1. 0 \in 0..Window /\ Len(s) \in Nat /\ \A i \in 1..Len(s) : s[i] \in 0..Window
  BY Constants, LenProperties, ElementOfSeq
<1>2. /\ Append(s, 0) \in Seq(0..Window) /\ Len(Append(s, 0)) = Len(s) + 1
      /\ \A i \in 1..Len(s) : Append(s, 0)[i] = s[i]
      /\ Append(s, 0)[Len(s) + 1] = 0
  BY <1>1, AppendProperties
<1>3. ASSUME NEW i \in 1..(Len(s) + 1), NEW j \in 1..(Len(s) + 1), i < j
      PROVE  Append(s, 0)[i] >= Append(s, 0)[j]
  <2>0. i \in 1..Len(s)
    BY <1>1, <1>3
  <2>1. CASE j = Len(s) + 1
    <3>1. Append(s, 0)[j] = 0 /\ Append(s, 0)[i] \in 0..Window
      BY <1>1, <1>2, <2>0, <2>1
    <3> QED BY <3>1, Constants
  <2>2. CASE j # Len(s) + 1
    <3>1. j \in 1..Len(s)
      BY <1>1, <2>2
    <3>2. s[i] >= s[j]
      BY <1>3, <2>0, <3>1 DEF InOrder
    <3> QED BY <1>2, <2>0, <3>1, <3>2
  <2> QED BY <2>1, <2>2
<1>4. InOrder(Append(s, 0))
  BY <1>2, <1>3 DEF InOrder
<1> QED BY <1>1, <1>2, <1>4 DEF Newest

LEMMA EndOfMore ==
  ASSUME NEW e \in Seq(0..Window), InOrder(e), NEW s \in Seq(0..Window), InOrder(s), EndOf(e, s)
  PROVE  /\ EndOf(Append(e, 0), Append(s, 0))
         /\ Len(Append(e, 0)) < Len(Append(s, 0)) =>
              /\ Len(e) < Len(s)
              /\ Append(s, 0)[Len(Append(s, 0)) - Len(Append(e, 0))] = s[Len(s) - Len(e)]
<1>0. PICK f, t : f = Append(e, 0) /\ t = Append(s, 0)
  OBVIOUS
<1>1. /\ Len(f) = Len(e) + 1 /\ Newest(f) = 0 /\ \A i \in 1..Len(e) : f[i] = e[i]
      /\ Len(e) \in Nat
  BY <1>0, OneMore
<1>2. /\ Len(t) = Len(s) + 1 /\ Newest(t) = 0 /\ \A i \in 1..Len(s) : t[i] = s[i]
      /\ Len(s) \in Nat
  BY <1>0, OneMore
<1>3. Len(e) <= Len(s)
  BY DEF EndOf
<1>4. ASSUME NEW i \in 1..Len(f) PROVE f[i] = t[Len(t) - Len(f) + i]
  <2>1. CASE i = Len(e) + 1
    <3>1. Len(t) - Len(f) + i = Len(t) /\ i = Len(f)
      BY <1>1, <1>2, <2>1
    <3> QED BY <1>1, <1>2, <3>1 DEF Newest
  <2>2. CASE i # Len(e) + 1
    <3>1. /\ i \in 1..Len(e) /\ Len(t) - Len(f) + i = Len(s) - Len(e) + i
          /\ Len(s) - Len(e) + i \in 1..Len(s)
      BY <1>1, <1>2, <1>3, <2>2
    <3>2. e[i] = s[Len(s) - Len(e) + i]
      BY <3>1 DEF EndOf
    <3> QED BY <1>1, <1>2, <3>1, <3>2
  <2> QED BY <2>1, <2>2
<1>5. ASSUME Len(f) < Len(t)
      PROVE  Len(e) < Len(s) /\ t[Len(t) - Len(f)] = s[Len(s) - Len(e)]
  <2>1. Len(t) - Len(f) = Len(s) - Len(e) /\ Len(s) - Len(e) \in 1..Len(s) /\ Len(e) < Len(s)
    BY <1>1, <1>2, <1>5
  <2> QED BY <1>2, <2>1
<1>6. Len(f) <= Len(t)
  BY <1>1, <1>2, <1>3
<1>7. EndOf(f, t)
  BY <1>4, <1>6 DEF EndOf
<1> QED BY <1>0, <1>5, <1>7

\* record_failure on a table with room for the key, or with the key.
LEMMA RecordedFacts ==
  ASSUME NEW base, Pruned(base), IsFiniteSet(DOMAIN base), NEW k \in Keys,
         k \notin DOMAIN base => Cardinality(DOMAIN base) < MaxKeys,
         k \in DOMAIN base => Len(base[k]) < MaxFailures
  PROVE  \E rec :
           /\ rec = Recorded(base, k)
           /\ Pruned(rec) /\ DOMAIN rec = DOMAIN base \cup {k} /\ Newest(rec[k]) = 0
           /\ k \in DOMAIN base => rec[k] = Append(base[k], 0)
           /\ k \notin DOMAIN base => rec[k] = Append(<<>>, 0)
           /\ \A o \in DOMAIN base : o # k => rec[o] = base[o]
<1> DEFINE rec == Recorded(base, k)
<1>0. PICK s : s = IF k \in DOMAIN base THEN base[k] ELSE <<>>
  OBVIOUS
<1>1. DOMAIN rec = DOMAIN base \cup {k} /\ \A o \in DOMAIN base : o # k => rec[o] = base[o]
  BY DEF Recorded
<1>2. s \in Seq(0..Window) /\ InOrder(s) /\ Len(s) \in Nat /\ Len(s) < MaxFailures
  <2>1. CASE k \in DOMAIN base
    BY <1>0, <2>1 DEF Pruned
  <2>2. CASE k \notin DOMAIN base
    <3>1. <<>> \in Seq(0..Window) /\ Len(<<>>) = 0 /\ InOrder(<<>>)
      BY EmptySeq DEF InOrder
    <3>2. Len(<<>>) \in Nat /\ Len(<<>>) < MaxFailures
      BY <3>1, Constants
    <3> QED BY <1>0, <2>2, <3>1, <3>2
  <2> QED BY <2>1, <2>2
<1>3. rec[k] = Append(s, 0)
  <2>1. CASE k \in DOMAIN base
    BY <1>0, <1>2, <2>1 DEF Recorded
  <2>2. CASE k \notin DOMAIN base
    <3>1. rec[k] = <<0>> /\ s = <<>>
      BY <1>0, <2>2 DEF Recorded
    <3> QED BY <3>1
  <2> QED BY <2>1, <2>2
<1>4. /\ rec[k] \in Seq(0..Window) /\ InOrder(rec[k]) /\ Newest(rec[k]) = 0
      /\ Len(rec[k]) \in 1..MaxFailures
  <2>1. /\ rec[k] \in Seq(0..Window) /\ InOrder(rec[k]) /\ Newest(rec[k]) = 0
        /\ Len(rec[k]) = Len(s) + 1
    BY <1>2, <1>3, OneMore
  <2> QED BY <1>2, <2>1, Constants
<1>5. Cardinality(DOMAIN rec) <= MaxKeys
  <2>1. CASE k \in DOMAIN base
    <3>1. DOMAIN rec = DOMAIN base
      BY <1>1, <2>1
    <3> QED BY <3>1 DEF Pruned
  <2>2. CASE k \notin DOMAIN base
    <3>1. Cardinality(DOMAIN rec) = Cardinality(DOMAIN base) + 1
      BY <1>1, <2>2, FS_AddElement
    <3>2. Cardinality(DOMAIN base) \in Nat
      BY FS_CardinalityType
    <3> QED BY <2>2, <3>1, <3>2, Constants
  <2> QED BY <2>1, <2>2
<1>6. \A o \in DOMAIN rec :
        rec[o] \in Seq(0..Window) /\ Len(rec[o]) \in 1..MaxFailures /\ InOrder(rec[o])
  <2> SUFFICES ASSUME NEW o \in DOMAIN rec
               PROVE  rec[o] \in Seq(0..Window) /\ Len(rec[o]) \in 1..MaxFailures /\ InOrder(rec[o])
    OBVIOUS
  <2>1. CASE o = k
    BY <1>4, <2>1
  <2>2. CASE o # k
    BY <1>1, <2>2 DEF Pruned
  <2> QED BY <2>1, <2>2
<1>7. Pruned(rec)
  BY <1>1, <1>5, <1>6 DEF Pruned
<1> QED BY <1>0, <1>1, <1>3, <1>4, <1>7

\* What is left of the table before a wrong guess at k is recorded: all of it or,
\* when it is full and k is new, all but one key that failed no later than any.
LeftFor(k, table, base) ==
  \/ ~MustRetire(table, k) /\ base = table
  \/ MustRetire(table, k) /\ \E o \in Retired(table) : base = Without(table, o)

LEMMA LeftFacts ==
  ASSUME NEW table, Pruned(table), IsFiniteSet(DOMAIN table), NEW k \in Keys,
         ~is_locked(table, k), NEW base, LeftFor(k, table, base)
  PROVE  /\ Pruned(base) /\ IsFiniteSet(DOMAIN base) /\ DOMAIN base \subseteq DOMAIN table
         /\ \A o \in DOMAIN base : base[o] = table[o]
         /\ k \notin DOMAIN base => Cardinality(DOMAIN base) < MaxKeys
         /\ k \in DOMAIN base => Len(base[k]) < MaxFailures
         /\ k \in DOMAIN table => k \in DOMAIN base
         /\ \A o \in DOMAIN table \ DOMAIN base :
              o \in Retired(table) /\ MustRetire(table, k)
<1>0. /\ Cardinality(DOMAIN table) \in Nat /\ Cardinality(DOMAIN table) <= MaxKeys
      /\ \A o \in DOMAIN table : Len(table[o]) \in 1..MaxFailures
  BY FS_CardinalityType DEF Pruned
<1>1. k \in DOMAIN table => Len(table[k]) < MaxFailures
  BY <1>0, Constants DEF is_locked
<1>2. CASE ~MustRetire(table, k)
  <2>1. base = table
    BY <1>2 DEF LeftFor
  <2>2. k \notin DOMAIN base => Cardinality(DOMAIN base) < MaxKeys
    BY <1>0, <1>2, <2>1, Constants DEF MustRetire
  <2> QED BY <1>1, <2>1, <2>2
<1>3. CASE MustRetire(table, k)
  <2>1. PICK o \in Retired(table) : base = Without(table, o)
    BY <1>3 DEF LeftFor
  <2>2. /\ o \in DOMAIN table /\ DOMAIN base = DOMAIN table \ {o}
        /\ \A x \in DOMAIN base : base[x] = table[x] /\ k \notin DOMAIN table
    BY <1>3, <2>1 DEF Retired, Without, MustRetire
  <2>3. k \notin DOMAIN table
    BY <1>3 DEF MustRetire
  <2>4. IsFiniteSet(DOMAIN base) /\ Cardinality(DOMAIN base) = Cardinality(DOMAIN table) - 1
    BY <2>2, FS_RemoveElement
  <2>5. Cardinality(DOMAIN base) < MaxKeys /\ Cardinality(DOMAIN base) <= MaxKeys
    BY <1>0, <2>4, Constants
  <2>6. Pruned(base)
    BY <2>2, <2>5 DEF Pruned
  <2> QED BY <1>3, <2>1, <2>2, <2>3, <2>4, <2>5, <2>6
<1> QED BY <1>2, <1>3

\* The key that goes from a full table has MaxKeys others that failed since its
\* last failure: those that stay, and the one it makes room for.
LEMMA RetiredIsOutrun ==
  ASSUME FailuresInv, NEW table, table = prune(attempts), NEW k \in Keys,
         NEW o \in Retired(table), MustRetire(table, k),
         last_wrong' = [last_wrong EXCEPT ![k] = 0]
  PROVE  Cardinality({x \in Keys \ {o} : last_wrong'[x] <= Newest(table[o])}) >= MaxKeys
<1>0. FailuresTypeOK
  BY DEF FailuresInv
<1>1. /\ Pruned(table) /\ IsFiniteSet(DOMAIN table)
      /\ \A x \in DOMAIN table : last_wrong[x] <= Newest(table[x])
  BY PruneFacts
<1>2. ASSUME NEW x \in DOMAIN table PROVE Newest(table[x]) \in Nat /\ x \in Keys
  <2>1. table[x] \in Seq(0..Window) /\ Len(table[x]) \in 1..Len(table[x]) /\ x \in Keys
    BY <1>1, Constants DEF Pruned
  <2>2. table[x][Len(table[x])] \in 0..Window
    BY <2>1, ElementOfSeq
  <2> QED BY <2>1, <2>2, Constants DEF Newest
<1>3. /\ o \in DOMAIN table /\ k \notin DOMAIN table
      /\ \A x \in DOMAIN table : Newest(table[o]) >= Newest(table[x])
      /\ Cardinality(DOMAIN table) >= MaxKeys
  BY DEF Retired, MustRetire
<1> DEFINE stay == DOMAIN table \ {o}
           T == {x \in Keys \ {o} : last_wrong'[x] <= Newest(table[o])}
<1>4. ASSUME NEW x \in stay PROVE x \in T
  <2>1. x \in Keys /\ x # k /\ x # o /\ last_wrong[x] \in Nat
    BY <1>0, <1>2, <1>3, Constants DEF FailuresTypeOK
  <2>2. last_wrong[x] <= Newest(table[x]) /\ Newest(table[x]) <= Newest(table[o])
        /\ Newest(table[x]) \in Nat /\ Newest(table[o]) \in Nat
    BY <1>1, <1>2, <1>3
  <2>3. last_wrong'[x] = last_wrong[x]
    BY <1>0, <2>1 DEF FailuresTypeOK
  <2>4. last_wrong'[x] <= Newest(table[o])
    BY <2>1, <2>2, <2>3
  <2> QED BY <2>1, <2>4
<1>5. k \in T /\ k \notin stay
  <2>1. last_wrong'[k] = 0 /\ Newest(table[o]) \in Nat /\ k # o
    BY <1>0, <1>2, <1>3 DEF FailuresTypeOK
  <2> QED BY <1>3, <2>1
<1>6. IsFiniteSet(stay) /\ Cardinality(stay) = Cardinality(DOMAIN table) - 1
  BY <1>1, <1>3, FS_RemoveElement
<1>7. IsFiniteSet(stay \cup {k}) /\ Cardinality(stay \cup {k}) = Cardinality(stay) + 1
  BY <1>5, <1>6, FS_AddElement
<1>8. IsFiniteSet(T)
  BY Constants, FS_Subset
<1>9. stay \cup {k} \subseteq T
  BY <1>4, <1>5
<1>10. Cardinality(stay \cup {k}) <= Cardinality(T)
  BY <1>8, <1>9, FS_Subset
<1>11. Cardinality(DOMAIN table) \in Nat /\ Cardinality(T) \in Nat
  BY <1>1, <1>8, FS_CardinalityType
<1> HIDE DEF stay, T
<1>12. Cardinality(T) >= MaxKeys
  BY <1>3, <1>6, <1>7, <1>10, <1>11, Constants
<1> QED BY <1>12 DEF T

LEMMA WrongStep ==
  ASSUME FailuresInv, NEW k \in Keys, WrongPassword(k)
  PROVE  FailuresInv'
<1>0. FailuresTypeOK
  BY DEF FailuresInv
<1>1. PICK table : table = prune(attempts)
  OBVIOUS
<1>2. /\ Pruned(table) /\ IsFiniteSet(DOMAIN table)
      /\ \A o \in DOMAIN table : table[o] = Held(o) /\ last_wrong[o] <= Newest(table[o])
      /\ \A o \in Keys : o \notin DOMAIN table => Held(o) = <<>>
  BY <1>1, PruneFacts
<1>3. /\ ~is_locked(table, k) /\ record_failure(table, k)
      /\ guesses' = [guesses EXCEPT ![k] = Append(guesses[k], 0)]
      /\ last_wrong' = [last_wrong EXCEPT ![k] = 0]
  BY <1>1 DEF WrongPassword
<1>4. PICK base : LeftFor(k, table, base) /\ attempts' = Recorded(base, k)
  BY <1>3 DEF record_failure, LeftFor
<1>5. /\ Pruned(base) /\ IsFiniteSet(DOMAIN base) /\ DOMAIN base \subseteq DOMAIN table
      /\ \A o \in DOMAIN base : base[o] = table[o]
      /\ k \notin DOMAIN base => Cardinality(DOMAIN base) < MaxKeys
      /\ k \in DOMAIN base => Len(base[k]) < MaxFailures
      /\ k \in DOMAIN table => k \in DOMAIN base
      /\ \A o \in DOMAIN table \ DOMAIN base : o \in Retired(table) /\ MustRetire(table, k)
  BY <1>2, <1>3, <1>4, LeftFacts
<1>6. PICK rec :
        /\ rec = Recorded(base, k)
        /\ Pruned(rec) /\ DOMAIN rec = DOMAIN base \cup {k} /\ Newest(rec[k]) = 0
        /\ k \in DOMAIN base => rec[k] = Append(base[k], 0)
        /\ k \notin DOMAIN base => rec[k] = Append(<<>>, 0)
        /\ \A o \in DOMAIN base : o # k => rec[o] = base[o]
  BY <1>5, RecordedFacts
<1>7. /\ Pruned(rec) /\ DOMAIN rec = DOMAIN base \cup {k}
      /\ rec[k] = Append(Held(k), 0) /\ Newest(rec[k]) = 0
      /\ \A o \in DOMAIN base : o # k => rec[o] = base[o]
  <2>1. Held(k) = IF k \in DOMAIN base THEN base[k] ELSE <<>>
    BY <1>2, <1>5
  <2>2. rec[k] = Append(Held(k), 0)
    BY <1>6, <2>1
  <2> QED BY <1>6, <2>2
<1>8. /\ Held(k) \in Seq(0..Window) /\ InOrder(Held(k))
      /\ guesses[k] \in Seq(0..Window) /\ InOrder(guesses[k]) /\ HeldAreLast(k)
  BY <1>0, EntryFacts DEF FailuresInv
<1>9. /\ guesses' \in [Keys -> Seq(0..Window)] /\ guesses'[k] = Append(guesses[k], 0)
      /\ \A o \in Keys : o # k => guesses'[o] = guesses[o]
      /\ \A o \in Keys : InOrder(guesses'[o])
  <2>1. Append(guesses[k], 0) \in Seq(0..Window) /\ InOrder(Append(guesses[k], 0))
    BY <1>8, OneMore
  <2>2. guesses' \in [Keys -> Seq(0..Window)] /\ guesses'[k] = Append(guesses[k], 0)
        /\ \A o \in Keys : o # k => guesses'[o] = guesses[o]
    BY <1>0, <1>3, <2>1 DEF FailuresTypeOK
  <2> QED BY <2>1, <2>2 DEF FailuresInv
<1>10. /\ last_wrong' \in [Keys -> 0..Old] /\ last_wrong'[k] = 0
       /\ \A o \in Keys : o # k => last_wrong'[o] = last_wrong[o]
  BY <1>0, <1>3, Constants DEF FailuresTypeOK
<1>11. \A o \in DOMAIN rec : last_wrong'[o] <= Newest(rec[o])
  <2> SUFFICES ASSUME NEW o \in DOMAIN rec PROVE last_wrong'[o] <= Newest(rec[o])
    OBVIOUS
  <2>1. CASE o = k
    <3>1. last_wrong'[o] = 0 /\ Newest(rec[o]) = 0
      BY <1>7, <1>10, <2>1
    <3> QED BY <3>1
  <2>2. CASE o # k
    <3>1. o \in DOMAIN table /\ rec[o] = table[o] /\ o \in Keys
      BY <1>2, <1>5, <1>7, <2>2 DEF Pruned
    <3> QED BY <1>2, <1>10, <2>2, <3>1
  <2> QED BY <2>1, <2>2
<1>12. \A o \in Keys : Held(o)' = IF o \in DOMAIN rec THEN rec[o] ELSE <<>>
  BY <1>4, <1>6, <1>7, HeldInPruned
<1>13. HeldAreLast(k)'
  <2>1. PICK f : f = Held(k)' /\ f = Append(Held(k), 0)
    BY <1>7, <1>12
  <2>2. PICK t : t = guesses'[k] /\ t = Append(guesses[k], 0)
    BY <1>9
  <2>3. /\ EndOf(f, t)
        /\ Len(f) < Len(t) => /\ Len(Held(k)) < Len(guesses[k])
                              /\ t[Len(t) - Len(f)] = guesses[k][Len(guesses[k]) - Len(Held(k))]
    <3>1. PICK e \in Seq(0..Window) : e = Held(k) /\ InOrder(e)
      BY <1>8
    <3>2. PICK s \in Seq(0..Window) : s = guesses[k] /\ InOrder(s)
      BY <1>8
    <3>3. EndOf(e, s) /\ f = Append(e, 0) /\ t = Append(s, 0)
      BY <1>8, <2>1, <2>2, <3>1, <3>2 DEF HeldAreLast
    <3>4. /\ EndOf(f, t)
          /\ Len(f) < Len(t) => Len(e) < Len(s) /\ t[Len(t) - Len(f)] = s[Len(s) - Len(e)]
      <4>1. /\ EndOf(Append(e, 0), Append(s, 0))
            /\ Len(Append(e, 0)) < Len(Append(s, 0)) =>
                 /\ Len(e) < Len(s)
                 /\ Append(s, 0)[Len(Append(s, 0)) - Len(Append(e, 0))] = s[Len(s) - Len(e)]
        BY <3>1, <3>2, <3>3, EndOfMore
      <4> QED BY <3>3, <4>1, Zenon
    <3> QED BY <3>1, <3>2, <3>4
  <2>4. ASSUME Len(f) < Len(t)
        PROVE  Cardinality({o \in Keys \ {k} : last_wrong'[o] <= t[Len(t) - Len(f)]}) >= MaxKeys
    <3>1. PICK age : age = t[Len(t) - Len(f)]
      OBVIOUS
    <3>2. Cardinality(FailedSince(k, age)) >= MaxKeys
      BY <1>8, <2>3, <2>4, <3>1 DEF HeldAreLast
    <3>3. \A o \in Keys \ {k} : last_wrong[o] <= age => last_wrong'[o] <= age
      BY <1>10
    <3> QED BY <3>1, <3>2, <3>3, SinceGrows
  <2> QED BY <2>1, <2>2, <2>3, <2>4 DEF HeldAreLast, EndOf, FailedSince
<1>14. ASSUME NEW o \in Keys, o # k PROVE HeldAreLast(o)'
  <2>1. CASE o \in DOMAIN base \/ o \notin DOMAIN table
    <3>1. Held(o)' = Held(o)
      BY <1>2, <1>5, <1>7, <1>12, <1>14, <2>1
    <3> QED BY <1>9, <1>10, <1>14, <3>1, KeptKey
  <2>2. CASE o \in DOMAIN table \ DOMAIN base
    <3>1. o \in Retired(table) /\ MustRetire(table, k) /\ table[o] = Held(o)
      BY <1>2, <1>5, <2>2
    <3>2. Cardinality({x \in Keys \ {o} : last_wrong'[x] <= Newest(table[o])}) >= MaxKeys
      BY <1>1, <1>3, <3>1, RetiredIsOutrun
    <3>3. Held(o)' = <<>> /\ Len(<<>>) = 0 /\ guesses'[o] = guesses[o]
      BY <1>7, <1>9, <1>12, <1>14, <2>2, EmptySeq
    <3>4. EndOf(Held(o), guesses[o]) /\ Len(Held(o)) \in 1..MaxFailures /\ Len(guesses[o]) \in Nat
      BY <1>0, <1>2, <2>2, <3>1, EntryFacts DEF FailuresInv, HeldAreLast, Pruned
    <3>5. /\ Len(Held(o)) \in 1..Len(Held(o)) /\ Len(guesses[o]) - 0 = Len(guesses[o])
          /\ Len(guesses[o]) - Len(Held(o)) + Len(Held(o)) = Len(guesses[o])
      BY <3>4, Constants
    <3>6. Newest(table[o]) = guesses[o][Len(guesses[o]) - 0]
      BY <3>1, <3>4, <3>5 DEF EndOf, Newest
    <3>7. EndOf(<<>>, guesses[o])
      BY <3>3, <3>4 DEF EndOf
    <3> QED BY <3>2, <3>3, <3>6, <3>7 DEF HeldAreLast, EndOf, FailedSince
  <2> QED BY <2>1, <2>2
<1>15. attempts' = rec /\ \A o \in Keys : HeldAreLast(o)'
  BY <1>4, <1>6, <1>13, <1>14
<1> QED BY <1>7, <1>9, <1>10, <1>11, <1>15, Rewritten

LEMMA OlderKeepsOrder ==
  ASSUME NEW a \in 0..Old, NEW b \in 0..Old, a <= b
  PROVE  Older(a) <= Older(b) /\ Older(a) \in 0..Old
BY Constants DEF Older

LEMMA FailuresTicks ==
  ASSUME FailuresInv, FailuresTick
  PROVE  FailuresInv'
<1>0. FailuresTypeOK
  BY DEF FailuresInv
<1>1. /\ DOMAIN attempts' = DOMAIN attempts
      /\ \A k \in DOMAIN attempts : attempts'[k] = AllOlder(attempts[k])
  BY DEF FailuresTick
<1>2. /\ \A k \in Keys : guesses'[k] = Recent(AllOlder(guesses[k]))
      /\ guesses' = [k \in Keys |-> guesses'[k]]
      /\ \A k \in Keys : last_wrong'[k] = Older(last_wrong[k])
      /\ last_wrong' = [k \in Keys |-> last_wrong'[k]]
  BY DEF FailuresTick
<1>3. ASSUME NEW k \in Keys PROVE Held(k)' = Recent(AllOlder(Entry(k)))
  <2>1. CASE k \in DOMAIN attempts
    BY <1>1, <2>1 DEF Held, Entry
  <2>2. CASE k \notin DOMAIN attempts
    <3>1. Entry(k) = <<>> /\ Entry(k)' = <<>>
      BY <1>1, <2>2 DEF Entry
    <3>2. AllOlder(<<>>) = <<>>
      <4>1. <<>> \in Seq(0..Old) /\ Len(<<>>) = 0 /\ InOrder(<<>>)
        BY EmptySeq DEF InOrder
      <4>2. AllOlder(<<>>) \in Seq(0..Old) /\ Len(AllOlder(<<>>)) = 0
        BY <4>1, OlderFacts
      <4> QED BY <4>2, EmptySeq
    <3> QED BY <3>1, <3>2 DEF Held
  <2> QED BY <2>1, <2>2
<1>4. ASSUME NEW k \in Keys
      PROVE  /\ guesses'[k] \in Seq(0..Window) /\ InOrder(guesses'[k])
             /\ EndOf(Held(k)', guesses'[k])
             /\ Len(Held(k)') < Len(guesses'[k]) =>
                  /\ Len(Held(k)) < Len(guesses[k])
                  /\ guesses'[k][Len(guesses'[k]) - Len(Held(k)')]
                       = Older(guesses[k][Len(guesses[k]) - Len(Held(k))])
  <2>1. PICK a \in Seq(0..Old) : a = Entry(k) /\ InOrder(a)
    BY <1>0, EntryFacts
  <2>2. PICK g \in Seq(0..Window) : g = guesses[k] /\ InOrder(g)
    BY <1>0, EntryFacts DEF FailuresInv
  <2>3. EndOf(Recent(a), g) /\ Recent(a) = Held(k)
    BY <2>1, <2>2 DEF FailuresInv, HeldAreLast, Held
  <2>4. PICK e, h :
          /\ e = Recent(AllOlder(a)) /\ h = Recent(AllOlder(g))
          /\ EndOf(e, h) /\ h \in Seq(0..Window) /\ InOrder(h)
          /\ Len(e) < Len(h) =>
               /\ Len(Recent(a)) < Len(g)
               /\ h[Len(h) - Len(e)] = Older(g[Len(g) - Len(Recent(a))])
    BY <2>1, <2>2, <2>3, HeldLater
  <2>5. e = Held(k)' /\ h = guesses'[k]
    BY <1>2, <1>3, <2>1, <2>2, <2>4
  <2> QED BY <2>2, <2>3, <2>4, <2>5
<1>5. ASSUME NEW k \in Keys
      PROVE  last_wrong[k] \in 0..Old /\ last_wrong'[k] \in 0..Old
  <2>1. last_wrong[k] \in 0..Old
    BY <1>0 DEF FailuresTypeOK
  <2>2. last_wrong[k] <= last_wrong[k]
    BY <2>1, Constants
  <2> QED BY <1>2, <2>1, <2>2, OlderKeepsOrder
<1>6. ASSUME NEW k \in DOMAIN attempts
      PROVE  /\ attempts'[k] \in Seq(0..Old) /\ InOrder(attempts'[k])
             /\ Len(attempts'[k]) \in 1..MaxFailures
             /\ last_wrong'[k] <= Newest(attempts'[k])
  <2>1. /\ k \in Keys /\ attempts[k] \in Seq(0..Old) /\ InOrder(attempts[k])
        /\ Len(attempts[k]) \in 1..MaxFailures /\ last_wrong[k] <= Newest(attempts[k])
    BY <1>0 DEF FailuresTypeOK, FailuresInv, InOrder
  <2>2. /\ attempts'[k] \in Seq(0..Old) /\ InOrder(attempts'[k])
        /\ Len(attempts'[k]) = Len(attempts[k])
        /\ \A i \in 1..Len(attempts[k]) :
             attempts'[k][i] = Older(attempts[k][i]) /\ attempts[k][i] \in 0..Old
    BY <1>1, <2>1, OlderFacts
  <2>3. Len(attempts[k]) \in 1..Len(attempts[k])
    BY <2>1, Constants
  <2>4. Newest(attempts'[k]) = Older(Newest(attempts[k])) /\ Newest(attempts[k]) \in 0..Old
    BY <2>2, <2>3 DEF Newest
  <2>5. Older(last_wrong[k]) <= Older(Newest(attempts[k]))
    BY <1>5, <2>1, <2>4, OlderKeepsOrder
  <2> QED BY <1>2, <2>1, <2>2, <2>4, <2>5
<1>7. FailuresTypeOK'
  <2>1. guesses' \in [Keys -> Seq(0..Window)]
    BY <1>2, <1>4
  <2>2. last_wrong' \in [Keys -> 0..Old]
    BY <1>2, <1>5
  <2>3. \A k \in DOMAIN attempts' :
          /\ attempts'[k] \in Seq(0..Old) /\ Len(attempts'[k]) \in 1..MaxFailures
          /\ InOrder(attempts'[k])
    BY <1>1, <1>6
  <2> QED BY <1>0, <1>1, <2>1, <2>2, <2>3 DEF FailuresTypeOK, InOrder
<1>8. ASSUME NEW k \in Keys PROVE HeldAreLast(k)'
  <2>1. ASSUME Len(Held(k)') < Len(guesses'[k])
        PROVE  Cardinality({o \in Keys \ {k} :
                 last_wrong'[o] <= guesses'[k][Len(guesses'[k]) - Len(Held(k)')]}) >= MaxKeys
    <3>1. PICK age : age = guesses[k][Len(guesses[k]) - Len(Held(k))]
      OBVIOUS
    <3>2. /\ Len(Held(k)) < Len(guesses[k])
          /\ guesses'[k][Len(guesses'[k]) - Len(Held(k)')] = Older(age)
      BY <1>4, <2>1, <3>1
    <3>3. Cardinality(FailedSince(k, age)) >= MaxKeys
      BY <3>1, <3>2 DEF FailuresInv, HeldAreLast
    <3>4. age \in 0..Old
      <4>1. Len(guesses[k]) - Len(Held(k)) \in 1..Len(guesses[k]) /\ guesses[k] \in Seq(0..Window)
        BY <1>0, <3>2, EntryFacts
      <4>2. age \in 0..Window
        BY <3>1, <4>1, ElementOfSeq
      <4> QED BY <4>2, Constants
    <3>5. \A o \in Keys \ {k} : last_wrong[o] <= age => last_wrong'[o] <= Older(age)
      BY <1>2, <1>5, <3>4, OlderKeepsOrder
    <3>6. Cardinality({o \in Keys \ {k} : last_wrong'[o] <= Older(age)}) >= MaxKeys
      BY <3>3, <3>5, SinceGrows
    <3> QED BY <3>2, <3>6
  <2>2. EndOf(Held(k), guesses[k])'
    BY <1>4 DEF EndOf
  <2> QED BY <2>1, <2>2 DEF HeldAreLast, FailedSince
<1>9. \A k \in DOMAIN attempts' : last_wrong'[k] <= Newest(attempts'[k])
  BY <1>1, <1>6
<1>10. \A k \in Keys : InOrder(guesses'[k])
  BY <1>4
<1> QED BY <1>7, <1>8, <1>9, <1>10 DEF FailuresInv

LEMMA FailuresStep ==
  ASSUME FailuresInv, [FailuresNext]_failures_vars
  PROVE  FailuresInv'
<1>1. CASE UNCHANGED failures_vars
  BY <1>1 DEF failures_vars, FailuresInv, FailuresTypeOK, HeldAreLast, Held, Entry, FailedSince
<1>2. ASSUME NEW k \in Keys, Refuse(k) \/ CreateLobby(k) PROVE FailuresInv'
  BY <1>2, PruneStep DEF Refuse, CreateLobby
<1> QED
  BY <1>1, <1>2, WrongStep, RightStep, FailuresTicks DEF FailuresNext

\* A key is locked as soon as it has MAX_REGISTER_PASSWORD_FAILURES wrong guesses
\* of its own in the window, never by anything else, and until the first of them
\* leaves the window; only MAX_REGISTER_PASSWORD_KEYS other keys that failed since
\* can end it earlier.  The table stays bounded in both directions.
THEOREM LocksAlwaysExact == FailuresSpec => []LocksAreExact
<1>1. ASSUME FailuresInv PROVE LocksAreExact
  <2>0. FailuresTypeOK
    BY <1>1 DEF FailuresInv
  <2>1. \A k \in Keys : Locked(k) <=> Len(Held(k)) >= MaxFailures
    BY <1>1, PruneFacts DEF Locked
  <2>2. ASSUME NEW k \in Keys, Locked(k) PROVE Len(guesses[k]) >= MaxFailures
    <3>1. Len(Held(k)) >= MaxFailures /\ Len(Held(k)) <= Len(guesses[k])
      BY <1>1, <2>1, <2>2 DEF FailuresInv, HeldAreLast, EndOf
    <3> QED BY <2>0, <3>1, EntryFacts, Constants
  <2>3. ASSUME NEW k \in Keys, Len(guesses[k]) >= MaxFailures, ~Locked(k)
        PROVE  Cardinality({o \in Keys \ {k} : last_wrong[o] <= FirstOfLast(guesses[k])}) >= MaxKeys
    <3>1. /\ Len(guesses[k]) \in Nat /\ Len(Held(k)) \in Nat /\ guesses[k] \in Seq(0..Window)
          /\ Len(Held(k)) < MaxFailures
      BY <2>0, <2>1, <2>3, EntryFacts, Constants
    <3>2. PICK p \in 1..Len(guesses[k]) : p = Len(guesses[k]) - Len(Held(k))
      <4>1. Len(guesses[k]) - Len(Held(k)) \in 1..Len(guesses[k])
        BY <2>3, <3>1, Constants
      <4> QED BY <4>1
    <3>3. PICK q \in 1..Len(guesses[k]) : q = Len(guesses[k]) - MaxFailures + 1
      <4>1. Len(guesses[k]) - MaxFailures + 1 \in 1..Len(guesses[k])
        BY <2>3, <3>1, Constants
      <4> QED BY <4>1
    <3>4. q <= p
      BY <3>1, <3>2, <3>3, Constants
    <3>5. guesses[k][p] \in 0..Window /\ guesses[k][q] \in 0..Window
      BY <3>1, ElementOfSeq
    <3>6. guesses[k][p] <= guesses[k][q]
      <4>1. CASE q = p
        BY <3>5, <4>1, Constants
      <4>2. CASE q < p
        BY <1>1, <4>2 DEF FailuresInv, InOrder
      <4> QED BY <3>4, <4>1, <4>2
    <3>7. Cardinality(FailedSince(k, guesses[k][p])) >= MaxKeys
      <4>1. Len(Held(k)) < Len(guesses[k])
        BY <2>3, <3>1, Constants
      <4> QED BY <1>1, <3>2, <4>1 DEF FailuresInv, HeldAreLast
    <3> DEFINE S == FailedSince(k, guesses[k][p])
               T == {o \in Keys \ {k} : last_wrong[o] <= guesses[k][q]}
    <3>8. \A o \in Keys : last_wrong[o] \in Nat
      BY <2>0, EntryFacts
    <3>9. S \subseteq T /\ T \subseteq Keys
      BY <3>5, <3>6, <3>8, Constants DEF FailedSince
    <3>10. IsFiniteSet(T)
      BY <3>9, Constants, FS_Subset
    <3>11. Cardinality(S) <= Cardinality(T) /\ IsFiniteSet(S)
      BY <3>9, <3>10, FS_Subset
    <3>12. Cardinality(S) \in Nat /\ Cardinality(T) \in Nat
      BY <3>10, <3>11, FS_CardinalityType
    <3>13. Cardinality(T) >= MaxKeys
      BY <3>7, <3>11, <3>12, Constants
    <3> QED BY <3>3, <3>13 DEF FirstOfLast
  <2> QED BY <2>0, <2>2, <2>3
    DEF LocksAreExact, LockedOnlyByOwnFailures, LockHoldsAgainstFewKeys
<1> QED BY <1>1, FailuresStart, FailuresStep, PTL DEF FailuresSpec
=============================================================================

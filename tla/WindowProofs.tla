---------------------------- MODULE WindowProofs ----------------------------
(***************************************************************************)
(* Proofs about the code's fixed windows: Pacing (MessageRateLimiter,      *)
(* OutboundBudget) and SubmitLimits (allow_submit_quota and the cooldown), *)
(* for any lengths of the windows and any limits.                          *)
(***************************************************************************)
EXTENDS Pacing, SubmitLimits, Induction, FiniteSetTheorems, TLAPS

-----------------------------------------------------------------------------
\* Sums over ages.

\* The recursion has a solution.
Solves(g, f, m) == \A a \in 0..m : g[a] = f[a] + (IF a = 0 THEN 0 ELSE g[a - 1])

LEMMA TotalsExist ==
  ASSUME NEW n \in Nat, NEW f \in [0..n -> Nat]
  PROVE  \E g \in [0..n -> Nat] : Solves(g, f, n)
<1> DEFINE S == {m \in 0..n : \E g \in [0..m -> Nat] : Solves(g, f, m)}
<1>1. 0 \in S
  <2> DEFINE g == [a \in 0..0 |-> f[0]]
  <2>1. g \in [0..0 -> Nat] /\ Solves(g, f, 0)
    BY DEF Solves
  <2> QED BY <2>1
<1>2. ASSUME NEW m \in 0..n, m > 0, m - 1 \in S PROVE m \in S
  <2>1. PICK g \in [0..(m - 1) -> Nat] : Solves(g, f, m - 1)
    BY <1>2
  <2> DEFINE h == [a \in 0..m |-> IF a = m THEN f[m] + g[m - 1] ELSE g[a]]
  <2>2. h \in [0..m -> Nat]
    BY <1>2
  <2>3. Solves(h, f, m)
    <3> SUFFICES ASSUME NEW a \in 0..m
                 PROVE  h[a] = f[a] + (IF a = 0 THEN 0 ELSE h[a - 1])
      BY DEF Solves
    <3>1. CASE a = m
      BY <1>2, <3>1
    <3>2. CASE a # m
      BY <1>2, <2>1, <3>2 DEF Solves
    <3> QED BY <3>1, <3>2
  <2> QED BY <2>2, <2>3
<1>3. n \in S
  <2>1. \A m \in 0..n : m > 0 /\ m - 1 \in S => m \in S
    BY <1>2
  <2> HIDE DEF S
  <2>2. \A m \in 0..n : m \in S
    BY <1>1, <2>1, UpTo
  <2> QED BY <2>2
<1> QED BY <1>3

\* RunningTotal is that solution.
LEMMA TotalsEquation ==
  ASSUME NEW n \in Nat, NEW f \in [0..n -> Nat]
  PROVE  /\ RunningTotal(f) \in [0..n -> Nat]
         /\ \A a \in 0..n : SumTo(f, a) \in Nat
         /\ SumTo(f, 0) = f[0]
         /\ \A a \in 0..n : a > 0 => SumTo(f, a) = f[a] + SumTo(f, a - 1)
<1>1. PICK g \in [0..n -> Nat] : Solves(g, f, n)
  BY TotalsExist
<1>2. g = [a \in DOMAIN f |-> f[a] + (IF a = 0 THEN 0 ELSE g[a - 1])]
  BY <1>1 DEF Solves
<1>3. RunningTotal(f) =
        [a \in DOMAIN f |-> f[a] + (IF a = 0 THEN 0 ELSE RunningTotal(f)[a - 1])]
  BY <1>2, Zenon DEF RunningTotal
<1> DEFINE R == RunningTotal(f)
<1>4. /\ DOMAIN R = 0..n
      /\ \A a \in 0..n : R[a] = f[a] + (IF a = 0 THEN 0 ELSE R[a - 1])
  <2> HIDE DEF R
  <2>1. R = [a \in DOMAIN f |-> f[a] + (IF a = 0 THEN 0 ELSE R[a - 1])]
    BY <1>3 DEF R
  <2> QED BY <2>1
<1>5. R = [a \in 0..n |-> R[a]]
  <2>1. R = [a \in DOMAIN R |-> R[a]]
    BY <1>3
  <2> QED BY <1>4, <2>1
<1> HIDE DEF R
<1> DEFINE S == {a \in 0..n : R[a] \in Nat}
<1>6. \A a \in 0..n : a \in S
  <2>1. 0 \in S
    BY <1>4
  <2>2. \A a \in 0..n : a > 0 /\ a - 1 \in S => a \in S
    BY <1>4
  <2> HIDE DEF S
  <2> QED BY <2>1, <2>2, UpTo
<1>7. R \in [0..n -> Nat]
  BY <1>5, <1>6
<1> QED BY <1>4, <1>6, <1>7 DEF SumTo, R

\* The same as one formula.
Sums(f, n) ==
  /\ \A a \in 0..n : SumTo(f, a) \in Nat
  /\ SumTo(f, 0) = f[0]
  /\ \A a \in 0..n : a > 0 => SumTo(f, a) = f[a] + SumTo(f, a - 1)

LEMMA SumIsNat ==
  ASSUME NEW n \in Nat, NEW f \in [0..n -> Nat]
  PROVE  SumTo(f, n) \in Nat
<1>1. \A a \in 0..n : SumTo(f, a) \in Nat
  BY TotalsEquation
<1> QED BY <1>1

LEMMA SumGrows ==
  ASSUME NEW n \in Nat, NEW f \in [0..n -> Nat], NEW a \in 0..n, NEW b \in 0..n, a <= b
  PROVE  SumTo(f, a) <= SumTo(f, b)
<1> DEFINE S == {m \in 0..n : m >= a => SumTo(f, a) <= SumTo(f, m)}
<1>0. Sums(f, n)
  BY TotalsEquation DEF Sums
<1>1. 0 \in S
  BY <1>0 DEF Sums
<1>2. \A m \in 0..n : m > 0 /\ m - 1 \in S => m \in S
  <2> SUFFICES ASSUME NEW m \in 0..n, m > 0, m - 1 \in S PROVE m \in S
    OBVIOUS
  <2>1. /\ SumTo(f, m) = f[m] + SumTo(f, m - 1)
        /\ SumTo(f, m) \in Nat /\ SumTo(f, m - 1) \in Nat /\ SumTo(f, a) \in Nat /\ f[m] \in Nat
    BY <1>0 DEF Sums
  <2>2. CASE m = a
    BY <2>1, <2>2
  <2>3. CASE m # a
    BY <2>1, <2>3
  <2> QED BY <2>2, <2>3
<1> HIDE DEF S
<1>3. b \in S
  BY <1>1, <1>2, UpTo
<1> QED BY <1>3 DEF S

\* k more happen now.
More(f, k) == [f EXCEPT ![0] = @ + k]

LEMMA SumOfMore ==
  ASSUME NEW n \in Nat, NEW f \in [0..n -> Nat], NEW k \in Nat
  PROVE  /\ More(f, k) \in [0..n -> Nat]
         /\ \A a \in 0..n : SumTo(More(f, k), a) = SumTo(f, a) + k
<1> DEFINE g == More(f, k)
<1>1. g \in [0..n -> Nat] /\ g[0] = f[0] + k /\ \A a \in 1..n : g[a] = f[a]
  BY DEF More
<1> HIDE DEF g
<1>2. Sums(f, n) /\ Sums(g, n)
  BY <1>1, TotalsEquation DEF Sums
<1> DEFINE S == {m \in 0..n : SumTo(g, m) = SumTo(f, m) + k}
<1>3. 0 \in S
  BY <1>1, <1>2 DEF Sums
<1>4. \A m \in 0..n : m > 0 /\ m - 1 \in S => m \in S
  BY <1>1, <1>2 DEF Sums
<1> HIDE DEF S
<1>5. \A a \in 0..n : a \in S
  BY <1>3, <1>4, UpTo
<1> QED BY <1>1, <1>5 DEF S, g

LEMMA SumLater ==
  ASSUME NEW n \in Nat, NEW f \in [0..n -> Nat]
  PROVE  /\ ATickLater(f) \in [0..n -> Nat]
         /\ SumTo(ATickLater(f), 0) = 0
         /\ \A a \in 0..n : a > 0 => SumTo(ATickLater(f), a) = SumTo(f, a - 1)
<1> DEFINE g == ATickLater(f)
<1>1. g \in [0..n -> Nat] /\ g[0] = 0 /\ \A a \in 1..n : g[a] = f[a - 1]
  BY DEF ATickLater
<1> HIDE DEF g
<1>2. Sums(f, n) /\ Sums(g, n)
  BY <1>1, TotalsEquation DEF Sums
<1> DEFINE S == {m \in 0..n : m > 0 => SumTo(g, m) = SumTo(f, m - 1)}
<1>3. 0 \in S
  OBVIOUS
<1>4. ASSUME NEW m \in 0..n, m > 0, m - 1 \in S PROVE m \in S
  <2>1. SumTo(g, m) = f[m - 1] + SumTo(g, m - 1)
    BY <1>1, <1>2, <1>4 DEF Sums
  <2>2. CASE m = 1
    BY <1>1, <1>2, <1>4, <2>1, <2>2 DEF Sums
  <2>3. CASE m > 1
    <3>1. SumTo(f, m - 1) = f[m - 1] + SumTo(f, (m - 1) - 1)
      BY <1>2, <1>4, <2>3 DEF Sums
    <3> QED BY <1>4, <2>1, <2>3, <3>1
  <2> QED BY <1>4, <2>2, <2>3
<1>5. \A m \in 0..n : m > 0 /\ m - 1 \in S => m \in S
  BY <1>4
<1> HIDE DEF S
<1>6. \A a \in 0..n : a \in S
  BY <1>3, <1>5, UpTo
<1> QED BY <1>1, <1>2, <1>6 DEF S, Sums, g

LEMMA SumOfNothing ==
  ASSUME NEW n \in Nat, NEW f \in [0..n -> Nat], \A a \in 0..n : f[a] = 0
  PROVE  \A a \in 0..n : SumTo(f, a) = 0
<1> DEFINE S == {m \in 0..n : SumTo(f, m) = 0}
<1>0. Sums(f, n)
  BY TotalsEquation DEF Sums
<1>1. 0 \in S
  BY <1>0 DEF Sums
<1>2. \A m \in 0..n : m > 0 /\ m - 1 \in S => m \in S
  BY <1>0 DEF Sums
<1> HIDE DEF S
<1>3. \A a \in 0..n : a \in S
  BY <1>1, <1>2, UpTo
<1> QED BY <1>3 DEF S

-----------------------------------------------------------------------------
(***************************************************************************)
(* A fixed window of n + 1 ticks that began age ticks ago, with what it    *)
(* has counted, against the record f of what it let through in the last    *)
(* n + 1 ticks.  While it is open the record since its beginning is what   *)
(* it counted; what is older came from one window before it; and once it   *)
(* is over nothing is let through until it begins again.                   *)
(***************************************************************************)
Edge(age, n) == IF age <= n THEN age ELSE n

Fits(f, n, age, count, max) ==
  /\ SumTo(f, Edge(age, n)) <= count
  /\ age <= n => SumTo(f, age) = count
  /\ SumTo(f, n) <= SumTo(f, Edge(age, n)) + max
  /\ \A a \in 0..n : a + n < age => f[a] = 0

\* What such a window lets through in any stretch of its length.
LEMMA FitsBounds ==
  ASSUME NEW n \in Nat, NEW f \in [0..n -> Nat], NEW age \in Nat, NEW count \in Nat,
         NEW max \in Nat, Fits(f, n, age, count, max), count <= max
  PROVE  /\ SumTo(f, n) <= 2 * max
         /\ age <= n => SumTo(f, n) >= count
<1>1. Edge(age, n) \in 0..n
  BY DEF Edge
<1>2. SumTo(f, Edge(age, n)) \in Nat /\ SumTo(f, n) \in Nat
  BY <1>1, TotalsEquation
<1>3. ASSUME age <= n PROVE SumTo(f, n) >= count
  <2>1. SumTo(f, age) <= SumTo(f, n)
    BY <1>3, SumGrows
  <2> QED BY <1>2, <1>3, <2>1 DEF Fits
<1>4. SumTo(f, n) <= 2 * max
  BY <1>2 DEF Fits
<1> QED BY <1>3, <1>4

\* Time passes; the age may stop once the window is over.
LEMMA FitsLater ==
  ASSUME NEW n \in Nat, NEW f \in [0..n -> Nat], NEW age \in Nat, NEW count \in Nat,
         NEW max \in Nat, Fits(f, n, age, count, max), NEW later \in Nat,
         later = age + 1 \/ (later = age /\ age > n)
  PROVE  /\ ATickLater(f) \in [0..n -> Nat]
         /\ Fits(ATickLater(f), n, later, count, max)
<1> DEFINE g == ATickLater(f)
<1>1. /\ g \in [0..n -> Nat] /\ SumTo(g, 0) = 0
      /\ \A a \in 0..n : a > 0 => SumTo(g, a) = SumTo(f, a - 1)
  BY SumLater
<1>2. g[0] = 0 /\ \A a \in 1..n : g[a] = f[a - 1]
  BY DEF ATickLater
<1> HIDE DEF g
<1>3. Sums(f, n) /\ Sums(g, n)
  BY <1>1, TotalsEquation DEF Sums
<1>4. SumTo(g, n) <= SumTo(f, n)
  <2>1. CASE n = 0
    BY <1>1, <1>3, <2>1 DEF Sums
  <2>2. CASE n > 0
    BY <1>1, <1>3, <2>2, SumGrows DEF Sums
  <2> QED BY <2>1, <2>2
<1>5. \A a \in 0..n : a + n < later => g[a] = 0
  BY <1>2 DEF Fits
<1>6. CASE age < n
  <2>1. later \in 1..n /\ later = age + 1 /\ Edge(age, n) = age /\ Edge(later, n) = later
    BY <1>6 DEF Edge
  <2>2. SumTo(g, later) = SumTo(f, age) /\ SumTo(g, n) = SumTo(f, n - 1)
    BY <1>1, <1>6, <2>1
  <2>3. SumTo(f, n - 1) <= SumTo(f, n)
    BY <1>6, SumGrows
  <2>4. SumTo(f, age) \in Nat /\ SumTo(f, n) \in Nat /\ SumTo(f, n - 1) \in Nat
    BY <1>3, <1>6 DEF Sums
  <2>5. SumTo(f, age) = count /\ SumTo(f, n) <= SumTo(f, age) + max
    BY <1>6, <2>1 DEF Fits
  <2>6. SumTo(g, later) = count /\ SumTo(g, n) <= count + max
    BY <2>2, <2>3, <2>4, <2>5
  <2>7. Fits(g, n, later, count, max)
    BY <1>5, <2>1, <2>6 DEF Fits
  <2> QED BY <1>1, <2>7 DEF g
<1>7. CASE age >= n
  <2>1. later > n /\ Edge(age, n) = n /\ Edge(later, n) = n
    BY <1>7 DEF Edge
  <2>2. SumTo(f, n) \in Nat /\ SumTo(g, n) \in Nat
    BY <1>3 DEF Sums
  <2>3. SumTo(f, n) <= count
    BY <2>1 DEF Fits
  <2>4. SumTo(g, n) <= count
    BY <1>4, <2>2, <2>3
  <2>5. Fits(g, n, later, count, max)
    BY <1>5, <2>1, <2>2, <2>4 DEF Fits
  <2> QED BY <1>1, <2>5 DEF g
<1> QED BY <1>6, <1>7

\* An open window counts k more.
LEMMA FitsMore ==
  ASSUME NEW n \in Nat, NEW f \in [0..n -> Nat], NEW age \in 0..n, NEW count \in Nat,
         NEW max \in Nat, Fits(f, n, age, count, max), NEW k \in Nat
  PROVE  /\ More(f, k) \in [0..n -> Nat]
         /\ Fits(More(f, k), n, age, count + k, max)
<1>1. /\ More(f, k) \in [0..n -> Nat]
      /\ SumTo(More(f, k), age) = SumTo(f, age) + k
      /\ SumTo(More(f, k), n) = SumTo(f, n) + k
  <2>1. /\ More(f, k) \in [0..n -> Nat]
        /\ \A a \in 0..n : SumTo(More(f, k), a) = SumTo(f, a) + k
    BY SumOfMore
  <2>2. age \in 0..n /\ n \in 0..n
    OBVIOUS
  <2> QED BY <2>1, <2>2
<1>2. SumTo(f, age) \in Nat /\ SumTo(f, n) \in Nat
  BY TotalsEquation
<1>3. Edge(age, n) = age
  BY DEF Edge
<1>4. SumTo(f, age) = count /\ SumTo(f, n) <= SumTo(f, age) + max
  BY <1>3 DEF Fits
<1>5. \A a \in 0..n : ~(a + n < age)
  OBVIOUS
<1> QED BY <1>1, <1>2, <1>3, <1>4, <1>5 DEF Fits

\* A window that is over begins again and counts k.
LEMMA FitsAgain ==
  ASSUME NEW n \in Nat, NEW f \in [0..n -> Nat], NEW age \in Nat, NEW count \in Nat,
         NEW max \in Nat, Fits(f, n, age, count, max), age > n, count <= max, NEW k \in Nat
  PROVE  /\ More(f, k) \in [0..n -> Nat]
         /\ Fits(More(f, k), n, 0, k, max)
<1>1. /\ More(f, k) \in [0..n -> Nat]
      /\ SumTo(More(f, k), 0) = SumTo(f, 0) + k
      /\ SumTo(More(f, k), n) = SumTo(f, n) + k
  <2>1. /\ More(f, k) \in [0..n -> Nat]
        /\ \A a \in 0..n : SumTo(More(f, k), a) = SumTo(f, a) + k
    BY SumOfMore
  <2>2. 0 \in 0..n /\ n \in 0..n
    OBVIOUS
  <2> QED BY <2>1, <2>2
<1>2. SumTo(f, 0) = 0 /\ SumTo(f, n) \in Nat
  BY TotalsEquation DEF Fits
<1>3. Edge(age, n) = n /\ Edge(0, n) = 0
  BY DEF Edge
<1>4. SumTo(f, n) <= max
  BY <1>2, <1>3 DEF Fits
<1>5. \A a \in 0..n : ~(a + n < 0)
  OBVIOUS
<1> QED BY <1>1, <1>2, <1>3, <1>4, <1>5 DEF Fits

\* A window that has just been made, after a stretch in which nothing was let
\* through, counts k.
LEMMA FitsFirst ==
  ASSUME NEW n \in Nat, NEW f \in [0..n -> Nat], \A a \in 0..n : f[a] = 0,
         NEW max \in Nat, NEW k \in Nat
  PROVE  /\ More(f, k) \in [0..n -> Nat]
         /\ Fits(More(f, k), n, 0, k, max)
<1>1. Fits(f, n, 0, 0, max)
  <2>1. SumTo(f, 0) = 0 /\ SumTo(f, n) = 0
    BY SumOfNothing
  <2> QED BY <2>1 DEF Fits, Edge
<1>2. 0 + k = k
  OBVIOUS
<1> QED BY <1>1, <1>2, FitsMore

-----------------------------------------------------------------------------
(***************************************************************************)
(* Pacing.                                                                 *)
(***************************************************************************)
Frames == [a \in BudgetAges |-> sent[a].frames]
Bytes == [a \in BudgetAges |-> sent[a].bytes]

LimiterFits ==
  Fits(handled, RateWindow - 1, limiter.age, limiter.messages, MaxMessages)

BudgetFits ==
  /\ Fits(Frames, BudgetWindow - 1, budget.age, budget.frames, MaxFrames)
  /\ Fits(Bytes, BudgetWindow - 1, budget.age, budget.bytes, MaxBytes)

\* A read that waits has had no message since it began.
WaitIsSilence ==
  pace = "reading" /\ ready = 0 => arrived >= waited \/ arrived = IdleTimeout

PacingInv == PacingTypeOK /\ LimiterFits /\ BudgetFits /\ WaitIsSilence

\* What the types say of the two windows.
LEMMA PacingFacts ==
  ASSUME PacingTypeOK
  PROVE  /\ RateWindow - 1 \in Nat /\ BudgetWindow - 1 \in Nat
         /\ MaxMessages \in Nat \ {0} /\ MaxFrames \in Nat \ {0} /\ MaxBytes \in Nat \ {0}
         /\ limiter.age \in 0..RateWindow /\ limiter.messages \in 0..MaxMessages
         /\ budget.age \in 0..BudgetWindow /\ budget.frames \in 0..MaxFrames
         /\ budget.bytes \in 0..MaxBytes
         /\ handled \in [0..(RateWindow - 1) -> Nat]
         /\ Frames \in [0..(BudgetWindow - 1) -> Nat]
         /\ Bytes \in [0..(BudgetWindow - 1) -> Nat]
<1>1. /\ RateWindow - 1 \in Nat /\ BudgetWindow - 1 \in Nat
      /\ MaxMessages \in Nat \ {0} /\ MaxFrames \in Nat \ {0} /\ MaxBytes \in Nat \ {0}
  BY PacingAssumption
<1>2. /\ limiter.age \in 0..RateWindow /\ limiter.messages \in 0..MaxMessages
      /\ budget.age \in 0..BudgetWindow /\ budget.frames \in 0..MaxFrames
      /\ budget.bytes \in 0..MaxBytes
  BY DEF PacingTypeOK
<1>3. handled \in [0..(RateWindow - 1) -> Nat]
  BY DEF PacingTypeOK, RateAges
<1>4. \A a \in BudgetAges : sent[a].frames \in Nat /\ sent[a].bytes \in Nat
  BY DEF PacingTypeOK
<1>5. Frames \in [0..(BudgetWindow - 1) -> Nat] /\ Bytes \in [0..(BudgetWindow - 1) -> Nat]
  BY <1>4 DEF Frames, Bytes, BudgetAges
<1> QED BY <1>1, <1>2, <1>3, <1>5

\* allow() finds the budget as it is or, when the window is over, begins it
\* again; both fit what was sent.
LEMMA CurrentBudgetFits ==
  ASSUME PacingInv
  PROVE  /\ CurrentBudget \in [age : 0..(BudgetWindow - 1), frames : 0..MaxFrames,
                               bytes : 0..MaxBytes]
         /\ \A k \in Nat :
              /\ Fits(More(Frames, k), BudgetWindow - 1, CurrentBudget.age,
                      CurrentBudget.frames + k, MaxFrames)
              /\ Fits(More(Bytes, k), BudgetWindow - 1, CurrentBudget.age,
                      CurrentBudget.bytes + k, MaxBytes)
<1>0. PICK n \in Nat : n = BudgetWindow - 1
  BY PacingFacts DEF PacingInv
<1>1. /\ BudgetWindow = n + 1 /\ MaxFrames \in Nat \ {0} /\ MaxBytes \in Nat \ {0}
      /\ budget.age \in 0..(n + 1) /\ budget.frames \in 0..MaxFrames
      /\ budget.bytes \in 0..MaxBytes
      /\ Frames \in [0..n -> Nat] /\ Bytes \in [0..n -> Nat]
      /\ budget \in [age : 0..(n + 1), frames : 0..MaxFrames, bytes : 0..MaxBytes]
  <2>1. BudgetWindow = n + 1
    BY <1>0, PacingAssumption
  <2> QED BY <1>0, <2>1, PacingFacts DEF PacingInv, PacingTypeOK
<1>2. /\ Fits(Frames, n, budget.age, budget.frames, MaxFrames)
      /\ Fits(Bytes, n, budget.age, budget.bytes, MaxBytes)
  BY <1>0 DEF PacingInv, BudgetFits
<1>3. /\ budget.age \in Nat /\ budget.frames \in Nat /\ budget.bytes \in Nat
      /\ MaxFrames \in Nat /\ MaxBytes \in Nat
      /\ budget.frames <= MaxFrames /\ budget.bytes <= MaxBytes
  BY <1>1
<1>4. Frames \in [0..n -> Nat] /\ Bytes \in [0..n -> Nat]
  BY <1>1
<1>5. SUFFICES
        /\ CurrentBudget \in [age : 0..n, frames : 0..MaxFrames, bytes : 0..MaxBytes]
        /\ \A k \in Nat :
             /\ Fits(More(Frames, k), n, CurrentBudget.age, CurrentBudget.frames + k, MaxFrames)
             /\ Fits(More(Bytes, k), n, CurrentBudget.age, CurrentBudget.bytes + k, MaxBytes)
  BY <1>0
<1>6. CASE budget.age > n
  <2>1. CurrentBudget = [age |-> 0, frames |-> 0, bytes |-> 0]
    BY <1>1, <1>6 DEF CurrentBudget, NewBudget
  <2>2. CurrentBudget \in [age : 0..n, frames : 0..MaxFrames, bytes : 0..MaxBytes]
    BY <1>1, <2>1
  <2>3. ASSUME NEW k \in Nat
        PROVE  /\ Fits(More(Frames, k), n, 0, k, MaxFrames)
               /\ Fits(More(Bytes, k), n, 0, k, MaxBytes)
    <3>1. Fits(More(Frames, k), n, 0, k, MaxFrames)
      BY <1>2, <1>3, <1>4, <1>6, FitsAgain
    <3>2. Fits(More(Bytes, k), n, 0, k, MaxBytes)
      BY <1>2, <1>3, <1>4, <1>6, FitsAgain
    <3> QED BY <3>1, <3>2
  <2>4. /\ CurrentBudget.age = 0
        /\ \A k \in Nat : CurrentBudget.frames + k = k /\ CurrentBudget.bytes + k = k
    BY <2>1
  <2> QED BY <2>2, <2>3, <2>4
<1>7. CASE budget.age <= n
  <2>1. CurrentBudget = budget /\ budget.age \in 0..n
    BY <1>1, <1>7 DEF CurrentBudget
  <2>2. CurrentBudget \in [age : 0..n, frames : 0..MaxFrames, bytes : 0..MaxBytes]
    BY <1>1, <2>1
  <2>3. ASSUME NEW k \in Nat
        PROVE  /\ Fits(More(Frames, k), n, budget.age, budget.frames + k, MaxFrames)
               /\ Fits(More(Bytes, k), n, budget.age, budget.bytes + k, MaxBytes)
    <3>1. Fits(More(Frames, k), n, budget.age, budget.frames + k, MaxFrames)
      BY <1>2, <1>3, <1>4, <2>1, FitsMore
    <3>2. Fits(More(Bytes, k), n, budget.age, budget.bytes + k, MaxBytes)
      BY <1>2, <1>3, <1>4, <2>1, FitsMore
    <3> QED BY <3>1, <3>2
  <2> QED BY <2>1, <2>2, <2>3
<1> QED BY <1>1, <1>6, <1>7

\* Steps that leave both windows, and what they counted, alone.
LEMMA WindowsAlone ==
  ASSUME LimiterFits, BudgetFits, UNCHANGED <<limiter, budget, handled, sent>>
  PROVE  LimiterFits' /\ BudgetFits'
BY DEF LimiterFits, BudgetFits, Frames, Bytes

\* The limiter likewise.
LEMMA CurrentLimiterFits ==
  ASSUME PacingInv
  PROVE  /\ CurrentLimiter \in [age : 0..(RateWindow - 1), messages : 0..MaxMessages]
         /\ Fits(More(handled, 1), RateWindow - 1, CurrentLimiter.age,
                 CurrentLimiter.messages + 1, MaxMessages)
<1>0. PICK n \in Nat : n = RateWindow - 1
  BY PacingFacts DEF PacingInv
<1>1. /\ RateWindow = n + 1 /\ limiter.age \in 0..(n + 1) /\ limiter.messages \in 0..MaxMessages
      /\ limiter \in [age : 0..(n + 1), messages : 0..MaxMessages]
  <2>1. RateWindow = n + 1
    BY <1>0, PacingAssumption
  <2> QED BY <2>1, PacingFacts DEF PacingInv, PacingTypeOK
<1>2. /\ limiter.age \in Nat /\ limiter.messages \in Nat /\ limiter.messages <= MaxMessages
      /\ MaxMessages \in Nat
  BY <1>1, PacingFacts DEF PacingInv
<1>3. handled \in [0..n -> Nat] /\ Fits(handled, n, limiter.age, limiter.messages, MaxMessages)
  BY <1>0, PacingFacts DEF PacingInv, LimiterFits
<1>4. SUFFICES
        /\ CurrentLimiter \in [age : 0..n, messages : 0..MaxMessages]
        /\ Fits(More(handled, 1), n, CurrentLimiter.age, CurrentLimiter.messages + 1, MaxMessages)
  BY <1>0
<1>5. CASE limiter.age > n
  <2>1. CurrentLimiter = [age |-> 0, messages |-> 0]
    BY <1>1, <1>5 DEF CurrentLimiter, NewLimiter
  <2>2. Fits(More(handled, 1), n, 0, 1, MaxMessages)
    BY <1>2, <1>3, <1>5, FitsAgain
  <2>3. CurrentLimiter.age = 0 /\ CurrentLimiter.messages + 1 = 1
    BY <2>1
  <2> QED BY <1>2, <2>1, <2>2, <2>3
<1>6. CASE limiter.age <= n
  <2>1. CurrentLimiter = limiter /\ limiter.age \in 0..n
    BY <1>1, <1>6 DEF CurrentLimiter
  <2>2. Fits(More(handled, 1), n, limiter.age, limiter.messages + 1, MaxMessages)
    BY <1>2, <1>3, <2>1, FitsMore
  <2> QED BY <1>1, <2>1, <2>2
<1> QED BY <1>2, <1>5, <1>6

LEMMA PacingStart ==
  ASSUME PacingInit
  PROVE  PacingInv
<1>1. /\ RateWindow - 1 \in Nat /\ BudgetWindow - 1 \in Nat /\ ChallengeBytes \in 0..MaxBytes
      /\ MaxFrames \in Nat \ {0} /\ MaxBytes \in Nat /\ MaxMessages \in Nat
      /\ RegistrationTimeout \in Nat /\ IdleTimeout \in Nat /\ MaxHandling \in Nat
      /\ MaxReady \in Nat /\ RateWindow \in Nat /\ BudgetWindow \in Nat
  BY PacingAssumption
<1>2. PacingTypeOK
  <2>1. handled \in [RateAges -> Nat] /\ sent \in [BudgetAges -> [frames : Nat, bytes : Nat]]
    BY <1>1 DEF PacingInit, NothingSent
  <2>2. limiter \in [age : 0..RateWindow, messages : 0..MaxMessages]
        /\ budget \in [age : 0..BudgetWindow, frames : 0..MaxFrames, bytes : 0..MaxBytes]
    BY <1>1 DEF PacingInit, NewLimiter
  <2>3. /\ pace = "reading" /\ registered = FALSE /\ told = FALSE /\ ready \in 0..MaxReady
        /\ opened \in 0..(RegistrationTimeout + 1) /\ waited \in 0..LongestWait
        /\ arrived \in 0..IdleTimeout
    BY <1>1 DEF PacingInit, LongestWait
  <2> QED BY <2>1, <2>2, <2>3 DEF PacingTypeOK
<1>3. LimiterFits
  <2>1. PICK n \in Nat : n = RateWindow - 1
    BY <1>1
  <2>2. handled \in [0..n -> Nat] /\ \A a \in 0..n : handled[a] = 0
    BY <2>1 DEF PacingInit, RateAges
  <2>3. SumTo(handled, 0) = 0 /\ SumTo(handled, n) = 0
    BY <2>2, SumOfNothing
  <2>4. Fits(handled, n, 0, 0, MaxMessages)
    BY <1>1, <2>3 DEF Fits, Edge
  <2> QED BY <2>1, <2>4 DEF PacingInit, NewLimiter, LimiterFits
<1>4. BudgetFits
  <2>1. PICK n \in Nat : n = BudgetWindow - 1
    BY <1>1
  <2> DEFINE f == [a \in 0..n |-> 0]
  <2>2. f \in [0..n -> Nat] /\ \A a \in 0..n : f[a] = 0
    OBVIOUS
  <2>3. ASSUME NEW k \in Nat PROVE More(f, k) = [a \in 0..n |-> IF a = 0 THEN k ELSE 0]
    BY DEF More
  <2>4. Frames = More(f, 1) /\ Bytes = More(f, ChallengeBytes)
    <3>1. Frames = [a \in 0..n |-> IF a = 0 THEN 1 ELSE 0]
          /\ Bytes = [a \in 0..n |-> IF a = 0 THEN ChallengeBytes ELSE 0]
      BY <2>1 DEF Frames, Bytes, PacingInit, BudgetAges, NothingSent
    <3> QED BY <1>1, <2>3, <3>1
  <2> HIDE DEF f
  <2>5. Fits(More(f, 1), n, 0, 1, MaxFrames)
    BY <1>1, <2>2, FitsFirst
  <2>6. Fits(More(f, ChallengeBytes), n, 0, ChallengeBytes, MaxBytes)
    BY <1>1, <2>2, FitsFirst
  <2> QED BY <2>1, <2>4, <2>5, <2>6 DEF PacingInit, BudgetFits
<1>5. WaitIsSilence
  BY <1>1 DEF PacingInit, WaitIsSilence
<1> QED BY <1>2, <1>3, <1>4, <1>5 DEF PacingInv

LEMMA PacingEnds ==
  ASSUME PacingInv, End
  PROVE  PacingInv'
<1>1. PacingTypeOK' /\ WaitIsSilence'
  BY DEF PacingInv, PacingTypeOK, End, timers, WaitIsSilence
<1>2. LimiterFits' /\ BudgetFits'
  BY WindowsAlone DEF PacingInv, End
<1> QED BY <1>1, <1>2 DEF PacingInv

LEMMA PacingReads ==
  ASSUME PacingInv, Read
  PROVE  PacingInv'
<1>1. BudgetFits'
  BY DEF PacingInv, BudgetFits, Frames, Bytes, Read
<1>2. /\ CurrentLimiter \in [age : 0..(RateWindow - 1), messages : 0..MaxMessages]
      /\ Fits(More(handled, 1), RateWindow - 1, CurrentLimiter.age,
              CurrentLimiter.messages + 1, MaxMessages)
  BY CurrentLimiterFits
<1>3. handled' = More(handled, 1)
      /\ limiter' = [CurrentLimiter EXCEPT !.messages = CurrentLimiter.messages + 1]
  BY DEF Read, More
<1>4. limiter'.age = CurrentLimiter.age /\ limiter'.messages = CurrentLimiter.messages + 1
  BY <1>2, <1>3
<1>5. LimiterFits'
  BY <1>2, <1>3, <1>4 DEF LimiterFits
<1>6. PacingTypeOK'
  <2>1. RateWindow - 1 \in Nat /\ RateWindow \in Nat /\ MaxMessages \in Nat
    BY PacingAssumption
  <2>2. handled' \in [RateAges -> Nat]
    BY <1>3, <2>1, SumOfMore DEF PacingInv, PacingTypeOK, RateAges
  <2>3. limiter' \in [age : 0..RateWindow, messages : 0..MaxMessages]
    BY <1>2, <1>3, <2>1 DEF Read, MayHandle
  <2>4. ready' \in 0..MaxReady /\ waited' \in 0..LongestWait /\ opened' = opened
    BY PacingAssumption DEF PacingInv, PacingTypeOK, Read, LongestWait
  <2> QED BY <2>2, <2>3, <2>4 DEF PacingInv, PacingTypeOK, Read
<1>7. WaitIsSilence'
  BY DEF Read, WaitIsSilence
<1> QED BY <1>1, <1>5, <1>6, <1>7 DEF PacingInv

\* allow() of the budget lets n bytes through.
LEMMA PacingSends ==
  ASSUME PacingInv, NEW n \in Sizes, Sends(n)
  PROVE  PacingInv'
<1>0. n \in Nat /\ BudgetWindow - 1 \in Nat /\ BudgetWindow \in Nat
      /\ MaxFrames \in Nat /\ MaxBytes \in Nat
  BY PacingAssumption
<1>1. /\ CurrentBudget \in [age : 0..(BudgetWindow - 1), frames : 0..MaxFrames, bytes : 0..MaxBytes]
      /\ Fits(More(Frames, 1), BudgetWindow - 1, CurrentBudget.age,
              CurrentBudget.frames + 1, MaxFrames)
      /\ Fits(More(Bytes, n), BudgetWindow - 1, CurrentBudget.age,
              CurrentBudget.bytes + n, MaxBytes)
  BY <1>0, CurrentBudgetFits
<1>2. /\ budget'.age = CurrentBudget.age /\ budget'.frames = CurrentBudget.frames + 1
      /\ budget'.bytes = CurrentBudget.bytes + n
      /\ budget' \in [age : 0..BudgetWindow, frames : 0..MaxFrames, bytes : 0..MaxBytes]
  <2>1. PICK b \in [age : 0..(BudgetWindow - 1), frames : 0..MaxFrames, bytes : 0..MaxBytes] :
          b = CurrentBudget
    BY <1>1
  <2>2. budget' = [b EXCEPT !.frames = b.frames + 1, !.bytes = b.bytes + n]
    BY <2>1 DEF Sends
  <2>3. b.frames < MaxFrames /\ b.bytes + n <= MaxBytes
    BY <2>1 DEF Sends, MaySend
  <2>4. budget' = [age |-> b.age, frames |-> b.frames + 1, bytes |-> b.bytes + n]
    BY <2>2
  <2> QED BY <1>0, <2>1, <2>3, <2>4
<1>3. sent' \in [BudgetAges -> [frames : Nat, bytes : Nat]]
      /\ Frames' = More(Frames, 1) /\ Bytes' = More(Bytes, n)
  <2>1. 0 \in BudgetAges /\ sent \in [BudgetAges -> [frames : Nat, bytes : Nat]]
    BY <1>0 DEF BudgetAges, PacingInv, PacingTypeOK
  <2>2. sent' = [sent EXCEPT ![0] = [frames |-> sent[0].frames + 1, bytes |-> sent[0].bytes + n]]
    BY <2>1 DEF Sends
  <2>3. sent' \in [BudgetAges -> [frames : Nat, bytes : Nat]]
    BY <1>0, <2>1, <2>2
  <2>4. \A a \in BudgetAges :
          /\ sent'[a].frames = IF a = 0 THEN sent[0].frames + 1 ELSE sent[a].frames
          /\ sent'[a].bytes = IF a = 0 THEN sent[0].bytes + n ELSE sent[a].bytes
    BY <2>1, <2>2
  <2>5. Frames' = More(Frames, 1)
    BY <2>1, <2>4 DEF Frames, More
  <2>6. Bytes' = More(Bytes, n)
    BY <2>1, <2>4 DEF Bytes, More
  <2> QED BY <2>3, <2>5, <2>6
<1>4. LimiterFits' /\ BudgetFits'
  BY <1>1, <1>2, <1>3 DEF BudgetFits, LimiterFits, PacingInv, Sends
<1>5. PacingTypeOK'
  BY <1>2, <1>3 DEF PacingInv, PacingTypeOK, Sends, timers
<1>6. WaitIsSilence'
  BY DEF PacingInv, WaitIsSilence, Sends, timers
<1> QED BY <1>4, <1>5, <1>6 DEF PacingInv

\* allow() refuses, but may have begun the window again.
LEMMA PacingRefuses ==
  ASSUME PacingInv, NEW n \in Sizes, ReplyDropped(n) \/ SendRefused(n)
  PROVE  PacingInv'
<1>0. BudgetWindow - 1 \in Nat /\ BudgetWindow \in Nat
  BY PacingAssumption
<1>1. PICK b \in [age : 0..(BudgetWindow - 1), frames : 0..MaxFrames, bytes : 0..MaxBytes] :
        /\ b = CurrentBudget
        /\ Fits(More(Frames, 0), BudgetWindow - 1, b.age, b.frames + 0, MaxFrames)
        /\ Fits(More(Bytes, 0), BudgetWindow - 1, b.age, b.bytes + 0, MaxBytes)
  BY CurrentBudgetFits
<1>2. More(Frames, 0) = Frames /\ More(Bytes, 0) = Bytes
  <2>1. Frames \in [0..(BudgetWindow - 1) -> Nat] /\ Bytes \in [0..(BudgetWindow - 1) -> Nat]
    BY PacingFacts DEF PacingInv
  <2>2. Frames[0] + 0 = Frames[0] /\ Bytes[0] + 0 = Bytes[0]
    BY <1>0, <2>1
  <2> QED BY <2>1, <2>2 DEF More
<1>3. b.frames + 0 = b.frames /\ b.bytes + 0 = b.bytes
  BY PacingAssumption
<1>4. budget' = b /\ UNCHANGED <<sent, limiter, handled>>
  BY <1>1 DEF ReplyDropped, SendRefused
<1>5. LimiterFits' /\ BudgetFits'
  BY <1>1, <1>2, <1>3, <1>4 DEF PacingInv, LimiterFits, BudgetFits, Frames, Bytes
<1>6. budget' \in [age : 0..BudgetWindow, frames : 0..MaxFrames, bytes : 0..MaxBytes]
  BY <1>0, <1>1, <1>4
<1>7. PacingTypeOK' /\ WaitIsSilence'
  BY <1>4, <1>6 DEF PacingInv, PacingTypeOK, WaitIsSilence, ReplyDropped, SendRefused, timers
<1> QED BY <1>5, <1>7 DEF PacingInv

LEMMA PacingTicks ==
  ASSUME PacingInv, Tick
  PROVE  PacingInv'
<1>0. /\ {RegistrationTimeout, IdleTimeout, RateWindow, MaxMessages, BudgetWindow, MaxFrames,
          MaxBytes} \subseteq Nat \ {0}
      /\ MaxHandling \in Nat /\ LongestWait \in Nat
  BY PacingAssumption DEF LongestWait
<1>1. LimiterFits' /\ handled' \in [RateAges -> Nat]
      /\ limiter' \in [age : 0..RateWindow, messages : 0..MaxMessages]
  <2>1. PICK n \in Nat : n = RateWindow - 1 /\ RateWindow = n + 1
    BY <1>0
  <2>2. /\ limiter \in [age : 0..(n + 1), messages : 0..MaxMessages]
        /\ handled \in [0..n -> Nat] /\ limiter.age \in Nat /\ limiter.messages \in Nat
        /\ Fits(handled, n, limiter.age, limiter.messages, MaxMessages)
    <3>1. /\ limiter \in [age : 0..(n + 1), messages : 0..MaxMessages]
          /\ handled \in [0..n -> Nat]
      BY <2>1 DEF PacingInv, PacingTypeOK, RateAges
    <3>2. limiter.age \in Nat /\ limiter.messages \in Nat
      BY <1>0, <3>1
    <3>3. Fits(handled, n, limiter.age, limiter.messages, MaxMessages)
      BY <2>1 DEF PacingInv, LimiterFits
    <3> QED BY <3>1, <3>2, <3>3
  <2>3. PICK later \in Nat : later = Capped(limiter.age, RateWindow)
    BY <1>0, <2>2 DEF Capped
  <2>4. later = limiter.age + 1 \/ (later = limiter.age /\ limiter.age > n)
    BY <2>1, <2>2, <2>3 DEF Capped
  <2>5. limiter' = [age |-> later, messages |-> limiter.messages] /\ later <= RateWindow
    BY <1>0, <2>2, <2>3 DEF Tick, Capped
  <2>6. handled' \in [0..n -> Nat] /\ Fits(handled', n, later, limiter.messages, MaxMessages)
    <3>1. handled' = ATickLater(handled) /\ MaxMessages \in Nat
      BY <1>0 DEF Tick
    <3> QED BY <2>2, <2>4, <3>1, FitsLater
  <2>7. limiter'.age = later /\ limiter'.messages = limiter.messages
    BY <2>5
  <2> QED BY <1>0, <2>1, <2>2, <2>5, <2>6, <2>7 DEF LimiterFits, RateAges
<1>2. BudgetFits' /\ sent' \in [BudgetAges -> [frames : Nat, bytes : Nat]]
      /\ budget' \in [age : 0..BudgetWindow, frames : 0..MaxFrames, bytes : 0..MaxBytes]
  <2>1. PICK n \in Nat : n = BudgetWindow - 1 /\ BudgetWindow = n + 1
    BY <1>0
  <2>2. /\ budget \in [age : 0..(n + 1), frames : 0..MaxFrames, bytes : 0..MaxBytes]
        /\ sent \in [0..n -> [frames : Nat, bytes : Nat]]
    BY <2>1 DEF PacingInv, PacingTypeOK, BudgetAges
  <2>3. /\ Frames \in [0..n -> Nat] /\ Bytes \in [0..n -> Nat]
        /\ budget.age \in Nat /\ budget.frames \in Nat /\ budget.bytes \in Nat
        /\ MaxFrames \in Nat /\ MaxBytes \in Nat
    <3>1. Frames \in [0..n -> Nat] /\ Bytes \in [0..n -> Nat]
      BY <2>1, PacingFacts DEF PacingInv
    <3>2. MaxFrames \in Nat /\ MaxBytes \in Nat
      BY <1>0
    <3>3. /\ budget.age \in 0..(n + 1) /\ budget.frames \in 0..MaxFrames
          /\ budget.bytes \in 0..MaxBytes
      BY <2>2
    <3>4. budget.age \in Nat /\ budget.frames \in Nat /\ budget.bytes \in Nat
      BY <3>2, <3>3
    <3> QED BY <3>1, <3>2, <3>4
  <2>4. /\ Fits(Frames, n, budget.age, budget.frames, MaxFrames)
        /\ Fits(Bytes, n, budget.age, budget.bytes, MaxBytes)
    BY <2>1 DEF PacingInv, BudgetFits
  <2>5. PICK later \in Nat : later = Capped(budget.age, BudgetWindow)
    BY <1>0, <2>3 DEF Capped
  <2>6. later = budget.age + 1 \/ (later = budget.age /\ budget.age > n)
    BY <2>1, <2>3, <2>5, <2>2 DEF Capped
  <2>7. /\ budget' = [age |-> later, frames |-> budget.frames, bytes |-> budget.bytes]
        /\ later <= BudgetWindow
    <3>1. budget' = [budget EXCEPT !.age = later]
      BY <2>5 DEF Tick
    <3>2. later <= BudgetWindow
      BY <1>0, <2>3, <2>5 DEF Capped
    <3> QED BY <2>2, <3>1, <3>2
  <2>8. sent' = [a \in 0..n |-> IF a = 0 THEN NothingSent ELSE sent[a - 1]]
    BY <2>1 DEF Tick, BudgetAges
  <2>9. sent' \in [0..n -> [frames : Nat, bytes : Nat]]
    BY <2>2, <2>8 DEF NothingSent
  <2>10. Frames' = ATickLater(Frames) /\ Bytes' = ATickLater(Bytes)
    <3>1. \A a \in 0..n :
            /\ sent'[a].frames = IF a = 0 THEN 0 ELSE sent[a - 1].frames
            /\ sent'[a].bytes = IF a = 0 THEN 0 ELSE sent[a - 1].bytes
      BY <2>8 DEF NothingSent
    <3>2. BudgetAges = 0..n
      BY <2>1 DEF BudgetAges
    <3> QED BY <3>1, <3>2 DEF Frames, Bytes, ATickLater
  <2>11. Fits(Frames', n, later, budget.frames, MaxFrames)
    BY <2>3, <2>4, <2>6, <2>10, FitsLater
  <2>12. Fits(Bytes', n, later, budget.bytes, MaxBytes)
    BY <2>3, <2>4, <2>6, <2>10, FitsLater
  <2>13. budget'.age = later /\ budget'.frames = budget.frames /\ budget'.bytes = budget.bytes
    BY <2>7
  <2>14. BudgetFits'
    BY <2>1, <2>11, <2>12, <2>13 DEF BudgetFits
  <2>15. budget' \in [age : 0..BudgetWindow, frames : 0..MaxFrames, bytes : 0..MaxBytes]
    BY <1>0, <2>2, <2>7
  <2> QED BY <2>1, <2>9, <2>14, <2>15 DEF BudgetAges
<1>3. /\ opened' \in 0..(RegistrationTimeout + 1) /\ waited' \in 0..LongestWait
      /\ arrived' \in 0..IdleTimeout
  BY <1>0 DEF PacingInv, PacingTypeOK, Tick, Capped
<1>4. PacingTypeOK'
  BY <1>1, <1>2, <1>3 DEF PacingInv, PacingTypeOK, Tick
<1>5. WaitIsSilence'
  <2> SUFFICES ASSUME pace = "reading", ready = 0
               PROVE  arrived' >= waited' \/ arrived' = IdleTimeout
    BY DEF Tick, WaitIsSilence
  <2>1. arrived >= waited \/ arrived = IdleTimeout
    BY DEF PacingInv, WaitIsSilence
  <2>2. arrived \in 0..IdleTimeout /\ waited \in 0..LongestWait /\ IdleTimeout \in Nat
    BY <1>0 DEF PacingInv, PacingTypeOK
  <2> QED BY <1>0, <2>1, <2>2 DEF Tick, Capped
<1> QED BY <1>1, <1>2, <1>4, <1>5 DEF PacingInv

LEMMA PacingStep ==
  ASSUME PacingInv, [PacingNext]_pacing_vars
  PROVE  PacingInv'
<1>1. CASE PeerSends
  <2>1. LimiterFits' /\ BudgetFits'
    BY <1>1, WindowsAlone DEF PacingInv, PeerSends
  <2>2. PacingTypeOK' /\ WaitIsSilence'
    BY <1>1, PacingAssumption
    DEF PacingInv, PacingTypeOK, PeerSends, timers, WaitIsSilence
  <2> QED BY <2>1, <2>2 DEF PacingInv
<1>2. ASSUME NEW r \in BOOLEAN, Handled(r) PROVE PacingInv'
  <2>1. LimiterFits' /\ BudgetFits'
    BY <1>2, WindowsAlone DEF PacingInv, Handled
  <2>2. registered' \in BOOLEAN
    BY <1>2 DEF Handled
  <2>3. waited' \in 0..LongestWait /\ waited' = 0 /\ arrived' >= waited'
    BY <1>2, PacingAssumption DEF PacingInv, PacingTypeOK, Handled, LongestWait
  <2>4. PacingTypeOK' /\ WaitIsSilence'
    BY <1>2, <2>2, <2>3 DEF PacingInv, PacingTypeOK, Handled, WaitIsSilence
  <2> QED BY <2>1, <2>4 DEF PacingInv
<1>3. CASE OverRate \/ MissesDeadline \/ IsIdle \/ Disconnected \/ HandlerBreaks \/ PeerCloses
  BY <1>3, PacingEnds
  DEF OverRate, MissesDeadline, IsIdle, Disconnected, HandlerBreaks, PeerCloses
<1>4. CASE UNCHANGED pacing_vars
  <2>1. LimiterFits' /\ BudgetFits'
    BY <1>4, WindowsAlone DEF PacingInv, pacing_vars
  <2>2. PacingTypeOK' /\ WaitIsSilence'
    BY <1>4 DEF PacingInv, PacingTypeOK, pacing_vars, timers, WaitIsSilence
  <2> QED BY <2>1, <2>2 DEF PacingInv
<1> QED
  BY <1>1, <1>2, <1>3, <1>4, PacingReads, PacingSends, PacingRefuses, PacingTicks
  DEF PacingNext, TaskStep

\* Whatever the lengths of the windows and the limits: in no stretch of a window's
\* length does MessageRateLimiter let more than two windows' messages through,
\* nor OutboundBudget more than two budgets.
THEOREM TwoWindowsAtMost == PacingSpec => []WindowsHold
<1>1. ASSUME PacingInv PROVE WindowsHold
  <2>1. RateWindow - 1 \in Nat /\ BudgetWindow - 1 \in Nat
        /\ MaxMessages \in Nat /\ MaxFrames \in Nat /\ MaxBytes \in Nat
    BY PacingAssumption
  <2>2. /\ limiter.age \in Nat /\ limiter.messages \in Nat /\ limiter.messages <= MaxMessages
        /\ budget.age \in Nat /\ budget.frames \in Nat /\ budget.frames <= MaxFrames
        /\ budget.bytes \in Nat /\ budget.bytes <= MaxBytes
    <3>1. /\ limiter.age \in 0..RateWindow /\ limiter.messages \in 0..MaxMessages
          /\ budget.age \in 0..BudgetWindow /\ budget.frames \in 0..MaxFrames
          /\ budget.bytes \in 0..MaxBytes
      BY <1>1, PacingFacts DEF PacingInv
    <3> QED BY <2>1, <3>1
  <2>3. /\ handled \in [0..(RateWindow - 1) -> Nat]
        /\ Frames \in [0..(BudgetWindow - 1) -> Nat] /\ Bytes \in [0..(BudgetWindow - 1) -> Nat]
    BY <1>1, PacingFacts DEF PacingInv
  <2>4. SumTo(handled, RateWindow - 1) <= 2 * MaxMessages
    BY <1>1, <2>1, <2>2, <2>3, FitsBounds DEF PacingInv, LimiterFits
  <2>5. SumTo(Frames, BudgetWindow - 1) <= 2 * MaxFrames
    BY <1>1, <2>1, <2>2, <2>3, FitsBounds DEF PacingInv, BudgetFits
  <2>6. SumTo(Bytes, BudgetWindow - 1) <= 2 * MaxBytes
    BY <1>1, <2>1, <2>2, <2>3, FitsBounds DEF PacingInv, BudgetFits
  <2> QED BY <1>1, <2>4, <2>5, <2>6
    DEF PacingInv, WindowsHold, RateHolds, BudgetHolds, FramesSent, BytesSent, Frames, Bytes
<1> QED BY <1>1, PacingStart, PacingStep, PTL DEF PacingSpec

\* No client is closed without cause: a refused send follows a full budget of
\* the last window's length, the rate limit as many messages, and the idle
\* timeout a pause of that length.
THEOREM OnlyForCause == PacingSpec => ClosedForCause
<1> DEFINE Cause == /\ \A n \in Sizes : SendRefused(n) =>
                         FramesSent >= MaxFrames \/ BytesSent + n > MaxBytes
                    /\ OverRate => SumTo(handled, RateWindow - 1) >= MaxMessages
                    /\ IsIdle => arrived >= IdleTimeout
<1>1. ASSUME PacingInv PROVE Cause
  <2>0. /\ RateWindow - 1 \in Nat /\ BudgetWindow - 1 \in Nat
        /\ RateWindow \in Nat /\ BudgetWindow \in Nat
        /\ MaxMessages \in Nat \ {0} /\ MaxFrames \in Nat \ {0} /\ MaxBytes \in Nat \ {0}
        /\ MaxMessages \in Nat /\ MaxFrames \in Nat /\ MaxBytes \in Nat /\ IdleTimeout \in Nat
        /\ Sizes \subseteq Nat
    BY PacingAssumption
  <2>1. /\ limiter.age \in Nat /\ limiter.messages \in Nat /\ limiter.messages <= MaxMessages
        /\ budget.age \in Nat /\ budget.frames \in Nat /\ budget.frames <= MaxFrames
        /\ budget.bytes \in Nat /\ budget.bytes <= MaxBytes
    <3>1. /\ limiter.age \in 0..RateWindow /\ limiter.messages \in 0..MaxMessages
          /\ budget.age \in 0..BudgetWindow /\ budget.frames \in 0..MaxFrames
          /\ budget.bytes \in 0..MaxBytes
      BY <1>1, PacingFacts DEF PacingInv
    <3> QED BY <2>0, <3>1
  <2>2. /\ handled \in [0..(RateWindow - 1) -> Nat]
        /\ Frames \in [0..(BudgetWindow - 1) -> Nat] /\ Bytes \in [0..(BudgetWindow - 1) -> Nat]
    BY <1>1, PacingFacts DEF PacingInv
  <2>3. /\ FramesSent = SumTo(Frames, BudgetWindow - 1)
        /\ BytesSent = SumTo(Bytes, BudgetWindow - 1)
    BY DEF FramesSent, BytesSent, Frames, Bytes
  <2>4. BytesSent \in Nat
    BY <2>0, <2>2, <2>3, SumIsNat
  <2>5. budget.age <= BudgetWindow - 1 => FramesSent >= budget.frames
    BY <1>1, <2>0, <2>1, <2>2, <2>3, FitsBounds DEF PacingInv, BudgetFits
  <2>6. budget.age <= BudgetWindow - 1 => BytesSent >= budget.bytes
    BY <1>1, <2>0, <2>1, <2>2, <2>3, FitsBounds DEF PacingInv, BudgetFits
  <2>7. limiter.age <= RateWindow - 1 => SumTo(handled, RateWindow - 1) >= limiter.messages
    BY <1>1, <2>0, <2>1, <2>2, FitsBounds DEF PacingInv, LimiterFits
  <2>8. ASSUME NEW n \in Sizes, SendRefused(n)
        PROVE  FramesSent >= MaxFrames \/ BytesSent + n > MaxBytes
    <3>1. ~MaySend(n) /\ n \in Nat
      BY <2>0, <2>8 DEF SendRefused
    <3>2. CASE n > MaxBytes
      BY <2>0, <2>4, <3>1, <3>2
    <3>3. CASE n <= MaxBytes
      <4>1. CurrentBudget.frames >= MaxFrames \/ CurrentBudget.bytes + n > MaxBytes
        BY <2>0, <2>1, <3>1, <3>3 DEF MaySend, CurrentBudget, NewBudget
      <4>2. budget.age <= BudgetWindow - 1 /\ CurrentBudget = budget
        BY <2>0, <2>1, <3>1, <3>3, <4>1 DEF CurrentBudget, NewBudget
      <4>3. FramesSent \in Nat
        BY <2>0, <2>2, <2>3, SumIsNat
      <4>4. CASE budget.frames >= MaxFrames
        BY <2>0, <2>1, <2>5, <4>2, <4>3, <4>4
      <4>5. CASE budget.bytes + n > MaxBytes
        BY <2>0, <2>1, <2>4, <2>6, <3>1, <4>2, <4>5
      <4> QED BY <4>1, <4>2, <4>4, <4>5
    <3> QED BY <2>0, <3>1, <3>2, <3>3
  <2>9. ASSUME OverRate PROVE SumTo(handled, RateWindow - 1) >= MaxMessages
    <3>1. limiter.age <= RateWindow - 1 /\ limiter.messages >= MaxMessages
      BY <2>0, <2>1, <2>9 DEF OverRate, MayHandle, CurrentLimiter, NewLimiter
    <3>2. SumTo(handled, RateWindow - 1) \in Nat
      BY <2>0, <2>2, SumIsNat
    <3> QED BY <2>0, <2>1, <2>7, <3>1, <3>2
  <2>10. ASSUME IsIdle PROVE arrived >= IdleTimeout
    BY <1>1, <2>0, <2>10 DEF IsIdle, IdleDue, PacingInv, PacingTypeOK, WaitIsSilence, LongestWait
  <2> QED BY <2>8, <2>9, <2>10
<1>2. ASSUME PacingInv, [PacingNext]_pacing_vars
      PROVE  [Cause]_pacing_vars
  BY <1>1, <1>2
<1> QED BY <1>2, PacingStart, PacingStep, PTL DEF PacingSpec, ClosedForCause

-----------------------------------------------------------------------------
(***************************************************************************)
(* SubmitLimits.                                                           *)
(***************************************************************************)

\* A source with a quota entry has spent what its window says; one without has
\* spent nothing in the last window's length.
QuotaFits(s) ==
  IF s \in DOMAIN quotas
  THEN Fits(allowed[s], SubmitWindow - 1, quotas[s].age, quotas[s].submissions, MaxPerWindow)
  ELSE \A a \in 0..(SubmitWindow - 1) : allowed[s][a] = 0

\* The quota entry of a source is there with an age of at most SubmitWindow - 1 more
\* than t: too young to be dropped while t <= Cooldown + MaxDelay.
Covered(s, t) == s \in DOMAIN quotas /\ quotas[s].age <= SubmitWindow - 1 + t

\* The quota entry of a source outlives its cooldown, and the wait for it.
QuotasOutlive ==
  /\ \A c \in Connections : stage[c] = "cooldown" => Covered(SourceOf[c], taken[c])
  /\ \A s \in DOMAIN cooldowns :
       cooldowns[s] <= Cooldown + MaxDelay => Covered(s, cooldowns[s])

\* A cooldown is at most MaxDelay older than the moment its submission passed.
SpacedFor(s) ==
  IF s \in DOMAIN cooldowns
  THEN passed[s] + MaxDelay >= cooldowns[s] \/ passed[s] = CooldownOver
  ELSE passed[s] > Cooldown - MaxDelay

LimitsInv ==
  /\ LimitsTypeOK
  /\ TablesBounded
  /\ \A s \in SubmitSources : QuotaFits(s)
  /\ QuotasOutlive
  /\ \A s \in SubmitSources : SpacedFor(s)

\* The constants, each by itself.
LEMMA LimitsConstants ==
  /\ SubmitWindow \in Nat /\ SubmitWindow > 0 /\ SubmitWindow - 1 \in Nat /\ 2 * SubmitWindow \in Nat
  /\ Cooldown \in Nat /\ MaxDelay \in Nat /\ CooldownOver \in Nat
  /\ CooldownOver = Cooldown + MaxDelay + 1
  /\ MaxDelay <= Cooldown /\ Cooldown + MaxDelay <= SubmitWindow
  /\ MaxPerWindow \in Nat /\ MaxPerWindow > 0 /\ MaxTracked \in Nat /\ MaxTracked > 0
  /\ IsFiniteSet(SubmitSources)
  /\ \A c \in Connections : SourceOf[c] \in SubmitSources
BY LimitsAssumption DEF CooldownOver

LEMMA QuotaFacts ==
  ASSUME LimitsTypeOK, NEW s \in DOMAIN quotas
  PROVE  /\ s \in SubmitSources /\ quotas[s].age \in Nat /\ quotas[s].age <= 2 * SubmitWindow
         /\ quotas[s].submissions \in Nat /\ quotas[s].submissions <= MaxPerWindow
         /\ quotas[s] = [age |-> quotas[s].age, submissions |-> quotas[s].submissions]
<1>1. s \in SubmitSources /\ quotas[s] \in Quota
  BY DEF LimitsTypeOK
<1>2. quotas[s].age \in 0..(2 * SubmitWindow) /\ quotas[s].submissions \in 0..MaxPerWindow
      /\ quotas[s] = [age |-> quotas[s].age, submissions |-> quotas[s].submissions]
  BY <1>1 DEF Quota
<1> QED BY <1>1, <1>2, LimitsConstants

\* An entry dropped by the retain, or none, means that nothing was let through.
LEMMA NothingSpent ==
  ASSUME LimitsInv, NEW s \in SubmitSources, s \notin RetainedQuotas
  PROVE  \A a \in 0..(SubmitWindow - 1) : allowed[s][a] = 0
<1>1. CASE s \notin DOMAIN quotas
  BY <1>1 DEF LimitsInv, QuotaFits
<1>2. CASE s \in DOMAIN quotas
  <2>1. quotas[s].age \in Nat /\ quotas[s].age <= 2 * SubmitWindow
    BY <1>2, QuotaFacts DEF LimitsInv
  <2>2. ~(quotas[s].age < 2 * SubmitWindow)
    BY <1>2 DEF RetainedQuotas
  <2>3. quotas[s].age = 2 * SubmitWindow
    BY <2>1, <2>2, LimitsConstants
  <2>4. \A a \in 0..(SubmitWindow - 1) : a + (SubmitWindow - 1) < 2 * SubmitWindow
    BY LimitsConstants
  <2>5. Fits(allowed[s], SubmitWindow - 1, quotas[s].age, quotas[s].submissions, MaxPerWindow)
    BY <1>2 DEF LimitsInv, QuotaFits
  <2> QED BY <2>3, <2>4, <2>5 DEF Fits
<1> QED BY <1>1, <1>2

\* A covered source is not dropped.
LEMMA CoveredIsRetained ==
  ASSUME LimitsInv, NEW s, NEW t \in Nat, t <= Cooldown + MaxDelay, Covered(s, t)
  PROVE  s \in RetainedQuotas
<1>1. s \in DOMAIN quotas /\ quotas[s].age <= SubmitWindow - 1 + t
  BY DEF Covered
<1>2. quotas[s].age \in Nat
  BY <1>1, QuotaFacts DEF LimitsInv
<1>3. quotas[s].age < 2 * SubmitWindow
  BY <1>1, <1>2, LimitsConstants
<1> QED BY <1>1, <1>3 DEF RetainedQuotas

LEMMA TablesAreFinite ==
  ASSUME LimitsTypeOK
  PROVE  /\ IsFiniteSet(DOMAIN quotas) /\ IsFiniteSet(DOMAIN cooldowns)
         /\ IsFiniteSet(RetainedQuotas)
BY LimitsConstants, FS_Subset DEF LimitsTypeOK, RetainedQuotas

LEMMA LimitsStart ==
  ASSUME LimitsInit
  PROVE  LimitsInv
<1>1. DOMAIN quotas = {} /\ DOMAIN cooldowns = {}
  BY DEF LimitsInit
<1>2. LimitsTypeOK
  BY <1>1, LimitsConstants DEF LimitsInit, LimitsTypeOK
<1>3. TablesBounded
  BY <1>1, FS_EmptySet, LimitsConstants DEF TablesBounded
<1>4. \A s \in SubmitSources : QuotaFits(s)
  BY <1>1 DEF LimitsInit, QuotaFits
<1>5. QuotasOutlive
  BY <1>1 DEF LimitsInit, QuotasOutlive
<1>6. \A s \in SubmitSources : SpacedFor(s)
  BY <1>1, LimitsConstants DEF LimitsInit, SpacedFor
<1> QED BY <1>2, <1>3, <1>4, <1>5, <1>6 DEF LimitsInv

-----------------------------------------------------------------------------
\* allow_submit_quota leaves the table with the retained entries and at most
\* one more, that of s: q, in a window that is open and fits what is let through.
LEMMA QuotaWritten ==
  ASSUME LimitsInv, NEW s \in SubmitSources, NEW q \in Quota, NEW D,
         RetainedQuotas \subseteq D, D \subseteq RetainedQuotas \cup {s},
         Cardinality(D) <= MaxTracked,
         quotas' = [t \in D |-> IF t = s THEN q ELSE quotas[t]],
         s \in D => q.age <= SubmitWindow - 1,
         s \in D => Fits(allowed'[s], SubmitWindow - 1, q.age, q.submissions, MaxPerWindow),
         allowed' \in [SubmitSources -> [0..(SubmitWindow - 1) -> Nat]],
         \A t \in SubmitSources : t # s \/ s \notin D => allowed'[t] = allowed[t],
         stage' \in [Connections -> {"idle", "quota", "cooldown"}],
         taken' \in [Connections -> 0..MaxDelay],
         \A c \in Connections : stage'[c] = "cooldown" =>
           \/ stage[c] = "cooldown" /\ taken'[c] = taken[c]
           \/ SourceOf[c] = s /\ s \in D,
         UNCHANGED <<cooldowns, passed>>
  PROVE  LimitsInv'
<1>0. LimitsTypeOK /\ TablesBounded /\ QuotasOutlive
  BY DEF LimitsInv
<1>1. DOMAIN quotas' = D /\ RetainedQuotas \subseteq DOMAIN quotas /\ D \subseteq SubmitSources
  BY <1>0 DEF RetainedQuotas, LimitsTypeOK
<1>2. \A t \in D : t # s => t \in RetainedQuotas /\ quotas'[t] = quotas[t]
  OBVIOUS
<1>3. s \in D => quotas'[s] = q
  OBVIOUS
<1>4. LimitsTypeOK'
  <2>1. \A t \in D : quotas'[t] \in Quota
    BY <1>0, <1>1, <1>2, <1>3 DEF LimitsTypeOK
  <2> QED BY <1>0, <1>1, <2>1 DEF LimitsTypeOK
<1>5. TablesBounded'
  BY <1>0, <1>1 DEF TablesBounded
<1>6. ASSUME NEW t \in SubmitSources PROVE QuotaFits(t)'
  <2>1. CASE t = s /\ s \in D
    BY <1>1, <1>3, <2>1 DEF QuotaFits
  <2>2. CASE t \notin D
    <3>1. \A a \in 0..(SubmitWindow - 1) : allowed[t][a] = 0
      BY <2>2, NothingSpent
    <3> QED BY <1>1, <2>2, <3>1 DEF QuotaFits
  <2>3. CASE t \in D /\ t # s
    <3>1. quotas'[t] = quotas[t] /\ allowed'[t] = allowed[t] /\ t \in DOMAIN quotas /\ t \in DOMAIN quotas'
      BY <1>1, <1>2, <2>3
    <3>2. QuotaFits(t)
      BY DEF LimitsInv
    <3> QED BY <3>1, <3>2 DEF QuotaFits
  <2> QED BY <2>1, <2>2, <2>3
<1>7. ASSUME NEW t, NEW a \in Nat, a <= Cooldown + MaxDelay, Covered(t, a)
      PROVE  Covered(t, a)'
  <2>1. t \in D
    BY <1>7, CoveredIsRetained
  <2>2. CASE t = s
    <3>1. q.age \in Nat
      BY DEF Quota
    <3>2. q.age <= SubmitWindow - 1 + a
      BY <1>7, <2>1, <2>2, <3>1, LimitsConstants
    <3> QED BY <1>1, <1>3, <2>1, <2>2, <3>2 DEF Covered
  <2>3. CASE t # s
    BY <1>1, <1>2, <1>7, <2>1, <2>3 DEF Covered
  <2> QED BY <2>2, <2>3
<1>8. QuotasOutlive'
  <2>1. ASSUME NEW c \in Connections, stage'[c] = "cooldown"
        PROVE  Covered(SourceOf[c], taken[c])'
    <3>1. CASE stage[c] = "cooldown" /\ taken'[c] = taken[c]
      <4>1. taken[c] \in Nat /\ taken[c] <= Cooldown + MaxDelay
        BY <1>0, LimitsConstants DEF LimitsTypeOK
      <4>2. Covered(SourceOf[c], taken[c])
        BY <1>0, <3>1 DEF QuotasOutlive
      <4> QED BY <1>7, <3>1, <4>1, <4>2 DEF Covered
    <3>2. CASE SourceOf[c] = s /\ s \in D
      <4>1. taken'[c] \in Nat /\ q.age \in Nat
        BY LimitsConstants DEF Quota
      <4>2. q.age <= SubmitWindow - 1 + taken'[c]
        BY <3>2, <4>1, LimitsConstants
      <4> QED BY <1>1, <1>3, <3>2, <4>2 DEF Covered
    <3> QED BY <2>1, <3>1, <3>2
  <2>2. ASSUME NEW t \in DOMAIN cooldowns, cooldowns[t] <= Cooldown + MaxDelay
        PROVE  Covered(t, cooldowns[t])'
    <3>1. cooldowns[t] \in Nat
      BY <1>0, LimitsConstants DEF LimitsTypeOK
    <3>2. Covered(t, cooldowns[t])
      BY <1>0, <2>2 DEF QuotasOutlive
    <3> QED BY <1>7, <2>2, <3>1, <3>2 DEF Covered
  <2> QED BY <2>1, <2>2 DEF QuotasOutlive
<1>9. \A t \in SubmitSources : SpacedFor(t)'
  BY DEF LimitsInv, SpacedFor
<1> QED BY <1>4, <1>5, <1>6, <1>8, <1>9 DEF LimitsInv

\* The entry the quota check finds, and what it becomes when one more is counted.
LEMMA CurrentQuotaFits ==
  ASSUME LimitsInv, NEW s \in SubmitSources
  PROVE  /\ CurrentQuota(s) \in Quota /\ CurrentQuota(s).age <= SubmitWindow - 1
         /\ More(allowed[s], 1) \in [0..(SubmitWindow - 1) -> Nat]
         /\ Fits(More(allowed[s], 1), SubmitWindow - 1, CurrentQuota(s).age,
                 CurrentQuota(s).submissions + 1, MaxPerWindow)
<1>0. LimitsTypeOK
  BY DEF LimitsInv
<1>1. allowed[s] \in [0..(SubmitWindow - 1) -> Nat] /\ SubmitWindow - 1 \in Nat /\ MaxPerWindow \in Nat
  BY <1>0, LimitsConstants DEF LimitsTypeOK
<1>2. CASE s \in RetainedQuotas
  <2>0. s \in DOMAIN quotas
    BY <1>2 DEF RetainedQuotas
  <2>1. /\ quotas[s].age \in Nat /\ quotas[s].submissions \in Nat
        /\ quotas[s].submissions <= MaxPerWindow /\ quotas[s] \in Quota
    BY <1>0, <2>0, QuotaFacts DEF LimitsTypeOK
  <2>2. Fits(allowed[s], SubmitWindow - 1, quotas[s].age, quotas[s].submissions, MaxPerWindow)
    BY <2>0 DEF LimitsInv, QuotaFits
  <2>3. CASE quotas[s].age < SubmitWindow
    <3>1. CurrentQuota(s) = quotas[s]
      BY <1>2, <2>3 DEF CurrentQuota
    <3>2. quotas[s].age \in 0..(SubmitWindow - 1) /\ quotas[s].age <= SubmitWindow - 1 /\ 1 \in Nat
      BY <2>1, <2>3, LimitsConstants
    <3>3. /\ More(allowed[s], 1) \in [0..(SubmitWindow - 1) -> Nat]
          /\ Fits(More(allowed[s], 1), SubmitWindow - 1, quotas[s].age,
                  quotas[s].submissions + 1, MaxPerWindow)
      BY <1>1, <2>1, <2>2, <3>2, FitsMore
    <3> QED BY <2>1, <3>1, <3>2, <3>3
  <2>4. CASE ~(quotas[s].age < SubmitWindow)
    <3>1. CurrentQuota(s) = [age |-> 0, submissions |-> 0]
      BY <2>4 DEF CurrentQuota
    <3>2. quotas[s].age > SubmitWindow - 1 /\ 1 \in Nat /\ 0 + 1 = 1
      BY <2>1, <2>4, LimitsConstants
    <3>3. /\ More(allowed[s], 1) \in [0..(SubmitWindow - 1) -> Nat]
          /\ Fits(More(allowed[s], 1), SubmitWindow - 1, 0, 1, MaxPerWindow)
      BY <1>1, <2>1, <2>2, <3>2, FitsAgain
    <3> QED BY <1>1, <3>1, <3>2, <3>3, LimitsConstants DEF Quota
  <2> QED BY <2>3, <2>4
<1>3. CASE s \notin RetainedQuotas
  <2>1. CurrentQuota(s) = [age |-> 0, submissions |-> 0]
    BY <1>3 DEF CurrentQuota
  <2>2. \A a \in 0..(SubmitWindow - 1) : allowed[s][a] = 0
    BY <1>3, NothingSpent
  <2>3. 1 \in Nat /\ 0 + 1 = 1
    OBVIOUS
  <2>4. /\ More(allowed[s], 1) \in [0..(SubmitWindow - 1) -> Nat]
        /\ Fits(More(allowed[s], 1), SubmitWindow - 1, 0, 1, MaxPerWindow)
    BY <1>1, <2>2, <2>3, FitsFirst
  <2> QED BY <1>1, <2>1, <2>3, <2>4, LimitsConstants DEF Quota
<1> QED BY <1>2, <1>3

\* There is room for the entry.
LEMMA QuotaHasRoom ==
  ASSUME LimitsInv, NEW s \in SubmitSources
  PROVE  /\ Cardinality(RetainedQuotas) <= MaxTracked
         /\ ~TooManySources(s) => Cardinality(RetainedQuotas \cup {s}) <= MaxTracked
<1>1. IsFiniteSet(DOMAIN quotas) /\ IsFiniteSet(RetainedQuotas)
  BY TablesAreFinite DEF LimitsInv
<1>2. RetainedQuotas \subseteq DOMAIN quotas
  BY DEF RetainedQuotas
<1>3. Cardinality(RetainedQuotas) <= Cardinality(DOMAIN quotas)
  BY <1>1, <1>2, FS_Subset
<1>4. Cardinality(RetainedQuotas) \in Nat /\ Cardinality(DOMAIN quotas) \in Nat
  BY <1>1, FS_CardinalityType
<1>5. Cardinality(RetainedQuotas) <= MaxTracked
  BY <1>3, <1>4, LimitsConstants DEF LimitsInv, TablesBounded
<1>6. CASE s \in RetainedQuotas
  <2>1. RetainedQuotas \cup {s} = RetainedQuotas
    BY <1>6
  <2> QED BY <1>5, <2>1
<1>7. CASE s \notin RetainedQuotas
  <2>1. Cardinality(RetainedQuotas \cup {s}) = Cardinality(RetainedQuotas) + 1
    BY <1>1, <1>7, FS_AddElement
  <2> QED BY <1>4, <1>5, <1>7, <2>1, LimitsConstants DEF TooManySources
<1> QED BY <1>6, <1>7

LEMMA LimitsQuotaRefuses ==
  ASSUME LimitsInv, NEW c \in Connections, QuotaRefuses(c)
  PROVE  LimitsInv'
<1>1. PICK s \in SubmitSources : s = SourceOf[c]
  BY LimitsConstants
<1>2. LimitsTypeOK
  BY DEF LimitsInv
<1>3. /\ stage' = [stage EXCEPT ![c] = "idle"] /\ taken' = [taken EXCEPT ![c] = 0]
      /\ UNCHANGED <<cooldowns, allowed, passed>>
  BY DEF QuotaRefuses
<1>4. /\ stage' \in [Connections -> {"idle", "quota", "cooldown"}]
      /\ taken' \in [Connections -> 0..MaxDelay]
      /\ allowed' \in [SubmitSources -> [0..(SubmitWindow - 1) -> Nat]]
  BY <1>2, <1>3, LimitsConstants DEF LimitsTypeOK
<1>5. \A d \in Connections :
        stage'[d] = "cooldown" => stage[d] = "cooldown" /\ taken'[d] = taken[d]
  BY <1>2, <1>3 DEF LimitsTypeOK
<1>6. CASE TooManySources(s)
  <2>1. s \notin RetainedQuotas /\ quotas' = [t \in RetainedQuotas |-> quotas[t]]
    BY <1>1, <1>6 DEF QuotaRefuses, TooManySources
  <2>2. PICK q \in Quota : TRUE
    BY CurrentQuotaFits
  <2>3. quotas' = [t \in RetainedQuotas |-> IF t = s THEN q ELSE quotas[t]]
    BY <2>1
  <2>4. Cardinality(RetainedQuotas) <= MaxTracked
    BY QuotaHasRoom
  <2> QED BY <1>3, <1>4, <1>5, <2>1, <2>3, <2>4, QuotaWritten
<1>7. CASE ~TooManySources(s)
  <2>1. ~HasQuota(CurrentQuota(s)) /\ quotas' = QuotasWith(s, CurrentQuota(s))
    BY <1>1, <1>7 DEF QuotaRefuses
  <2>2. s \in RetainedQuotas /\ CurrentQuota(s) = quotas[s]
    BY <2>1, LimitsConstants DEF HasQuota, CurrentQuota
  <2>3. s \in DOMAIN quotas
    BY <2>2 DEF RetainedQuotas
  <2>4. Fits(allowed[s], SubmitWindow - 1, quotas[s].age, quotas[s].submissions, MaxPerWindow)
    BY <2>3 DEF LimitsInv, QuotaFits
  <2>5. quotas[s] \in Quota /\ quotas[s].age <= SubmitWindow - 1
    BY <2>2, CurrentQuotaFits
  <2>6. /\ Cardinality(RetainedQuotas \cup {s}) <= MaxTracked
        /\ RetainedQuotas \subseteq RetainedQuotas \cup {s}
    BY <1>7, QuotaHasRoom
  <2>7. quotas' = [t \in RetainedQuotas \cup {s} |-> IF t = s THEN quotas[s] ELSE quotas[t]]
    BY <2>1, <2>2 DEF QuotasWith
  <2> QED BY <1>3, <1>4, <1>5, <2>4, <2>5, <2>6, <2>7, QuotaWritten
<1> QED BY <1>6, <1>7

LEMMA LimitsQuotaAllows ==
  ASSUME LimitsInv, NEW c \in Connections, QuotaAllows(c)
  PROVE  LimitsInv'
<1>1. PICK s \in SubmitSources : s = SourceOf[c]
  BY LimitsConstants
<1>2. LimitsTypeOK
  BY DEF LimitsInv
<1>3. PICK q : q = CurrentQuota(s)
  OBVIOUS
<1>4. /\ ~TooManySources(s) /\ HasQuota(q)
      /\ quotas' = QuotasWith(s, Counted(q))
      /\ stage' = [stage EXCEPT ![c] = "cooldown"]
      /\ allowed' = [allowed EXCEPT ![s][0] = @ + 1]
      /\ UNCHANGED <<cooldowns, taken, passed>>
  BY <1>1, <1>3 DEF QuotaAllows
<1>5. /\ q \in Quota /\ q.age <= SubmitWindow - 1
      /\ More(allowed[s], 1) \in [0..(SubmitWindow - 1) -> Nat]
      /\ Fits(More(allowed[s], 1), SubmitWindow - 1, q.age, q.submissions + 1, MaxPerWindow)
  BY <1>3, CurrentQuotaFits
<1>6. PICK p : p = Counted(q)
  OBVIOUS
<1>7. p \in Quota /\ p.age = q.age /\ p.submissions = q.submissions + 1
  <2>1. /\ q.age \in 0..(2 * SubmitWindow) /\ q.submissions \in 0..MaxPerWindow
        /\ p = [q EXCEPT !.submissions = q.submissions + 1]
        /\ q = [age |-> q.age, submissions |-> q.submissions]
    BY <1>5, <1>6 DEF Quota, Counted
  <2>2. p = [age |-> q.age, submissions |-> q.submissions + 1]
    BY <2>1
  <2>3. q.submissions + 1 \in 0..MaxPerWindow
    BY <1>4, <2>1, LimitsConstants DEF HasQuota
  <2> QED BY <2>1, <2>2, <2>3 DEF Quota
<1>8. allowed' = [allowed EXCEPT ![s] = More(allowed[s], 1)]
  BY <1>4 DEF More
<1>9. /\ allowed'[s] = More(allowed[s], 1)
      /\ allowed' \in [SubmitSources -> [0..(SubmitWindow - 1) -> Nat]]
      /\ \A t \in SubmitSources : t # s => allowed'[t] = allowed[t]
  BY <1>2, <1>5, <1>8 DEF LimitsTypeOK
<1>10. /\ stage' \in [Connections -> {"idle", "quota", "cooldown"}]
       /\ taken' \in [Connections -> 0..MaxDelay]
  BY <1>2, <1>4 DEF LimitsTypeOK
<1>11. \A d \in Connections : stage'[d] = "cooldown" =>
         (stage[d] = "cooldown" /\ taken'[d] = taken[d]) \/ SourceOf[d] = s
  BY <1>1, <1>2, <1>4 DEF LimitsTypeOK
<1>12. /\ Cardinality(RetainedQuotas \cup {s}) <= MaxTracked
       /\ RetainedQuotas \subseteq RetainedQuotas \cup {s} /\ s \in RetainedQuotas \cup {s}
  BY <1>4, QuotaHasRoom
<1>13. quotas' = [t \in RetainedQuotas \cup {s} |-> IF t = s THEN p ELSE quotas[t]]
  BY <1>4, <1>6 DEF QuotasWith
<1>14. /\ p.age <= SubmitWindow - 1
       /\ Fits(allowed'[s], SubmitWindow - 1, p.age, p.submissions, MaxPerWindow)
  BY <1>5, <1>7, <1>9
<1>15. UNCHANGED <<cooldowns, passed>>
  BY <1>4
<1>16. PICK D : D = RetainedQuotas \cup {s}
  OBVIOUS
<1>17. /\ RetainedQuotas \subseteq D /\ D \subseteq RetainedQuotas \cup {s} /\ s \in D
       /\ Cardinality(D) <= MaxTracked
       /\ quotas' = [t \in D |-> IF t = s THEN p ELSE quotas[t]]
  BY <1>12, <1>13, <1>16
<1> QED BY <1>7, <1>9, <1>10, <1>11, <1>14, <1>15, <1>17, QuotaWritten

-----------------------------------------------------------------------------
\* What the retain of the cooldown table keeps has a quota entry.
LEMMA RetainedIsCovered ==
  ASSUME LimitsInv, NEW now \in 0..MaxDelay, NEW s \in RetainedCooldowns(now)
  PROVE  s \in DOMAIN cooldowns /\ Covered(s, cooldowns[s])
<1>1. s \in DOMAIN cooldowns /\ Since(now, cooldowns[s]) <= Cooldown
  BY DEF RetainedCooldowns
<1>2. cooldowns[s] \in Nat
  BY <1>1, LimitsConstants DEF LimitsInv, LimitsTypeOK
<1>3. cooldowns[s] <= Cooldown + MaxDelay
  BY <1>1, <1>2, LimitsConstants DEF Since
<1> QED BY <1>1, <1>3 DEF LimitsInv, QuotasOutlive

\* What it does not keep passed long enough ago.
LEMMA OverIsSpaced ==
  ASSUME LimitsInv, NEW now \in 0..MaxDelay, NEW s \in SubmitSources, s \notin RetainedCooldowns(now)
  PROVE  passed[s] > Cooldown - MaxDelay
<1>0. passed[s] \in Nat /\ SpacedFor(s)
  BY LimitsConstants DEF LimitsInv, LimitsTypeOK
<1>1. CASE s \notin DOMAIN cooldowns
  BY <1>0, <1>1 DEF SpacedFor
<1>2. CASE s \in DOMAIN cooldowns
  <2>1. cooldowns[s] \in Nat
    BY <1>2, LimitsConstants DEF LimitsInv, LimitsTypeOK
  <2>2. ~(Since(now, cooldowns[s]) <= Cooldown)
    BY <1>2 DEF RetainedCooldowns
  <2>3. cooldowns[s] > Cooldown
    BY <2>1, <2>2, LimitsConstants DEF Since
  <2> QED BY <1>0, <1>2, <2>1, <2>3, LimitsConstants DEF SpacedFor
<1> QED BY <1>1, <1>2

\* A step that leaves the quotas and what they let through as they were.
LEMMA QuotasKept ==
  ASSUME LimitsInv, UNCHANGED <<quotas, allowed>>
  PROVE  /\ \A s \in SubmitSources : QuotaFits(s)'
         /\ Cardinality(DOMAIN quotas') <= MaxTracked
BY DEF LimitsInv, QuotaFits, TablesBounded

LEMMA LimitsBegin ==
  ASSUME LimitsInv, NEW c \in Connections, Begin(c)
  PROVE  LimitsInv'
<1>1. /\ stage' = [stage EXCEPT ![c] = "quota"] /\ taken' = [taken EXCEPT ![c] = 0]
      /\ UNCHANGED <<quotas, cooldowns, allowed, passed>>
  BY DEF Begin
<1>2. LimitsTypeOK'
  BY <1>1, LimitsConstants DEF LimitsInv, LimitsTypeOK
<1>3. \A d \in Connections :
        stage'[d] = "cooldown" => stage[d] = "cooldown" /\ taken'[d] = taken[d]
  BY <1>1 DEF LimitsInv, LimitsTypeOK
<1>4. QuotasOutlive'
  BY <1>1, <1>3 DEF LimitsInv, QuotasOutlive, Covered
<1>5. TablesBounded' /\ \A s \in SubmitSources : SpacedFor(s)'
  BY <1>1 DEF LimitsInv, TablesBounded, SpacedFor
<1> QED BY <1>1, <1>2, <1>4, <1>5, QuotasKept DEF LimitsInv

LEMMA LimitsCooldownRefuses ==
  ASSUME LimitsInv, NEW c \in Connections, CooldownRefuses(c)
  PROVE  LimitsInv'
<1>0. LimitsTypeOK /\ TablesBounded /\ QuotasOutlive
  BY DEF LimitsInv
<1>1. PICK now \in 0..MaxDelay : now = taken[c]
  BY <1>0 DEF LimitsTypeOK
<1>2. /\ cooldowns' = [s \in RetainedCooldowns(now) |-> cooldowns[s]]
      /\ stage' = [stage EXCEPT ![c] = "idle"] /\ taken' = [taken EXCEPT ![c] = 0]
      /\ UNCHANGED <<quotas, allowed, passed>>
  BY <1>1 DEF CooldownRefuses
<1>3. DOMAIN cooldowns' = RetainedCooldowns(now)
      /\ RetainedCooldowns(now) \subseteq DOMAIN cooldowns
  BY <1>2 DEF RetainedCooldowns
<1>4. LimitsTypeOK'
  BY <1>0, <1>2, <1>3, LimitsConstants DEF LimitsTypeOK
<1>5. TablesBounded'
  <2>1. IsFiniteSet(DOMAIN cooldowns)
    BY <1>0, TablesAreFinite
  <2>2. /\ Cardinality(DOMAIN cooldowns') <= Cardinality(DOMAIN cooldowns)
        /\ IsFiniteSet(DOMAIN cooldowns')
    BY <1>3, <2>1, FS_Subset
  <2>3. Cardinality(DOMAIN cooldowns') \in Nat /\ Cardinality(DOMAIN cooldowns) \in Nat
    BY <2>1, <2>2, FS_CardinalityType
  <2> QED BY <1>0, <1>2, <2>2, <2>3, LimitsConstants DEF TablesBounded
<1>6. QuotasOutlive'
  <2>1. \A d \in Connections :
          stage'[d] = "cooldown" => stage[d] = "cooldown" /\ taken'[d] = taken[d]
    BY <1>0, <1>2 DEF LimitsTypeOK
  <2> QED BY <1>0, <1>2, <1>3, <2>1 DEF QuotasOutlive, Covered
<1>7. ASSUME NEW s \in SubmitSources PROVE SpacedFor(s)'
  <2>1. CASE s \in RetainedCooldowns(now)
    <3>1. SpacedFor(s)
      BY DEF LimitsInv
    <3> QED BY <1>2, <1>3, <2>1, <3>1 DEF SpacedFor
  <2>2. CASE s \notin RetainedCooldowns(now)
    <3>1. passed[s] > Cooldown - MaxDelay
      BY <2>2, OverIsSpaced
    <3> QED BY <1>2, <1>3, <2>2, <3>1 DEF SpacedFor
  <2> QED BY <2>1, <2>2
<1> QED BY <1>2, <1>4, <1>5, <1>6, <1>7, QuotasKept DEF LimitsInv

\* The second section has no check of its own on the size of the table: every
\* entry it leaves belongs to a source with a quota entry.
LEMMA LimitsCooldownAllows ==
  ASSUME LimitsInv, NEW c \in Connections, CooldownAllows(c)
  PROVE  LimitsInv'
<1>0. LimitsTypeOK /\ TablesBounded /\ QuotasOutlive
  BY DEF LimitsInv
<1>1. PICK now \in 0..MaxDelay : now = taken[c]
  BY <1>0 DEF LimitsTypeOK
<1>2. PICK s \in SubmitSources : s = SourceOf[c]
  BY LimitsConstants
<1>3. PICK kept : kept = RetainedCooldowns(now)
  OBVIOUS
<1>4. /\ stage[c] = "cooldown" /\ s \notin kept
      /\ cooldowns' = [t \in kept \cup {s} |-> IF t = s THEN now ELSE cooldowns[t]]
      /\ passed' = [passed EXCEPT ![s] = 0]
      /\ stage' = [stage EXCEPT ![c] = "idle"] /\ taken' = [taken EXCEPT ![c] = 0]
      /\ UNCHANGED <<quotas, allowed>>
  BY <1>1, <1>2, <1>3 DEF CooldownAllows
<1>5. /\ DOMAIN cooldowns' = kept \cup {s} /\ kept \subseteq DOMAIN cooldowns
      /\ cooldowns'[s] = now /\ \A t \in kept : cooldowns'[t] = cooldowns[t]
  BY <1>3, <1>4 DEF RetainedCooldowns
<1>6. Covered(s, now)
  BY <1>0, <1>1, <1>2, <1>4 DEF QuotasOutlive
<1>7. LimitsTypeOK'
  <2>1. now \in 0..CooldownOver
    BY LimitsConstants
  <2>2. \A t \in kept \cup {s} : cooldowns'[t] \in 0..CooldownOver
    BY <1>0, <1>5, <2>1 DEF LimitsTypeOK
  <2>3. kept \cup {s} \subseteq SubmitSources
    BY <1>0, <1>5 DEF LimitsTypeOK
  <2>4. /\ passed' \in [SubmitSources -> 0..CooldownOver] /\ taken' \in [Connections -> 0..MaxDelay]
        /\ stage' \in [Connections -> {"idle", "quota", "cooldown"}]
    BY <1>0, <1>4, LimitsConstants DEF LimitsTypeOK
  <2> QED BY <1>0, <1>4, <1>5, <2>2, <2>3, <2>4 DEF LimitsTypeOK
<1>8. TablesBounded'
  <2>1. \A t \in kept : t \in DOMAIN quotas
    BY <1>3, RetainedIsCovered DEF Covered
  <2>2. DOMAIN cooldowns' \subseteq DOMAIN quotas
    BY <1>5, <1>6, <2>1 DEF Covered
  <2>3. IsFiniteSet(DOMAIN quotas)
    BY <1>0, TablesAreFinite
  <2>4. /\ Cardinality(DOMAIN cooldowns') <= Cardinality(DOMAIN quotas)
        /\ IsFiniteSet(DOMAIN cooldowns')
    BY <2>2, <2>3, FS_Subset
  <2>5. Cardinality(DOMAIN cooldowns') \in Nat /\ Cardinality(DOMAIN quotas) \in Nat
    BY <2>3, <2>4, FS_CardinalityType
  <2> QED BY <1>0, <1>4, <2>4, <2>5, LimitsConstants DEF TablesBounded
<1>9. QuotasOutlive'
  <2>1. \A d \in Connections :
          stage'[d] = "cooldown" => stage[d] = "cooldown" /\ taken'[d] = taken[d]
    BY <1>0, <1>4 DEF LimitsTypeOK
  <2>2. ASSUME NEW t \in DOMAIN cooldowns' PROVE Covered(t, cooldowns[t])'
    <3>1. CASE t = s
      BY <1>4, <1>5, <1>6, <3>1 DEF Covered
    <3>2. CASE t # s
      <4>1. t \in kept /\ Covered(t, cooldowns[t])
        BY <1>3, <1>5, <3>2, RetainedIsCovered
      <4> QED BY <1>4, <1>5, <4>1 DEF Covered
    <3> QED BY <3>1, <3>2
  <2> QED BY <1>0, <1>4, <2>1, <2>2 DEF QuotasOutlive, Covered
<1>10. ASSUME NEW t \in SubmitSources PROVE SpacedFor(t)'
  <2>1. CASE t = s
    <3>1. passed'[s] = 0
      BY <1>0, <1>4 DEF LimitsTypeOK
    <3> QED BY <1>5, <2>1, <3>1, LimitsConstants DEF SpacedFor
  <2>2. CASE t \in kept /\ t # s
    <3>1. passed'[t] = passed[t] /\ SpacedFor(t)
      BY <1>0, <1>4, <2>2 DEF LimitsTypeOK, LimitsInv
    <3> QED BY <1>5, <2>2, <3>1 DEF SpacedFor
  <2>3. CASE t \notin kept /\ t # s
    <3>1. passed'[t] = passed[t]
      BY <1>0, <1>4, <2>3 DEF LimitsTypeOK
    <3>2. passed[t] > Cooldown - MaxDelay
      BY <1>3, <2>3, OverIsSpaced
    <3> QED BY <1>5, <2>3, <3>1, <3>2 DEF SpacedFor
  <2> QED BY <2>1, <2>2, <2>3
<1> QED BY <1>4, <1>7, <1>8, <1>9, <1>10, QuotasKept DEF LimitsInv

LEMMA LimitsTicks ==
  ASSUME LimitsInv, LimitsTick
  PROVE  LimitsInv'
<1>0. LimitsTypeOK /\ TablesBounded /\ QuotasOutlive
  BY DEF LimitsInv
<1>1. /\ DOMAIN quotas' = DOMAIN quotas
      /\ \A s \in DOMAIN quotas :
           quotas'[s] = [quotas[s] EXCEPT !.age = IF @ < 2 * SubmitWindow THEN @ + 1 ELSE @]
  BY DEF LimitsTick
<1>2. /\ DOMAIN cooldowns' = DOMAIN cooldowns
      /\ \A s \in DOMAIN cooldowns : cooldowns'[s] =
           IF cooldowns[s] < CooldownOver THEN cooldowns[s] + 1 ELSE CooldownOver
  BY DEF LimitsTick
<1>3. ASSUME NEW s \in DOMAIN quotas
      PROVE  /\ quotas'[s] \in Quota
             /\ quotas'[s].age = IF quotas[s].age < 2 * SubmitWindow THEN quotas[s].age + 1 ELSE quotas[s].age
             /\ quotas'[s].submissions = quotas[s].submissions
  <2>1. PICK a \in Nat, n \in Nat : /\ a = quotas[s].age /\ n = quotas[s].submissions
                                    /\ a <= 2 * SubmitWindow /\ n <= MaxPerWindow
                                    /\ quotas[s] = [age |-> a, submissions |-> n]
    BY <1>0, QuotaFacts
  <2>2. quotas'[s] = [age |-> IF a < 2 * SubmitWindow THEN a + 1 ELSE a, submissions |-> n]
    BY <1>1, <2>1
  <2>3. (IF a < 2 * SubmitWindow THEN a + 1 ELSE a) \in 0..(2 * SubmitWindow) /\ n \in 0..MaxPerWindow
    BY <2>1, LimitsConstants
  <2> QED BY <2>1, <2>2, <2>3 DEF Quota
<1>4. ASSUME NEW s \in SubmitSources
      PROVE  /\ allowed'[s] = ATickLater(allowed[s])
             /\ allowed[s] \in [0..(SubmitWindow - 1) -> Nat]
             /\ ATickLater(allowed[s]) \in [0..(SubmitWindow - 1) -> Nat]
  <2>1. allowed[s] \in [0..(SubmitWindow - 1) -> Nat] /\ SubmitWindow - 1 \in Nat
    BY <1>0, LimitsConstants DEF LimitsTypeOK
  <2> QED BY <2>1, SumLater DEF LimitsTick
<1>5. LimitsTypeOK'
  <2>1. \A s \in DOMAIN cooldowns : cooldowns'[s] \in 0..CooldownOver
    BY <1>0, <1>2, LimitsConstants DEF LimitsTypeOK
  <2>2. taken' \in [Connections -> 0..MaxDelay]
    BY <1>0, LimitsConstants DEF LimitsTypeOK, LimitsTick
  <2>3. allowed' \in [SubmitSources -> [0..(SubmitWindow - 1) -> Nat]]
    BY <1>4 DEF LimitsTick
  <2>4. passed' \in [SubmitSources -> 0..CooldownOver]
    BY <1>0, LimitsConstants DEF LimitsTypeOK, LimitsTick
  <2>5. stage' = stage
    BY DEF LimitsTick
  <2> QED BY <1>0, <1>1, <1>2, <1>3, <2>1, <2>2, <2>3, <2>4, <2>5 DEF LimitsTypeOK
<1>6. TablesBounded'
  BY <1>0, <1>1, <1>2 DEF TablesBounded
<1>7. ASSUME NEW s \in SubmitSources PROVE QuotaFits(s)'
  <2>1. CASE s \in DOMAIN quotas
    <3>1. /\ quotas[s].age \in Nat /\ quotas[s].submissions \in Nat
          /\ SubmitWindow - 1 \in Nat /\ MaxPerWindow \in Nat
      BY <1>0, <2>1, QuotaFacts, LimitsConstants
    <3>2. Fits(allowed[s], SubmitWindow - 1, quotas[s].age, quotas[s].submissions, MaxPerWindow)
      BY <2>1 DEF LimitsInv, QuotaFits
    <3>3. PICK later \in Nat : later = quotas'[s].age
      BY <1>3, <2>1, <3>1
    <3>4. later = quotas[s].age + 1 \/ (later = quotas[s].age /\ quotas[s].age > SubmitWindow - 1)
      BY <1>3, <2>1, <3>1, <3>3, LimitsConstants
    <3>5. Fits(ATickLater(allowed[s]), SubmitWindow - 1, later, quotas[s].submissions, MaxPerWindow)
      BY <1>4, <3>1, <3>2, <3>4, FitsLater
    <3> QED BY <1>1, <1>3, <1>4, <2>1, <3>3, <3>5 DEF QuotaFits
  <2>2. CASE s \notin DOMAIN quotas
    <3>1. \A a \in 0..(SubmitWindow - 1) : allowed[s][a] = 0
      BY <2>2 DEF LimitsInv, QuotaFits
    <3>2. \A a \in 0..(SubmitWindow - 1) : ATickLater(allowed[s])[a] = 0
      <4>1. PICK f \in [0..(SubmitWindow - 1) -> Nat] : f = allowed[s]
        BY <1>4
      <4>2. \A a \in 0..(SubmitWindow - 1) : f[a] = 0
        BY <3>1, <4>1
      <4>3. \A a \in 0..(SubmitWindow - 1) : a # 0 => a - 1 \in 0..(SubmitWindow - 1)
        BY LimitsConstants
      <4>4. \A a \in 0..(SubmitWindow - 1) : ATickLater(f)[a] = 0
        BY <4>2, <4>3 DEF ATickLater
      <4> QED BY <4>1, <4>4
    <3> QED BY <1>1, <1>4, <2>2, <3>2 DEF QuotaFits
  <2> QED BY <2>1, <2>2
<1>8. ASSUME NEW s, NEW t \in Nat, Covered(s, t)
      PROVE  s \in DOMAIN quotas' /\ quotas'[s].age <= SubmitWindow - 1 + (t + 1)
  <2>1. s \in DOMAIN quotas /\ quotas[s].age <= SubmitWindow - 1 + t
    BY <1>8 DEF Covered
  <2>2. quotas[s].age \in Nat
    BY <1>0, <2>1, QuotaFacts
  <2> QED BY <1>1, <1>3, <2>1, <2>2, LimitsConstants
<1>9. QuotasOutlive'
  <2>1. ASSUME NEW c \in Connections, stage'[c] = "cooldown"
        PROVE  Covered(SourceOf[c], taken[c])'
    <3>1. stage[c] = "cooldown" /\ taken'[c] = taken[c] + 1 /\ taken[c] \in Nat
      BY <1>0, <2>1, LimitsConstants DEF LimitsTick, LimitsTypeOK
    <3>2. Covered(SourceOf[c], taken[c])
      BY <1>0, <3>1 DEF QuotasOutlive
    <3> QED BY <1>8, <3>1, <3>2 DEF Covered
  <2>2. ASSUME NEW s \in DOMAIN cooldowns', cooldowns'[s] <= Cooldown + MaxDelay
        PROVE  Covered(s, cooldowns[s])'
    <3>1. s \in DOMAIN cooldowns /\ cooldowns[s] \in Nat
      BY <1>0, <1>2, LimitsConstants DEF LimitsTypeOK
    <3>2. cooldowns[s] <= Cooldown + MaxDelay /\ cooldowns'[s] = cooldowns[s] + 1
      BY <1>2, <2>2, <3>1, LimitsConstants
    <3>3. Covered(s, cooldowns[s])
      BY <1>0, <3>1, <3>2 DEF QuotasOutlive
    <3> QED BY <1>8, <3>1, <3>2, <3>3 DEF Covered
  <2> QED BY <2>1, <2>2 DEF QuotasOutlive
<1>10. ASSUME NEW s \in SubmitSources PROVE SpacedFor(s)'
  <2>1. passed[s] \in Nat /\ passed[s] <= CooldownOver /\ SpacedFor(s)
    BY <1>0, LimitsConstants DEF LimitsTypeOK, LimitsInv
  <2>2. passed'[s] = IF passed[s] < CooldownOver THEN passed[s] + 1 ELSE CooldownOver
    BY DEF LimitsTick
  <2>3. CASE s \in DOMAIN cooldowns
    <3>1. cooldowns[s] \in Nat /\ cooldowns[s] <= CooldownOver
      BY <1>0, <2>3, LimitsConstants DEF LimitsTypeOK
    <3> QED BY <1>2, <2>1, <2>2, <2>3, <3>1, LimitsConstants DEF SpacedFor
  <2>4. CASE s \notin DOMAIN cooldowns
    BY <1>2, <2>1, <2>2, <2>4, LimitsConstants DEF SpacedFor
  <2> QED BY <2>3, <2>4
<1> QED BY <1>5, <1>6, <1>7, <1>9, <1>10 DEF LimitsInv

LEMMA LimitsStep ==
  ASSUME LimitsInv, [LimitsNext]_limits_vars
  PROVE  LimitsInv'
<1>1. CASE UNCHANGED limits_vars
  BY <1>1 DEF limits_vars, LimitsInv, LimitsTypeOK, TablesBounded, QuotaFits,
    QuotasOutlive, Covered, SpacedFor
<1> QED
  BY <1>1, LimitsBegin, LimitsQuotaRefuses, LimitsQuotaAllows, LimitsCooldownRefuses,
     LimitsCooldownAllows, LimitsTicks DEF LimitsNext

\* Whatever the window, the quota and the cooldown, as long as the window is not
\* shorter than the cooldown with the wait for the locks: both tables stay within
\* MAX_TRACKED_IP_SUBMITTERS, the cooldown table too, which checks nothing, and
\* no stretch of a window's length sees more than two quotas of one source.
THEOREM QuotasAlwaysHold == LimitsSpec => []QuotasHold
<1>1. ASSUME LimitsInv PROVE QuotasHold
  <2>1. ASSUME NEW s \in SubmitSources PROVE SumTo(allowed[s], SubmitWindow - 1) <= 2 * MaxPerWindow
    <3>1. /\ allowed[s] \in [0..(SubmitWindow - 1) -> Nat] /\ SubmitWindow - 1 \in Nat
          /\ MaxPerWindow \in Nat
      BY <1>1, LimitsConstants DEF LimitsInv, LimitsTypeOK
    <3>2. CASE s \in DOMAIN quotas
      <4>1. /\ quotas[s].age \in Nat /\ quotas[s].submissions \in Nat
            /\ quotas[s].submissions <= MaxPerWindow
        BY <1>1, <3>2, QuotaFacts DEF LimitsInv
      <4>2. Fits(allowed[s], SubmitWindow - 1, quotas[s].age, quotas[s].submissions, MaxPerWindow)
        BY <1>1, <3>2 DEF LimitsInv, QuotaFits
      <4> QED BY <3>1, <4>1, <4>2, FitsBounds
    <3>3. CASE s \notin DOMAIN quotas
      <4>1. \A a \in 0..(SubmitWindow - 1) : allowed[s][a] = 0
        BY <1>1, <3>3 DEF LimitsInv, QuotaFits
      <4>2. SumTo(allowed[s], SubmitWindow - 1) = 0
        BY <3>1, <4>1, SumOfNothing
      <4> QED BY <3>1, <4>2
    <3> QED BY <3>2, <3>3
  <2> QED BY <1>1, <2>1 DEF LimitsInv, QuotasHold, AtMostTwoQuotas
<1> QED BY <1>1, LimitsStart, LimitsStep, PTL DEF LimitsSpec

\* However the connections of one source interleave, and although the time each
\* compares was taken before it had a lock: two submissions that pass are more
\* than the cooldown apart, less the longest wait for the locks.
THEOREM PassesAreSpaced == LimitsSpec => SubmissionsSpaced
<1> DEFINE Spaced == \A c \in Connections :
                       CooldownAllows(c) => passed[SourceOf[c]] > Cooldown - MaxDelay
<1>1. ASSUME LimitsInv PROVE Spaced
  <2> SUFFICES ASSUME NEW c \in Connections, CooldownAllows(c)
               PROVE  passed[SourceOf[c]] > Cooldown - MaxDelay
    OBVIOUS
  <2>1. SourceOf[c] \in SubmitSources /\ taken[c] \in 0..MaxDelay
    BY <1>1, LimitsConstants DEF LimitsInv, LimitsTypeOK
  <2>2. SourceOf[c] \notin RetainedCooldowns(taken[c])
    BY DEF CooldownAllows
  <2> QED BY <1>1, <2>1, <2>2, OverIsSpaced
<1>2. ASSUME LimitsInv, [LimitsNext]_limits_vars
      PROVE  [Spaced]_limits_vars
  BY <1>1, <1>2
<1> QED BY <1>2, LimitsStart, LimitsStep, PTL DEF LimitsSpec, SubmissionsSpaced
=============================================================================

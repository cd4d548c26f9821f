----------------------------- MODULE Induction -----------------------------
(***************************************************************************)
(* Induction over natural numbers without an operator as a parameter: what *)
(* holds of every number is shown by the least one of which it does not    *)
(* hold, and stated of sets.                                               *)
(***************************************************************************)
EXTENDS Naturals, WellFoundedInduction, TLAPS

\* A set of natural numbers with a member has a least one.
LEMMA LeastNat ==
  ASSUME NEW T, T \subseteq Nat, T # {}
  PROVE  \E n \in T : \A m \in T : n <= m
<1>1. PICK n \in T : \A m \in T : ~ (<<m, n>> \in OpToRel(<, Nat))
  BY NatLessThanWellFounded, WFMin
<1>2. \A m \in T : ~(m < n)
  BY <1>1 DEF OpToRel
<1> QED BY <1>2

\* A set with 0 and, up to n, with the successors of its members has them all.
LEMMA UpTo ==
  ASSUME NEW n \in Nat, NEW S,
         0 \in S, \A a \in 0..n : a > 0 /\ a - 1 \in S => a \in S
  PROVE  \A a \in 0..n : a \in S
<1> DEFINE T == {a \in 0..n : a \notin S}
<1>1. SUFFICES ASSUME T # {} PROVE FALSE
  OBVIOUS
<1>2. PICK a \in T : \A m \in T : a <= m
  <2>1. T \subseteq Nat
    OBVIOUS
  <2> QED BY <1>1, <2>1, LeastNat
<1>3. a \in 0..n /\ a > 0 /\ a - 1 \in 0..n
  BY <1>2
<1>4. a - 1 \in S
  BY <1>2, <1>3
<1> QED BY <1>2, <1>3, <1>4
=============================================================================

------------------------------ MODULE Windows ------------------------------
(***************************************************************************)
(* What happened in the last ticks, by age: f[a] is how much happened a    *)
(* ticks ago, for a in 0..n.  The specifications keep such records apart   *)
(* from the code's own windows, to say what those let through.             *)
(***************************************************************************)
EXTENDS Naturals

\* At each age, what happened since.
RunningTotal(f) ==
  LET total[a \in DOMAIN f] == f[a] + (IF a = 0 THEN 0 ELSE total[a - 1]) IN total

SumTo(f, n) == RunningTotal(f)[n]

\* Nothing has happened in the tick that begins, and the oldest is forgotten.
ATickLater(f) == [a \in DOMAIN f |-> IF a = 0 THEN 0 ELSE f[a - 1]]
=============================================================================

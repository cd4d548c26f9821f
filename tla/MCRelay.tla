------------------------------- MODULE MCRelay -------------------------------
(***************************************************************************)
(* Small instances of Relay for TLC.                                       *)
(***************************************************************************)
EXTENDS Relay, TLC

\* Interchangeable model values.
MCSymmetry == Permutations(Conns) \cup Permutations(ClientIds)
              \cup Permutations(LobbyIds) \cup Permutations(Generations)
=============================================================================

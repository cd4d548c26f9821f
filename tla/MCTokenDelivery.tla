--------------------------- MODULE MCTokenDelivery ---------------------------
(***************************************************************************)
(* Small instances of TokenDelivery for TLC.  Each connection registers    *)
(* once, which bounds epochs and lobby creations.                          *)
(***************************************************************************)
EXTENDS TokenDelivery, TLC

\* Interchangeable model values (safety runs only).
MCSymmetry == Permutations(Conns) \cup Permutations(ClientIds)
=============================================================================

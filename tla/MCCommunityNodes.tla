--------------------------- MODULE MCCommunityNodes ---------------------------
(***************************************************************************)
(* Small instances of CommunityNodes for TLC.                              *)
(***************************************************************************)
EXTENDS CommunityNodes, TLC

MCSymmetry == Permutations(Nodes) \cup Permutations(Submitters)
=============================================================================

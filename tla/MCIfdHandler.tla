---------------------------- MODULE MCIfdHandler ----------------------------
(* IfdHandler for a few LUNs.                                              *)
EXTENDS IfdHandler, TLC

Symmetry == Permutations(Luns) \cup Permutations(Names \ {NoName})
=============================================================================

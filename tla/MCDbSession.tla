---------------------------- MODULE MCDbSession ----------------------------
(***************************************************************************)
(* DbSession for TLC.                                                      *)
(***************************************************************************)
EXTENDS DbSession, TLC

Symmetry == Permutations(Sessions) \cup Permutations(Conns)
============================================================================

------------------------------- MODULE MCKeys -------------------------------
(* An instance of LocalKeys for TLC. *)
EXTENDS LocalKeys

(* The random sources whose bytes are accepted as a BLS secret. *)
MCInRange == {<<"rng", 0>>, <<"det", 32>>}
=============================================================================

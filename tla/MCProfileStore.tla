--------------------------- MODULE MCProfileStore ---------------------------
(***************************************************************************)
(* Finite instances of ProfileStore.                                       *)
(***************************************************************************)
EXTENDS ProfileStore, TLC

\* Instances and store keys are interchangeable; profile names are too.
Symmetry == Permutations(Instances) \cup Permutations(StoreKeys) \cup Permutations(Names)
============================================================================

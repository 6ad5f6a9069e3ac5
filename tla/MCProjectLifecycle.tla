------------------------- MODULE MCProjectLifecycle -------------------------
(***************************************************************************)
(* Constants of ProjectLifecycle for TLC.                                  *)
(***************************************************************************)
EXTENDS ProjectLifecycle

Symmetry == Permutations(Calls)
=============================================================================

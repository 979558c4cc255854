----------------------------- MODULE MCFrontCache -----------------------------
(* Small instances of FrontCache for TLC.                                  *)
EXTENDS FrontCache, TLC

Symmetry == Permutations(Builds)
===============================================================================

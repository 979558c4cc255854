------------------------------ MODULE MCObjCache ------------------------------
(* Small instances of ObjCache for TLC.                                    *)
EXTENDS ObjCache, TLC

Symmetry == Permutations(Builds)
===============================================================================

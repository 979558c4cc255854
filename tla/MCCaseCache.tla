------------------------------ MODULE MCCaseCache ------------------------------
(* Three cases: a and b carry a claim, and f reads the file p.             *)
EXTENDS CaseCache, TLC

CONSTANTS a, b, f, p

ReadsOfFile == a :> {} @@ b :> {} @@ f :> {p}
Symmetry == Permutations(Builds)
===============================================================================

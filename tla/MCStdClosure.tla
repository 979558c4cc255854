----------------------------- MODULE MCStdClosure -----------------------------
(* A library of two functions, two constants, an exported variable and one *)
(* that is exported by no function of the index.                           *)
EXTENDS StdClosure, TLC

CONSTANTS f1, f2, c1, c2, x1, x2

MCOwner == x1 :> f2 @@ x2 :> x2
===============================================================================

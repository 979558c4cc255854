------------------------------ MODULE MCLibCalls ------------------------------
(* Two host threads; a pool of small blocks, so that lists soon outgrow it. *)
EXTENDS LibCalls

CONSTANTS t1, t2
===============================================================================

------------------------------ MODULE MCChannels ------------------------------
(* Three threads, one usable slot, rings of one and two cells.            *)
EXTENDS Channels

CONSTANTS main, w1, w2
===============================================================================

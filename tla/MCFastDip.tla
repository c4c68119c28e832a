------------------------------ MODULE MCFastDip ------------------------------
(* Names the tokens of the instances. *)
EXTENDS FastDip

CONSTANTS t1, t2
=============================================================================

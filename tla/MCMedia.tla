------------------------------- MODULE MCMedia -------------------------------
(* TLC instances of Media. *)
EXTENDS Media

CONSTANTS t1, t2, c1, c2
=============================================================================

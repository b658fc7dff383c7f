------------------------------ MODULE MCBudget ------------------------------
(***************************************************************************)
(* TLC instance of Budget: days of two ticks, so that a reservation, open  *)
(* for one, can cross midnight, and one day of retention, so that the      *)
(* third day prunes the first.                                             *)
(***************************************************************************)
EXTENDS Budget

MCDayOf == [t \in 0..MaxNow |-> t \div 2]
=============================================================================

----------------------------- MODULE MCCheckout -----------------------------
(* TLC instances of Checkout.                                               *)
EXTENDS Checkout, TLC

Symmetry == Permutations(Workers) \cup Permutations(Mints)

\* Bound: one thing goes wrong in a behaviour.
OneMishap == faults + crashes + dups <= 1
=============================================================================

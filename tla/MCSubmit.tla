------------------------------ MODULE MCSubmit ------------------------------
(* One customer: a draft submitted twice, and another draft of theirs. *)
EXTENDS Submit, TLC

CONSTANTS d1, d2, r1, r2, r3, ip, mail

MCDraftOf == (r1 :> d1) @@ (r2 :> d1) @@ (r3 :> d2)
MCSubjectsOf == [r \in Requests |-> IF r = r3 THEN <<mail>> ELSE <<ip, mail>>]
MCPerDay == [s \in Subjects |-> IF s = ip THEN 1 ELSE 2]
MCLifetime == [s \in Subjects |-> IF s = ip THEN 0 ELSE 2]
MCCandidates == <<"bakery", "bakery-2">>

Symmetry == Permutations({r1, r2})
=============================================================================

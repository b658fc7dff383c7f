------------------------------ MODULE MCMirror ------------------------------
(* TLC instances of Mirror: a trial that converts, fails to pay, recovers   *)
(* or is cancelled, over a handful of events.                               *)
EXTENDS Mirror, TLC

MCMoves == {<<"trialing", "active">>, <<"trialing", "past_due">>, <<"trialing", "canceled">>,
            <<"active", "past_due">>, <<"active", "paused">>, <<"paused", "active">>,
            <<"past_due", "active">>, <<"past_due", "unpaid">>, <<"active", "canceled">>,
            <<"past_due", "canceled">>, <<"unpaid", "canceled">>, <<"active", "active">>}

Symmetry == Permutations(Handlers)
=============================================================================

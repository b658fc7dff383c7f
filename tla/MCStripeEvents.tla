--------------------------- MODULE MCStripeEvents ---------------------------
(* TLC instances of StripeEvents: two or three invocations over one or two  *)
(* events, with one event of the wrong livemode.                            *)
EXTENDS StripeEvents
=============================================================================

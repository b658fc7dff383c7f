-------------------------------- MODULE Run --------------------------------
(***************************************************************************)
(* What a generation run promises to whoever reads its job row: it is      *)
(* claimed once, builds, goes public, and ends once, in success only after *)
(* the website is public on all its hosts.                                 *)
(***************************************************************************)
VARIABLES
  status,  \* the status of the job row
  live     \* every host of the site is routed to the version of the job

vars == <<status, live>>

Closed == {"succeeded", "failed", "timed_out"}

Init == status = "queued" /\ live = FALSE

Claim == status = "queued" /\ status' = "running" /\ UNCHANGED live

Build == status = "running" /\ status' = "streaming" /\ UNCHANGED live

GoLive == status = "streaming" /\ ~ live /\ live' = TRUE /\ UNCHANGED status

Succeed == status = "streaming" /\ live /\ status' = "succeeded" /\ UNCHANGED live

Fail ==
  /\ status \notin Closed
  /\ status' \in {"failed", "timed_out"}
  /\ UNCHANGED live

Next == Claim \/ Build \/ GoLive \/ Succeed \/ Fail
Spec == Init /\ [][Next]_vars
=============================================================================

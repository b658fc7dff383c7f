---------------------------- MODULE StripeEvents ----------------------------
(***************************************************************************)
(* The webhook's event ledger (apps/billing/src/webhook/dispatch.ts,       *)
(* events.ts and the stripe_events statements of                           *)
(* packages/db/src/cp/billing.ts): record, claim, handle, then complete,   *)
(* fail or skip.  A handler here is one abstract step with an outcome; the *)
(* modules that model real handlers refine that step.                      *)
(*                                                                         *)
(* Each D1 statement is one step, because invocations of the Worker run    *)
(* concurrently between them.  An invocation can be lost at any step: an   *)
(* exception outside the try, an eviction, or Stripe closing the           *)
(* connection at its 30-second timeout.  Abstracted: attempts, last_error, *)
(* org_id and the archive in R2, which no statement's guard reads.         *)
(***************************************************************************)
EXTENDS Naturals

CONSTANTS
  Workers,       \* concurrent invocations of the Worker
  Events,        \* Stripe event ids
  Foreign,       \* events whose livemode is not this deployment's
  Outcomes,      \* how a handler may end: a subset of {"ok", "skip", "throw"}
  MaxCrashes,    \* bound on lost invocations
  MaxDuplicates, \* bound on deliveries Stripe did not owe
  None

ASSUME ForeignAssumption == Foreign \subseteq Events
ASSUME OutcomesAssumption == Outcomes \subseteq {"ok", "skip", "throw"}
ASSUME BoundsAssumption == MaxCrashes \in Nat /\ MaxDuplicates \in Nat
ASSUME NoneAssumption == None \notin Workers \cup Events

VARIABLES
  ledger,    \* stripe_events: status, claim_token, and whether the claim lives
  worker,    \* each invocation: where it is, its event, its handler's outcome
  acked,     \* events Stripe has had a 200 for
  lapsed,    \* invocations at work on a claim that has expired
  crashes, dups

vars == <<ledger, worker, acked, lapsed, crashes, dups>>

Statuses == {"absent", "received", "processing", "processed", "failed", "skipped"}

Idle == [pc |-> "idle", event |-> None, outcome |-> None]

Working(w) == worker[w].pc \in {"handle", "finish"}

SetStatus(e, s) ==
  ledger' = [ledger EXCEPT ![e] = [status |-> s, holder |-> None, live |-> FALSE]]

----------------------------------------------------------------------------
\* recordEvent(): insert, or leave the row that is there.
Record(w, e) ==
  /\ worker[w] = Idle
  /\ IF ledger[e].status = "absent"
     THEN SetStatus(e, IF e \in Foreign THEN "skipped" ELSE "received")
     ELSE UNCHANGED ledger
  /\ IF e \in Foreign
     THEN acked' = acked \cup {e} /\ UNCHANGED worker
     ELSE worker' = [worker EXCEPT ![w] = [pc |-> "claim", event |-> e, outcome |-> None]]
          /\ UNCHANGED acked
  /\ UNCHANGED <<lapsed, crashes>>

\* What Stripe owes: the first delivery, and a retry while no 200 was seen.  Its
\* first retry comes five minutes later: long after CLAIM_TTL_MS (events.ts:19-21)
\* and after the statement or two that lead up to a claim.
Deliver(w, e) ==
  /\ e \notin acked
  /\ ~ ledger[e].live
  /\ \A v \in Workers : ~ (worker[v].pc = "claim" /\ worker[v].event = e)
  /\ UNCHANGED dups
  /\ Record(w, e)

\* A delivery on top of those: at-least-once, or a resend from the Dashboard.
Duplicate(w, e) ==
  /\ ledger[e].status # "absent"
  /\ dups < MaxDuplicates
  /\ dups' = dups + 1
  /\ Record(w, e)

\* Mutant: an expired claim is never taken over.
ClaimableOnce(e) == ledger[e].status \in {"received", "failed"}

Claimable(e) ==
  \/ ledger[e].status \in {"received", "failed"}
  \/ ledger[e].status = "processing" /\ ~ ledger[e].live

Claim(w) ==
  LET e == worker[w].event IN
  /\ worker[w].pc = "claim"
  /\ Claimable(e)
  /\ ledger' = [ledger EXCEPT ![e] = [status |-> "processing", holder |-> w, live |-> TRUE]]
  /\ worker' = [worker EXCEPT ![w].pc = "handle"]
  /\ UNCHANGED <<acked, lapsed, crashes, dups>>

\* A lost claim answers 200 with no side effect.
ClaimLost(w) ==
  /\ worker[w].pc = "claim"
  /\ ~ Claimable(worker[w].event)
  /\ worker' = [worker EXCEPT ![w] = Idle]
  /\ acked' = acked \cup {worker[w].event}
  /\ UNCHANGED <<ledger, lapsed, crashes, dups>>

\* CLAIM_TTL_MS passes: claim_expires_at < now from here on.
Expire(e) ==
  /\ ledger[e].live
  /\ ledger' = [ledger EXCEPT ![e].live = FALSE]
  /\ lapsed' = lapsed \cup {w \in Workers : /\ ledger[e].holder = w
                                           /\ Working(w) /\ worker[w].event = e}
  /\ UNCHANGED <<worker, acked, crashes, dups>>

Handle(w, o) ==
  /\ worker[w].pc = "handle"
  /\ worker' = [worker EXCEPT ![w].pc = "finish", ![w].outcome = o]
  /\ UNCHANGED <<ledger, acked, lapsed, crashes, dups>>

\* Mutant: the claim token is not matched.
IfAny(w, s) == SetStatus(worker[w].event, s)

\* completeEvent() and failEvent() match the claim token; zero rows is ignored.
IfHolder(w, s) ==
  LET e == worker[w].event IN
  IF ledger[e].holder = w THEN SetStatus(e, s) ELSE UNCHANGED ledger

\* skipEvent() matches the event id alone, unless it is processed.
Skip(e) ==
  IF ledger[e].status # "processed" THEN SetStatus(e, "skipped") ELSE UNCHANGED ledger

Finish(w) ==
  LET e == worker[w].event IN
  /\ worker[w].pc = "finish"
  /\ CASE worker[w].outcome = "ok"    -> IfHolder(w, "processed") /\ acked' = acked \cup {e}
       [] worker[w].outcome = "skip"  -> Skip(e) /\ acked' = acked \cup {e}
       [] worker[w].outcome = "throw" -> IfHolder(w, "failed") /\ UNCHANGED acked
  /\ worker' = [worker EXCEPT ![w] = Idle]
  /\ lapsed' = lapsed \ {w}
  /\ UNCHANGED <<crashes, dups>>

\* The invocation is lost: no 200, and the claim stays where it is.
Crash(w) ==
  /\ worker[w] # Idle
  /\ crashes < MaxCrashes
  /\ crashes' = crashes + 1
  /\ worker' = [worker EXCEPT ![w] = Idle]
  /\ lapsed' = lapsed \ {w}
  /\ UNCHANGED <<ledger, acked, dups>>

Init ==
  /\ ledger = [e \in Events |-> [status |-> "absent", holder |-> None, live |-> FALSE]]
  /\ worker = [w \in Workers |-> Idle]
  /\ acked = {}
  /\ lapsed = {}
  /\ crashes = 0
  /\ dups = 0

Next ==
  \/ \E w \in Workers, e \in Events : Deliver(w, e) \/ Duplicate(w, e)
  \/ \E w \in Workers : Claim(w) \/ ClaimLost(w) \/ Finish(w) \/ Crash(w)
  \/ \E w \in Workers, o \in Outcomes : Handle(w, o)
  \/ \E e \in Events : Expire(e)

Spec == Init /\ [][Next]_vars

\* Stripe keeps delivering what it has no 200 for, claims age, and an
\* invocation that is not lost runs on; a handler that can succeed does not
\* throw for ever.
Fairness ==
  /\ \A e \in Events : SF_vars(\E w \in Workers : Deliver(w, e)) /\ WF_vars(Expire(e))
  /\ \A w \in Workers : /\ WF_vars(Claim(w) \/ ClaimLost(w) \/ Finish(w))
                        /\ WF_vars(\E o \in Outcomes : Handle(w, o))
                        /\ SF_vars(Handle(w, "ok"))

FairSpec == Spec /\ Fairness

----------------------------------------------------------------------------
TypeOK ==
  /\ ledger \in [Events -> [status: Statuses, holder: Workers \cup {None}, live: BOOLEAN]]
  /\ worker \in [Workers -> [pc: {"idle", "claim", "handle", "finish"},
                             event: Events \cup {None},
                             outcome: {"ok", "skip", "throw"} \cup {None}]]
  /\ acked \subseteq Events
  /\ lapsed \subseteq Workers
  /\ crashes \in 0..MaxCrashes
  /\ dups \in 0..MaxDuplicates

\* Two invocations run the handler of one event at once only if the claim of
\* one of them has expired: a redelivery never doubles a live handler.
OverlapNeedsLapse ==
  \A v, w \in Workers :
    v # w /\ Working(v) /\ Working(w) /\ worker[v].event = worker[w].event
      => v \in lapsed \/ w \in lapsed

\* A claim that has not expired is worth its event: the row is still its
\* holder's, or a stale peer's skip has settled it; never a third invocation's.
ClaimStands ==
  \A w \in Workers : Working(w) /\ w \notin lapsed =>
    LET r == ledger[worker[w].event] IN
      \/ r.status = "processing" /\ r.holder = w /\ r.live
      \/ r.status = "skipped"

\* A processed or skipped event is never claimed, run or re-labelled again, so
\* a stale invocation cannot re-open finished work.
SettledIsFinal ==
  [][\A e \in Events : ledger[e].status \in {"processed", "skipped"} =>
       ledger'[e] = ledger[e]]_vars

\* No invocation outlives its claim.
Prompt == \A w \in Workers : Working(w) => w \notin lapsed

\* Whatever is lost, every event ends processed or skipped, if handlers outpace
\* their claims and Stripe sends nothing it does not owe: its retries re-claim
\* what a lost invocation left behind.
EventsSettleWhenPrompt ==
  [](Prompt /\ dups = 0) =>
    \A e \in Events : <>(ledger[e].status \in {"processed", "skipped"})

\* Every event Stripe sends ends processed or skipped, if not by a redelivery
\* then by the reconciliation cron.
EventsSettle ==
  \A e \in Events : <>(ledger[e].status \in {"processed", "skipped"})
=============================================================================

------------------------------- MODULE Mirror -------------------------------
(***************************************************************************)
(* What the webhook keeps of one Stripe subscription: the mirrored row and *)
(* the organisation's entitlement, written as one batch by every handler   *)
(* that re-reads the subscription (packages/db/src/cp/subscriptions.ts,    *)
(* orgs.ts; apps/billing/src/webhook/handlers/subscription.ts, invoice.ts, *)
(* risk.ts; apps/billing/src/entitlement.ts).                              *)
(*                                                                         *)
(* A handler reads the subscription from Stripe, awaits, and writes: two   *)
(* steps that other handlers and Stripe itself come between.  Which event  *)
(* runs next is Stripe's choice: deliveries are not ordered.  Only the     *)
(* completed session names its organisation: every other event finds it by *)
(* the customer row which that session's batch writes, and is skipped for  *)
(* good while there is none (context.ts).  The ledger (StripeEvents) is    *)
(* reduced to what it promises here: a done event is not run again, and no *)
(* two live handlers share one.                                            *)
(*                                                                         *)
(* Abstracted: amounts, periods and deadlines; the statuses are those the  *)
(* entitlement decision tells apart.                                       *)
(***************************************************************************)
EXTENDS Naturals, Sequences

CONSTANTS
  Handlers,    \* concurrent handlers
  Moves,      \* the status changes Stripe may make, as pairs
  MaxEvents,  \* bound on events Stripe sends
  MaxSecond,  \* bound on the clock event.created is read from
  MaxLost,    \* bound on handlers that throw or are lost before they write
  Disputes,   \* whether a charge may be disputed
  Null

SubscriptionStatuses == {"trialing", "active", "past_due", "unpaid", "paused", "canceled"}

ASSUME MovesAssumption == Moves \subseteq SubscriptionStatuses \X SubscriptionStatuses
ASSUME MirrorBounds ==
  MaxEvents \in Nat /\ MaxSecond \in Nat /\ MaxLost \in Nat /\ Disputes \in BOOLEAN
ASSUME MirrorNull == Null \notin SubscriptionStatuses

VARIABLES
  second,    \* Stripe's clock, in event.created's resolution
  status,    \* Stripe: the subscription's status
  dispute,   \* Stripe: "none", "open", "won" or "lost"
  sent,      \* the events Stripe has created, in order
  done,      \* the events the ledger has as processed or skipped
  skipped,   \* those skipped as org_unresolved
  work,      \* each handler: its next step, its event, what it read
  row,       \* subscriptions: status and stripe_updated_at; with it, the customer row
  entitlement, \* organisations.entitlement
  suspended, \* sites.status = 'suspended', index_state = 'gone'
  overlapped,  \* history: two handlers have been at work at once
  missed,    \* history: an event was skipped between the re-read and the batch
             \* of the completed session's handler
  lost

mirrorVars == <<second, status, dispute, sent, done, skipped, work, row, entitlement,
                suspended, overlapped, missed, lost>>

stored == <<row, entitlement, suspended>>
settled == <<done, skipped, missed>>

Resting == [pc |-> "rest", event |-> 0, seen |-> Null]

Create(kind) == sent' = Append(sent, [kind |-> kind, at |-> second])

----------------------------------------------------------------------------
\* Stripe (external).

Change(to) ==
  /\ <<status, to>> \in Moves
  /\ Len(sent) < MaxEvents
  /\ status' = to
  /\ Create("subscription")
  /\ UNCHANGED <<second, dispute, settled, work, stored, overlapped, lost>>

Dispute(to) ==
  /\ Disputes
  /\ <<dispute, to>> \in {<<"none", "open">>, <<"open", "won">>, <<"open", "lost">>}
  /\ Len(sent) < MaxEvents
  /\ dispute' = to
  /\ Create(to)
  /\ UNCHANGED <<second, status, settled, work, stored, overlapped, lost>>

NextSecond ==
  /\ second < MaxSecond
  /\ second' = second + 1
  /\ UNCHANGED <<status, dispute, sent, settled, work, stored, overlapped, lost>>

----------------------------------------------------------------------------
\* The handlers.

FirstStep(n) == IF sent[n].kind = "completed" THEN "read" ELSE "resolve"

Start(w, n) ==
  /\ work[w] = Resting
  /\ n \in DOMAIN sent \ done
  /\ \A v \in Handlers : work[v].event # n
  /\ work' = [work EXCEPT ![w] = [pc |-> FirstStep(n), event |-> n, seen |-> Null]]
  /\ overlapped' = (overlapped \/ \E v \in Handlers : work[v] # Resting)
  /\ UNCHANGED <<second, status, dispute, sent, settled, stored, lost>>

\* The customer row is written with the first subscription row, in one batch.
Mapped == row.status # Null

\* The completed session's handler has re-read the subscription and not written it.
Completing == \E v \in Handlers : work[v].pc = "write" /\ sent[work[v].event].kind = "completed"

\* resolveOrganisation(), then dispute.created and a lost dispute write without
\* reading the subscription.
Resolve(w) ==
  /\ work[w].pc = "resolve"
  /\ Mapped
  /\ work' = [work EXCEPT ![w].pc =
       IF sent[work[w].event].kind \in {"subscription", "won"} THEN "read" ELSE "write"]
  /\ UNCHANGED <<second, status, dispute, sent, settled, stored, overlapped, lost>>

\* org_unresolved: a skip, which no redelivery takes back.
Unresolved(w) ==
  /\ work[w].pc = "resolve"
  /\ ~Mapped
  /\ done' = done \cup {work[w].event}
  /\ skipped' = skipped \cup {work[w].event}
  /\ missed' = (missed \/ Completing)
  /\ work' = [work EXCEPT ![w] = Resting]
  /\ UNCHANGED <<second, status, dispute, sent, stored, overlapped, lost>>

\* subscriptions.retrieve(); dispute.closed(won) first asks the mirror whether
\* there is a live subscription to re-read.
Live == {"trialing", "active", "past_due", "unpaid", "paused"}

Read(w) ==
  /\ work[w].pc = "read"
  /\ work' = [work EXCEPT ![w].pc = "write", ![w].seen =
       IF sent[work[w].event].kind # "won" \/ row.status \in Live
       THEN status ELSE Null]
  /\ UNCHANGED <<second, status, dispute, sent, settled, stored, overlapped, lost>>

decideEntitlement(s) ==
  CASE s = "trialing" -> "trialing"
    [] s = "active" -> "active"
    [] s \in {"past_due", "unpaid"} -> "past_due"
    [] s \in {"paused", "canceled"} -> "canceled"

\* Mutant: the upsert has no ordering guard.
UpsertedLast(s, at) == [status |-> s, at |-> at]

\* SQL_UPSERT_SUBSCRIPTION and its ordering guard.
Upserted(s, at) ==
  IF row.status = Null \/ at >= row.at THEN [status |-> s, at |-> at] ELSE row

\* subscriptionAndEntitlementStatements(): the pair, the entitlement unguarded.
WritePair(s, at) ==
  IF s = Null THEN UNCHANGED <<row, entitlement>>
  ELSE row' = Upserted(s, at) /\ entitlement' = decideEntitlement(s)

Write(w) ==
  LET e == sent[work[w].event] IN
  /\ work[w].pc = "write"
  /\ CASE e.kind \in {"subscription", "completed"} ->
            WritePair(work[w].seen, e.at) /\ UNCHANGED suspended
       [] e.kind = "won" ->
            WritePair(work[w].seen, e.at) /\ suspended' = FALSE
       [] e.kind = "open" ->
            entitlement' = "canceled" /\ suspended' = TRUE /\ UNCHANGED row
       [] e.kind = "lost" -> UNCHANGED <<row, entitlement, suspended>>
  /\ done' = done \cup {work[w].event}
  /\ work' = [work EXCEPT ![w] = Resting]
  /\ UNCHANGED <<second, status, dispute, sent, skipped, missed, overlapped, lost>>

\* Mutant: a handler that throws answers 200.
LoseForGood(w) ==
  /\ work[w] # Resting
  /\ lost < MaxLost
  /\ lost' = lost + 1
  /\ done' = done \cup {work[w].event}
  /\ work' = [work EXCEPT ![w] = Resting]
  /\ UNCHANGED <<second, status, dispute, sent, skipped, missed, stored, overlapped>>

\* The handler throws or is lost; the event stays for a retry.
Lose(w) ==
  /\ work[w] # Resting
  /\ lost < MaxLost
  /\ lost' = lost + 1
  /\ work' = [work EXCEPT ![w] = Resting]
  /\ UNCHANGED <<second, status, dispute, sent, settled, stored, overlapped>>

\* The session has been completed and its subscription starts as a trial: both of
\* their events are on the way.
MirrorInit ==
  /\ second \in 0..1 \cap 0..MaxSecond
  /\ status = "trialing"
  /\ dispute = "none"
  /\ sent = <<[kind |-> "subscription", at |-> 0], [kind |-> "completed", at |-> second]>>
  /\ done = {} /\ skipped = {} /\ missed = FALSE
  /\ work = [w \in Handlers |-> Resting]
  /\ row = [status |-> Null, at |-> 0]
  /\ entitlement = "none"
  /\ suspended = FALSE
  /\ overlapped = FALSE
  /\ lost = 0

MirrorNext ==
  \/ \E s \in SubscriptionStatuses : Change(s)
  \/ \E d \in {"open", "won", "lost"} : Dispute(d)
  \/ NextSecond
  \/ \E w \in Handlers, n \in 1..MaxEvents : Start(w, n)
  \/ \E w \in Handlers : Resolve(w) \/ Unresolved(w) \/ Read(w) \/ Write(w) \/ Lose(w)

MirrorSpec == MirrorInit /\ [][MirrorNext]_mirrorVars

----------------------------------------------------------------------------
MirrorTypeOK ==
  /\ second \in 0..MaxSecond
  /\ status \in SubscriptionStatuses
  /\ dispute \in {"none", "open", "won", "lost"}
  /\ sent \in Seq([kind: {"subscription", "completed", "open", "won", "lost"}, at: 0..MaxSecond])
  /\ done \subseteq DOMAIN sent /\ skipped \subseteq done
  /\ work \in [Handlers -> [pc: {"rest", "resolve", "read", "write"}, event: 0..MaxEvents,
                           seen: SubscriptionStatuses \cup {Null}]]
  /\ row \in [status: SubscriptionStatuses \cup {Null}, at: 0..MaxSecond]
  /\ entitlement \in {"none", "trialing", "active", "past_due", "canceled"}
  /\ suspended \in BOOLEAN
  /\ overlapped \in BOOLEAN /\ missed \in BOOLEAN
  /\ lost \in 0..MaxLost

\* Every event Stripe created has been handled.
Quiet == done = DOMAIN sent

\* No two events were created in the same second.
DistinctSeconds == \A m, n \in DOMAIN sent : sent[m].at = sent[n].at => m = n

\* However deliveries are ordered and handlers overlap, the mirrored row ends
\* as the subscription Stripe has, if no two events share a second: events skipped
\* for want of the customer row are made up for by the completed session's re-read,
\* unless they come between it and its batch.
RowConverges == Quiet /\ DistinctSeconds /\ ~missed => row.status = status

\* When no two handlers overlapped, the entitlement ends as the one the
\* subscription implies, whatever order the events were delivered in.
EntitlementConverges ==
  Quiet /\ ~overlapped /\ dispute = "none" => entitlement = decideEntitlement(status)

\* The entitlement and the mirrored row never come to rest in disagreement.
PairAgrees ==
  Quiet /\ DistinctSeconds /\ dispute = "none" => entitlement = decideEntitlement(row.status)

\* A site whose charge is disputed, or was lost, comes to rest suspended, whatever
\* the retries and whatever other events were handled around the dispute's, once the
\* dispute's event found its organisation.
DisputeSuspends ==
  Quiet /\ dispute \in {"open", "lost"} /\ (\A n \in skipped : sent[n].kind # "open")
    => suspended
=============================================================================

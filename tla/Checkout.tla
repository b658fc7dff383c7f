------------------------------ MODULE Checkout ------------------------------
(***************************************************************************)
(* From submit to dispatch: how one trial-first job gets its Checkout      *)
(* Session, and how Stripe's events pay, abandon and release it.           *)
(*   apps/api/src/routes/submit.ts, billing.ts     mint and attach         *)
(*   apps/billing/src/webhook/handlers/*, jobs.ts  the webhook's handlers  *)
(*   apps/billing/src/checkout.ts, trials.ts       Stripe and the screen   *)
(*                                                                         *)
(* The ledger of the events is the module StripeEvents, whose variables    *)
(* these are; a handler is the steps between its Claim and its Handle,     *)
(* one step per D1 statement or Stripe call, since every one is an await.  *)
(*                                                                         *)
(* One job and one customer with one card.  Stripe names a session after   *)
(* the idempotency key cs:<job>:<attempt>, so a session is its attempt.    *)
(* Abstracted: e-mail, tax and card summaries, memberships, the site's     *)
(* index state (the batch that writes them is one step), and the           *)
(* subscription mirror.                                                    *)
(***************************************************************************)
EXTENDS Naturals, FiniteSets

CONSTANTS
  Workers, Foreign, Outcomes, MaxCrashes, MaxDuplicates, None, \* see StripeEvents
  Mints,       \* concurrent API requests that may mint a session
  MaxAttempts, \* MAX_CHECKOUT_ATTEMPTS
  Histories,   \* what earlier trials left on the card: of {"none", "used", "disputed"}
  MaxEvents,   \* bound on the events that are delivered
  MaxFaults    \* bound on throws, lost requests, failed reads and failed dispatches

ASSUME HandlerOutcomes == Outcomes = {"ok", "skip", "throw"}
ASSUME HistoriesAssumption == Histories \subseteq {"none", "used", "disputed"}
ASSUME AttemptsAssumption == MaxAttempts \in Nat \ {0} /\ MaxFaults \in Nat

Sessions == 1..MaxAttempts

\* checkout.session.completed, checkout.session.expired, and invoice.paid twice: the
\* zero invoice that opens a trial, and the one of the charge that ended it.
Events == {"completed", "expired", "opened", "invoice"} \X Sessions
Paid == {"opened", "invoice"}

VARIABLES
  ledger, worker, acked, lapsed, crashes, dups, \* the event ledger
  plan,    \* each invocation: its handler's next step, and the screen's verdict
  job,     \* generation_jobs: payment_state, checkout_session_id, checkout_attempts
  mint,    \* each API request: its next step, its attempt, the session it read
  known,   \* sessions whose URL a customer was given
  sess,    \* Stripe: the status of each session
  sub,     \* Stripe: the subscription of each completed session
  history, \* trial_grants left on this card by earlier organisations
  grant,   \* trial_grants: the row of each subscription
  run,     \* the generator has a Workflow instance for the job
  faults

Ledger == INSTANCE StripeEvents

events == <<ledger, worker, acked, lapsed, crashes, dups>>
stripe == <<sess, sub>>
vars == <<ledger, worker, acked, lapsed, crashes, dups, plan, job, mint, known,
          sess, sub, history, grant, run, faults>>

Fault == faults < MaxFaults /\ faults' = faults + 1

----------------------------------------------------------------------------
\* The API: submit mints attempt 1; a replay or POST /checkout/:jobId, the rest.

Resting == [pc |-> "idle", attempt |-> 0, read |-> None]

\* ensureCheckoutSession() on the row the route has just read; a paid job is
\* answered at once.
Replay(m) ==
  /\ mint[m] = Resting
  /\ job.pay # "paid"
  /\ mint' = [mint EXCEPT ![m] =
       [pc |-> IF job.session # None THEN "consult" ELSE "bump",
        attempt |-> job.attempts + 1, read |-> job.session]]
  /\ UNCHANGED <<events, plan, job, known, stripe, history, grant, run, faults>>

\* readCheckoutStatus(): an open session is handed out again; a complete or an
\* expired one, and a read that fails, lead to a new session.
Reuse(m) ==
  /\ mint[m].pc = "consult"
  /\ sess[mint[m].read] = "open"
  /\ mint' = [mint EXCEPT ![m] = Resting]
  /\ UNCHANGED <<events, plan, job, known, stripe, history, grant, run, faults>>

Supersede(m) ==
  /\ mint[m].pc = "consult"
  /\ IF sess[mint[m].read] = "open" THEN Fault ELSE UNCHANGED faults
  /\ mint' = [mint EXCEPT ![m] = [@ EXCEPT !.pc = "bump", !.read = None]]
  /\ UNCHANGED <<events, plan, job, known, stripe, history, grant, run>>

MayMint == job.attempts < MaxAttempts

\* Mutant: the mint is left to be counted later.
BumpLater(m) ==
  /\ mint[m].pc = "bump"
  /\ mint' = [mint EXCEPT ![m] = IF MayMint THEN [@ EXCEPT !.pc = "create"] ELSE Resting]
  /\ UNCHANGED <<events, plan, job, known, stripe, history, grant, run, faults>>

\* Every mint is counted before Stripe is called; the sixth is refused.
Bump(m) ==
  /\ mint[m].pc = "bump"
  /\ IF MayMint
     THEN /\ job' = [job EXCEPT !.attempts = @ + 1]
          /\ mint' = [mint EXCEPT ![m].pc = "create"]
     ELSE mint' = [mint EXCEPT ![m] = Resting] /\ UNCHANGED job
  /\ UNCHANGED <<events, plan, known, stripe, history, grant, run, faults>>

\* createCheckoutSession(): the e-mail screen, then Stripe, which answers a
\* repeated idempotency key with the session it already made.
Create(m) ==
  LET s == mint[m].attempt IN
  /\ mint[m].pc = "create"
  /\ IF \E t \in Sessions : grant[t] = "granted"
     THEN mint' = [mint EXCEPT ![m] = Resting] /\ UNCHANGED sess
     ELSE /\ mint' = [mint EXCEPT ![m].pc = "attach"]
          /\ sess' = IF sess[s] = "absent" THEN [sess EXCEPT ![s] = "open"] ELSE sess
  /\ UNCHANGED <<events, plan, job, known, sub, history, grant, run, faults>>

\* Mutant: the attach has no payment_state predicate.
AttachableAlways == {"awaiting", "abandoned", "paid"}

Attachable == {"awaiting", "abandoned"}

\* SQL_ATTACH_CHECKOUT_SESSION; the URL is answered only when it changed the row.
Attach(m) ==
  LET s == mint[m].attempt IN
  /\ mint[m].pc = "attach"
  /\ IF job.pay \in Attachable
     THEN /\ job' = [job EXCEPT !.pay = "awaiting", !.session = s]
          /\ known' = known \cup {s}
     ELSE UNCHANGED <<job, known>>
  /\ mint' = [mint EXCEPT ![m] = Resting]
  /\ UNCHANGED <<events, plan, stripe, history, grant, run, faults>>

\* The request is lost, or Stripe or the billing Worker is unavailable.
MintLost(m) ==
  /\ mint[m] # Resting
  /\ Fault
  /\ mint' = [mint EXCEPT ![m] = Resting]
  /\ UNCHANGED <<events, plan, job, known, stripe, history, grant, run>>

----------------------------------------------------------------------------
\* Stripe and the customer (external).

Pay(s) ==
  /\ sess[s] = "open" /\ s \in known
  /\ sess' = [sess EXCEPT ![s] = "complete"]
  /\ sub' = [sub EXCEPT ![s] = "trialing"]
  /\ UNCHANGED <<events, plan, job, mint, known, history, grant, run, faults>>

\* A session lives for SESSION_TTL_SECONDS: longer than the request that mints it.
ExpireSession(s) ==
  /\ sess[s] = "open"
  /\ \A m \in Mints : ~ (mint[m].pc = "attach" /\ mint[m].attempt = s)
  /\ sess' = [sess EXCEPT ![s] = "expired"]
  /\ UNCHANGED <<events, plan, job, mint, known, sub, history, grant, run, faults>>

\* The charge that ending a trial asked for succeeds or fails.
ChargeSettles(s, result) ==
  /\ sub[s] = "charging"
  /\ sub' = [sub EXCEPT ![s] = result]
  /\ UNCHANGED <<events, plan, job, mint, known, sess, history, grant, run, faults>>

Happened(e) ==
  \/ e[1] \in {"completed", "opened"} /\ sess[e[2]] = "complete"
  \/ e[1] = "expired" /\ sess[e[2]] = "expired"
  \/ e[1] = "invoice" /\ sub[e[2]] = "paid"

----------------------------------------------------------------------------
\* The ledger's steps around a handler.

NoPlan == [at |-> "rest", verdict |-> None]
rest == <<job, mint, known, stripe, history, grant, run>>

Delivered == {e \in Events : ledger[e].status # "absent"}

DeliverEvent(w, e) ==
  /\ Happened(e)
  /\ ledger[e].status = "absent" => Cardinality(Delivered) < MaxEvents
  /\ Ledger!Deliver(w, e) \/ Ledger!Duplicate(w, e)
  /\ UNCHANGED <<plan, rest, faults>>

FirstStep(e) == CASE e[1] = "completed" -> "lookup"
                  [] e[1] = "expired"   -> "abandon"
                  [] e[1] \in Paid      -> "resolve"

ClaimEvent(w) ==
  /\ Ledger!Claim(w)
  /\ plan' = [plan EXCEPT ![w] = [at |-> FirstStep(worker[w].event), verdict |-> None]]
  /\ UNCHANGED <<rest, faults>>

LoseClaim(w) == Ledger!ClaimLost(w) /\ UNCHANGED <<plan, rest, faults>>

ExpireClaim(e) == Ledger!Expire(e) /\ UNCHANGED <<plan, rest, faults>>

FinishEvent(w) == Ledger!Finish(w) /\ UNCHANGED <<plan, rest, faults>>

CrashEvent(w) ==
  /\ Ledger!Crash(w)
  /\ plan' = [plan EXCEPT ![w] = NoPlan]
  /\ UNCHANGED <<rest, faults>>

\* The handler returns, skips or throws.
End(w, o) ==
  /\ Ledger!Handle(w, o)
  /\ plan' = [plan EXCEPT ![w] = NoPlan]

Goto(w, step) ==
  /\ plan' = [plan EXCEPT ![w].at = step]
  /\ UNCHANGED events

\* Any await of a handler may reject; dispatchEvent() catches it as a throw.
Throw(w) ==
  /\ plan[w] # NoPlan
  /\ Fault
  /\ End(w, "throw")
  /\ UNCHANGED rest

----------------------------------------------------------------------------
\* handleCheckoutCompleted()

This(w) == worker[w].event[2]

\* Mutant: the job is found by its organisation alone.
FindsJobOfCustomer(w) == job.pay = "awaiting"

\* getJobByCheckoutSession()
FindsJob(w) == job.session = This(w)

\* gatherFacts(): the job is found by its checkout_session_id or not at all.
Lookup(w) ==
  /\ plan[w].at = "lookup"
  /\ IF FindsJob(w) THEN Goto(w, "screen") ELSE End(w, "skip")
  /\ UNCHANGED <<rest, faults>>

\* Mutant: the card lookup screens on the outcomes the e-mail lookup screens on.
PriorTrialOfEmail ==
  IF \E t \in Sessions : grant[t] = "granted" THEN "used"
  ELSE IF history = "disputed" THEN "none" ELSE history

\* findTrialByFingerprint(): the newest grant on this card that counts.
PriorTrial ==
  IF \E t \in Sessions : grant[t] = "granted" THEN "used" ELSE history

\* screenTrial(): the lookup, and what it asks of Stripe.
Screen(w) ==
  /\ plan[w].at = "screen"
  /\ plan' = [plan EXCEPT ![w] = [at |-> "batch", verdict |-> PriorTrial]]
  /\ sub' = [sub EXCEPT ![This(w)] =
       CASE PriorTrial = "disputed" -> "canceled"
         [] PriorTrial = "used" /\ @ = "trialing" -> "charging"
         [] OTHER -> @]
  /\ UNCHANGED <<events, job, mint, known, sess, history, grant, run, faults>>

\* The control-plane batch: customer, subscription, entitlement, trial grant
\* (ON CONFLICT DO NOTHING).  Only a trial goes on to release the job.
Batch(w) ==
  LET s == This(w) IN
  /\ plan[w].at = "batch"
  /\ grant' = IF grant[s] # "none" THEN grant
              ELSE [grant EXCEPT ![s] =
                      IF plan[w].verdict = "disputed" THEN "refused" ELSE "granted"]
  /\ IF plan[w].verdict = "none" THEN Goto(w, "release") ELSE End(w, "skip")
  /\ UNCHANGED <<job, mint, known, stripe, history, run, faults>>

\* releaseAndDispatch(): zero rows changed is not an error, and the dispatch
\* follows either way; a duplicate instance answers 409, which is success.
Release(w) ==
  /\ plan[w].at = "release"
  /\ job' = IF job.pay = "awaiting" THEN [job EXCEPT !.pay = "paid"] ELSE job
  /\ Goto(w, "dispatch")
  /\ UNCHANGED <<mint, known, stripe, history, grant, run, faults>>

Dispatch(w) ==
  /\ plan[w].at = "dispatch"
  /\ run' = TRUE
  /\ End(w, "ok")
  /\ UNCHANGED <<job, mint, known, stripe, history, grant, faults>>

\* The service binding fails: an alert is logged and the event completes.
DispatchFails(w) ==
  /\ plan[w].at = "dispatch"
  /\ Fault
  /\ End(w, "ok")
  /\ UNCHANGED rest

\* handleCheckoutExpired(), abandonCheckout()
Abandon(w) ==
  /\ plan[w].at = "abandon"
  /\ IF FindsJob(w)
     THEN /\ job' = IF job.pay = "awaiting"
                    THEN [job EXCEPT !.pay = "abandoned", !.session = None]
                    ELSE job
          /\ End(w, "ok")
     ELSE End(w, "skip") /\ UNCHANGED job
  /\ UNCHANGED <<mint, known, stripe, history, grant, run, faults>>

\* handleInvoicePaid(): the organisation is known by the customer row, which the
\* completed session's batch writes.
Resolve(w) ==
  /\ plan[w].at = "resolve"
  /\ IF grant[This(w)] = "none" THEN End(w, "skip") ELSE Goto(w, "convert")
  /\ UNCHANGED <<rest, faults>>

\* setTrialOutcome(): both invoices have a billing_reason that converts the grant,
\* whatever it was; a converted grant screens as a granted one does.
Convert(w) ==
  /\ plan[w].at = "convert"
  /\ grant' = [grant EXCEPT ![This(w)] = "granted"]
  /\ Goto(w, "find")
  /\ UNCHANGED <<job, mint, known, stripe, history, run, faults>>

\* findAwaitingPaymentJob(), whatever the invoice came to.
Find(w) ==
  /\ plan[w].at = "find"
  /\ IF job.pay = "awaiting" THEN Goto(w, "release") ELSE End(w, "ok")
  /\ UNCHANGED <<rest, faults>>

----------------------------------------------------------------------------
Init ==
  /\ Ledger!Init
  /\ plan = [w \in Workers |-> NoPlan]
  /\ job = [pay |-> "awaiting", session |-> None, attempts |-> 1]
  /\ \E submit \in Mints :
       mint = [m \in Mints |-> IF m = submit
                               THEN [pc |-> "create", attempt |-> 1, read |-> None]
                               ELSE Resting]
  /\ known = {}
  /\ sess = [s \in Sessions |-> "absent"]
  /\ sub = [s \in Sessions |-> "none"]
  /\ history \in Histories
  /\ grant = [s \in Sessions |-> "none"]
  /\ run = FALSE
  /\ faults = 0

API(m) == \/ Replay(m) \/ Reuse(m) \/ Supersede(m) \/ Bump(m)
          \/ Create(m) \/ Attach(m) \/ MintLost(m)

Stripe(s) == \/ Pay(s) \/ ExpireSession(s)
             \/ \E result \in {"paid", "unpaid"} : ChargeSettles(s, result)

Handler(w) == \/ Lookup(w) \/ Screen(w) \/ Batch(w) \/ Release(w) \/ Dispatch(w)
              \/ Abandon(w) \/ Resolve(w) \/ Convert(w) \/ Find(w)

Webhook(w) == \/ \E e \in Events : DeliverEvent(w, e)
              \/ ClaimEvent(w) \/ LoseClaim(w) \/ FinishEvent(w) \/ CrashEvent(w)
              \/ Handler(w) \/ Throw(w) \/ DispatchFails(w)

Next ==
  \/ \E m \in Mints : API(m)
  \/ \E s \in Sessions : Stripe(s)
  \/ \E w \in Workers : Webhook(w)
  \/ \E e \in Events : ExpireClaim(e)

Spec == Init /\ [][Next]_vars

\* Stripe delivers what it owes and settles its charges; a claim ages; an
\* invocation of the webhook that is not lost runs on.  Nobody is obliged to
\* pay, to come back, or to replay.
Fairness ==
  /\ \A e \in Events :
       /\ SF_vars(\E w \in Workers : DeliverEvent(w, e) /\ UNCHANGED dups)
       /\ WF_vars(ExpireClaim(e))
  /\ \A s \in Sessions :
       WF_vars(\E result \in {"paid", "unpaid"} : ChargeSettles(s, result))
  /\ \A w \in Workers :
       WF_vars(ClaimEvent(w) \/ LoseClaim(w) \/ FinishEvent(w) \/ Handler(w))

FairSpec == Spec /\ Fairness

----------------------------------------------------------------------------
TypeOK ==
  /\ plan \in [Workers -> [at: {"rest", "lookup", "screen", "batch", "release",
                                "dispatch", "abandon", "resolve", "convert", "find"},
                           verdict: {None, "none", "used", "disputed"}]]
  /\ job \in [pay: {"awaiting", "abandoned", "paid"}, session: Sessions \cup {None},
              attempts: 1..MaxAttempts]
  /\ mint \in [Mints -> [pc: {"idle", "consult", "bump", "create", "attach"},
                         attempt: 0..(MaxAttempts + 1), read: Sessions \cup {None}]]
  /\ known \subseteq Sessions
  /\ sess \in [Sessions -> {"absent", "open", "complete", "expired"}]
  /\ sub \in [Sessions -> {"none", "trialing", "charging", "paid", "unpaid", "canceled"}]
  /\ history \in Histories
  /\ grant \in [Sessions -> {"none", "granted", "refused"}]
  /\ run \in BOOLEAN
  /\ faults \in 0..MaxFaults

\* No model spend before the card is screened: a run exists only after a completed
\* session whose trial is in the ledger, and on a card that had one before, only on an
\* invoice.paid of that session, never on its completed event.
RunIsScreened ==
  run => \E s \in Sessions :
           /\ sess[s] = "complete" /\ grant[s] # "none"
           /\ history # "none" => \E kind \in Paid : ledger[<<kind, s>>].status # "absent"

\* "a failed charge spends nothing", "until then no Opus is spent" (checkout.ts): on a
\* card that had its trial, a run exists only after the charge went through.
RunIsEarned ==
  run /\ history # "none" => \E s \in Sessions : sub[s] = "paid"

\* The cap is a cap: every session Stripe ever made has cost the job an
\* attempt, whatever was lost between the create and the attach.
MintsAreCounted ==
  Cardinality({s \in Sessions : sess[s] # "absent"}) <= job.attempts

\* A paid job stays paid: no late expiry, replay or attach takes it back.
PaidIsFinal == [][job.pay = "paid" => job'.pay = "paid"]_vars

\* A job is abandoned only because the session it is waiting on has expired,
\* never by the late event of a session it has moved on from.
AbandonNeedsExpiry ==
  [][job.pay = "awaiting" /\ job'.pay = "abandoned"
       => job.session \in Sessions /\ sess[job.session] = "expired"]_vars

\* The job of a completed session is released.
CompletedIsReleased ==
  (\E s \in Sessions : sess[s] = "complete") ~> (job.pay = "paid" \/ history # "none")

\* The first trial on a card is never ended early.
FirstTrialIsFree ==
  history = "none" /\ Cardinality({s \in Sessions : sess[s] = "complete"}) = 1
    => \A s \in Sessions : sub[s] \in {"none", "trialing"}
=============================================================================

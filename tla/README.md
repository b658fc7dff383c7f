# A TLA+ model of aibuilder

aibuilder turns an onboarding questionnaire into a generated, hosted website with a
trial-first subscription. It is a set of Cloudflare Workers around D1 databases (one control
plane, several shards), Durable Objects, a Workflow, a Queue, KV and R2, with Stripe and a model
provider outside. Nearly every hard property of it is about two things: handlers that interleave
at their `await`s, and stores that share no transaction. That is what is modelled here.

The modules are written in plain TLA+, checked with TLC on small instances, and every safety property
that a passing run checks is proved with TLAPS for every value of the constants; one of them has a
hypothesis, which section 4 names. `PROJECT.json` maps each
definition to the source lines it stands for and lists the runs, the mutants, the hazards, the
theorems and the disagreements found between the code and its own comments.

## 1. Inventory

| Component | Source | State it keeps | Operations | Modelled by |
|---|---|---|---|---|
| Submit | `apps/api/src/routes/submit.ts`, `lib/quota.ts`, `lib/budget.ts` | drafts, sites, job rows; a request's compensations | quotas, budget, screen, slug, batch, shard insert, settle, replay | `Submit` |
| QuotaDO | `apps/generator/src/do/QuotaDO.ts` | a daily and a lifetime counter per subject | consume, release | `Quota` |
| BudgetDO | `apps/generator/src/do/BudgetDO.ts` | reservations, per-day counters, one alarm | reserve, settle, alarm (forced settle), prune | `Budget` |
| Photo uploads | `apps/api/src/routes/media.ts`, `apps/marketing/src/islands/hooks/useMediaUpload.ts`, `apps/generator/src/queue/` | `media_assets`, quarantine and media buckets, a queue | sign, put, commit, verify, promote, refuse | `Media` |
| Event ledger | `apps/billing/src/webhook/dispatch.ts`, `events.ts`, `packages/db/src/cp/billing.ts` | `stripe_events`: status, claim token, deadline | record, claim, complete, fail, skip | `StripeEvents` |
| Checkout funnel | `apps/api/src/routes/billing.ts`, `apps/billing/src/checkout.ts`, `jobs.ts`, `trials.ts`, `webhook/handlers/checkout.ts`, `invoice.ts` | `generation_jobs` payment columns, `trial_grants`, Stripe's sessions | mint, attach, replay, complete, screen, release, dispatch, abandon | `Checkout` |
| Subscription mirror | `apps/billing/src/webhook/handlers/subscription.ts`, `risk.ts`, `entitlement.ts`, `packages/db/src/cp/subscriptions.ts`, `orgs.ts` | `subscriptions`, `organisations.entitlement`, site suspension | re-read and upsert, dispute, restore | `Mirror` |
| Generation Workflow | `apps/generator/src/workflow.ts`, `retry.ts`, `ledger.ts`, `steps/` | memoised steps, job row, call ledger | the pipeline, guard, terminal handlers | `Generation` |
| Publish | `apps/generator/src/steps/publish.ts`, `packages/core/src/publish.ts`, `apps/renderer/src/serve.ts` | version rows, R2 objects, site row, KV manifests | render, project, seal, verify, flip; serve | `Publish` |
| JobHub and progress | `apps/generator/src/do/JobHub.ts`, `progress.ts`, `apps/api/src/routes/jobs.ts`, `apps/marketing/src/islands/hooks/useSSE.ts` | events log, subscribers and their cursors, one alarm; the modal's connection | append, stream, close, mirror, purge; connect, resume, poll | `JobHub` |
| SiteDraftDO | `apps/app/app/do/SiteDraftDO.ts`, `patch.ts` | document, revision, undo ring | initialise, reseed, apply, undo, redo | `Patch`, `SiteDraft` |
| Editor | `apps/app/app/components/editor/`, `routes/site.draft.tsx`, `site.editor.tsx` | per tab: document, revision, queue, timers | type, click, undo, redo, send, answer, discard | `Editor` |
| Onboarding draft | `apps/marketing/src/islands/hooks/useDraft.ts`, `OnboardingModal.tsx`, `apps/api/src/routes/drafts.ts`, `packages/db/src/cp/drafts.ts` | draft rows, the session cookie, `localStorage`; per tab: draft, dirty, timers, conflict | type, save, hydrate, resolve, restart, create, submit | `Autosave` |
| Claim, sign-in | `apps/api/src/routes/claim.ts`, `auth.ts`, `packages/auth/src/` | tokens, memberships | claim, magic links, passkeys | planned |
| Renderer's caches, media Worker | `apps/renderer/src/`, `apps/media/src/` | caches only | serve published versions | planned (cache keys) |
| Browser forms | `apps/marketing/src/`, `apps/app/app/routes/` | forms | fields, validation, dashboard | not modelled |
| Pure packages | `packages/core`, `packages/site-schema`, `packages/ai`, `packages/ui` | none | slugs, schemas, prompts | not modelled |

How they interact. The browser's tabs save the *onboarding draft* until one submits it. *Submit* counts quota
and reserves budget, claims the draft and a slug in one control-plane batch, inserts the job on the shard, and
mints the first Checkout Session. *Stripe* calls the webhook; the event ledger hands each event to at most one
live handler; `checkout.session.completed` screens the card, writes the control plane, releases the job on the
shard and dispatches the *Workflow*, whose instance id is the job id. The Workflow runs its memoised steps,
posts progress to a *JobHub* (one object per job), and *publishes*. Photos reach a run through the *media*
queue. Later subscription events keep the *mirror* and the entitlement that the app obeys. The owner edits the
site in browser tabs over one *SiteDraftDO*.

What is hard here:

- **Interleaving.** D1 statements are awaits; every handler runs concurrently with redeliveries of
  its own event, with other events of the same subscription and with API requests on the same job.
- **Partial failure.** Control plane, shard, KV, R2 and Stripe share no transaction.
- **Delivery.** Stripe delivers at least once and in no order; Queues and Workflows repeat; alarms
  are retried; a Durable Object or a Workflow can be evicted between any two steps.
- **Staleness.** What was read from Stripe, from a row or from a React render is used after an await.
- **Limits.** Daily caps, a lifetime cap on sessions, one alarm per object, a ring of undo entries,
  one-second timestamps, a change of UTC day.

Per component, what makes it correct:

- *Onboarding draft*: what a tab believes to be saved is saved; saves that overtake one another lose
  nothing; the site is built from what was submitted.
- *Submit, Quota*: a draft sells at most one job; a count is held by the submit that took it and by
  no other; no reservation outlives its request.
- *BudgetDO*: the counters of a day are the sum of what was opened on it; caps hold; a settle
  happens once; no reservation holds its estimate for ever.
- *Media*: what a run is offered was verified; an upload is never deleted while it is the only copy;
  a verdict is reached and stays.
- *Event ledger*: a live claim is exclusive; finished work is never redone; nothing is forgotten.
- *Checkout*: no run before the card is screened, and none unpaid on a card that had its trial (which the
  code does not keep, section 5); a paid job is never taken back, nor one abandoned for a session it has
  left; the session cap is a cap; what is bought runs (it need not, section 5).
- *Mirror*: after the last event, row and entitlement are those of Stripe's subscription; a disputed
  site is down.
- *Generation, Publish*: a run ends once and its job row says how; every call to the model is in the
  ledger; a refusal is not asked again; no host ever shows half a site.
- *JobHub*: each keyed event once and in the Workflow's order; the modal skips nothing;
  what is not mirrored is not forgotten and not deleted; the outcome reaches the modal.
- *SiteDraft, Editor*: undo shows the document of before the edit; a tab shows what is stored with
  its unsent edits applied; a conflict means another writer; the queue drains.

## 2. The modules

| Module | Role |
|---|---|
| `Budget`, `MCBudget`, `BudgetProofs` | BudgetDO |
| `StripeEvents`, `MCStripeEvents`, `BillingProofs` | the event ledger with abstract handlers |
| `Checkout`, `MCCheckout`, `CheckoutProofs` | mint, webhook handlers and dispatch, composed with the ledger |
| `Mirror`, `MCMirror`, `BillingProofs` | one mirrored subscription, its entitlement, disputes |
| `JobHub`, `MCJobHub`, `JobHubProofs` | a run's progress: emitter, event log, streams, mirror, modal |
| `Patch` | the edit vocabulary: `applyPatch` and its inverses, pure |
| `UndoHistory` | abstract: what an undo history promises |
| `SiteDraft` | SiteDraftDO over `Patch`, implements `UndoHistory` |
| `Editor`, `MCEditor`, `EditorProofs` | browser tabs composed with `SiteDraft`; the proofs are of both and of `Patch` |
| `Publish` | version rows, objects, manifests and the renderer's answer, as operations |
| `Run` | abstract: what a generation run promises to whoever reads its job row |
| `Generation`, `MCGeneration`, `GenerationProofs` | the Workflow composed with `Publish`, implements `Run` |
| `Quota` | QuotaDO's two windows, as operations |
| `Submit`, `MCSubmit`, `SubmitProofs` | concurrent submits composed with `Quota` |
| `Media`, `MCMedia`, `IntakeProofs` | tiles, API, queue and consumer |
| `Autosave`, `MCAutosave`, `IntakeProofs` | the onboarding draft: tabs, rows, and the submit that closes it |

### Budget

State: `row` is the `reservations` table, `spent` and `gens` the `days` table, `alarm` the object's
single alarm. A Durable Object runs one request at a time and its SQL is synchronous, so a handler
is one action. The exception is `armAlarm()`: when it awaits, the SQL is durable and the alarm is
not, so each writing handler ends in `Arm` or in `Cut` (an eviction there). The platform retries an
alarm handler that dies (`AlarmCut`); nothing retries a request. `Settle` covers both ways to name a
reservation (id, job id): at most one open row answers to a job.

### StripeEvents

Each D1 statement is a step. `Deliver` is what Stripe owes (a first delivery and retries, minutes
apart, while it has no 200); `Duplicate` is anything more. `Claim` is the conditional UPDATE;
`Expire` is the passing of `CLAIM_TTL_MS`; `lapsed` is history: who works on an expired claim.
`Finish` does what `handleStripeEvent()` does with the outcome: complete and fail match the claim
token, skip matches the event id alone, as the code does. `Crash` loses an invocation at any step.

### Checkout

The variables of the ledger are instantiated (`Ledger == INSTANCE StripeEvents`), and a handler is the steps
between `Ledger!Claim` and `Ledger!Handle`: `Lookup`, `Screen`, `Batch`, `Release`, `Dispatch` of the
completed session; `Abandon`; `Resolve`, `Convert`, `Find`, `Release`, `Dispatch` of `invoice.paid`. That
event comes twice: Stripe opens every trial with an invoice of zero, which is paid at once (`opened`), and the
charge makes another (`invoice`); the code looks at the amount of neither. What `billing_reason` they carry is
taken to be one that converts the grant (`invoice.ts:110-112`). The API side is `Replay`, `Reuse`/`Supersede`,
`Bump`, `Create`, `Attach`. A Stripe session is named by its idempotency key, `cs:<job>:<attempt>`, so a
session *is* an attempt number. One job and one card: the trial ledger's interplay with other organisations is
the constant `Histories`.

### Mirror

Stripe's subscription moves (`Change`), each move is an event with a time in seconds, and any event may be
handled next. It starts with the session completed, the `created` event of the subscription and the completed
event both on their way. The completed event names its organisation; every other is resolved through the
customer row that the completed session's batch writes (`Resolve`), and is skipped for good when there is none
(`Unresolved`). `Read` and `Write` are two steps, so a handler may write what it read before another handler's
write. `Write` is the batch: guarded upsert, unguarded entitlement. `missed` is history: an event was skipped
after the completed session's handler had re-read the subscription and before it had written it, so nobody
will ever write what the event announced.

### JobHub

An event is its label, the emitter's idempotency key; 0 is a keyless delta; its `seq` is its place in
`log`. The emitter is the Workflow reduced to its emits: each is the first thing its step does, so a
step's retry repeats the current label and no earlier one (`Proceed`); an emit is awaited and never
fails a step, a delta is neither. The job row is taken to be terminal when the Workflow is over.

The object is single-threaded, and its handlers interleave where they await. `drain()` awaits each
frame it writes, so drains of one subscriber overlap; writes to one stream resolve in order and a
drain has one outstanding, so `conn[v].queue` holds the outstanding writes, each with the rows its drain
has read and goes on through. `Receive` is `handleAppend()` up to its await of the fan-out, and
`CloseSubscribers` what follows it. `Mirror` and `Mirrored` (or `MirrorFails`) are `alarm()` before and
after the shard's answer, with any append in between. `Evict` drops streams and an alarm handler in
flight; `EmitCut` is the eviction between an append and its alarm. `Open`, `Take`, `EndOfStream`,
`Break`, `Refuse` and `Poll` are the browser's side.

`DayPasses` requires that the run, its posts and its streams are over: 24 hours after the outcome,
which no run or stream survives. That is an assumption about time, the only one of the module.

### Patch, SiteDraft, UndoHistory

`Patch` is `applyPatch()`: a document, a patch, the next document and the patch that undoes it. The
six operations that replace one value and invert to the old one are one operation here; moving a
section and setting an image are their own, because their inverses are not obvious. `MCEditor`
compares `Moved` with the two splices of the code, and the lemma `InverseUndoes` of `EditorProofs`
says for every document and patch that the inverse undoes it, but where the code forgets a focal point.

`SiteDraft` is the object: `draft` is the row, `history` the ring of patches and inverses by sequence
number. Its methods are one transaction each, so one action each. `timeline` is history: the document
each sequence number stood for. `Past` and `Future` read the abstract history off the ring, and
`IsUndoHistory` says that under this mapping every step is a step of `UndoHistory`, which knows
nothing of patches, inverses or cursors.

### Editor

`tab[t]` is the hook's state and the loader's; `wire[t]` the one request in flight; `timer[t]` the
debounced inputs of `ContentPanel`, each with the document its closure captured; `late` a request
that is served after its tab gave it up. `Push` applies and queues a patch, `Pump` sends the head of
the queue, `Serve` is the route's action over `SiteDraft`, and `Confirm`, `Halt`, `Drop` and `Fail` are
the branches of the hook on the answer. `Discard` and `Regenerate` reseed, `Lapse` ends the
entitlement. `drifted`, `deaf` and `author` are history: the causes that `DriftHasACause` and
`ConflictHasACause` accept.

### Publish, Generation, Run

`Publish` holds the stores and one operation per write of them; `Generation` is the Workflow that
calls them. `instance` is what the platform persists (steps returned, retries of the current one,
failure), `run` what `run()` holds in memory, down to the line it is at: each write or call of a
step is an action, and `Raise` is what happens to a throw there: `guard()` classifies it, the platform
retries or gives up. A write may be refused, or be made and answered with an error (`Wrote`,
`Refused`). `Evict` loses `run`, and `Start` runs it again from the first step that has not returned.
Model steps go through the ledger: `OpenCall`, `Call`, `CloseCall`, or `FinishCallFromError` and
`Rethrow`. `Final`, `FailJob` and `TellError` are the catch of `run()`. The lines of `publishVersion()`
are the actions from `PutSiteDoc` to `Flip`, one host at a time.

`Run` is the promise: claimed once, public while it builds, ended once, in success only when public.
`IsRun` maps the job row and the KV entries to it.

### Quota, Submit

`Quota` keeps a counter for the current day and, for some subjects, one for all time. `Submit` is the
route await by await: `Consume` one subject at a time, `Reserve`, `Screen`, `ResolveSlug`, `Batch`,
`InsertJob`, `Settle`, `Replay`; `ReleaseOne` is a compensation, run for all subjects at once by the code,
so in any order here. `Die` is a request that stops at any await. `holds` is history: the counts a
submit has taken, with the day it took them on.

### Media

A tile goes through `Pump`, `Sign`, `Insert`, `PutUpload`, `Commit` and `Send`; the consumer through `Deliver`,
`Inspect`, `Write`, `Promote`, `DeleteUpload`, or `Refuse`, `Redeliver`, `Fails`. The stores it crosses
(shard row, quarantine, media bucket, queue) are variables of their own, because it crosses them one
await at a time, and two invocations may hold the same message. `StorableReason` is the CHECK of
`scan_result`, `KeyTaken` the unique index on the object key.

### Autosave

`tab[t]` is the state of `useDraft()` in one tab and of the modal's submit, `rows` the drafts, `cookie`
the session, `local` the copy in `localStorage`. A form is the set of edits it shows, so that what a
save adds or takes away can be told. Every edit and every write of the api takes a new instant, and
`Skew` is how far the browser's clock is ahead: an edit stamps the draft with that clock, a row with the
api's, and `Storable` compares the two. `Edit`, `Advance`, `Leave`, `Resume`, `Restart`, `Upload`, `Submit`,
`UseServer`, `UseLocal`, `Hide`, `Close` and `Mount` are the visitor's; `ServerTimer` and `Online` fire;
`Put` and `CreateDraft` are the api, reading the session's latest draft and writing it in one step, and
`Return` and `Created` what the hook does with the answers. `Retry` and `GiveUp` are the retry ladder of
`lib/api.ts`; a save given up, or sent on `pagehide`, is `adrift` and may arrive at any time. The submit goes
from its flush over `SendSubmit` to `Receive`, `Screen` and `Seal`, the three places of the route that touch
the row; `Submit` has the rest of the route. `Load` and `Hydrate` are the two sides of the await in
`hydrate()`; whether a newer row is newer by more than a minute is left open.

`loose`, `restored`, `outrun`, `writers` and `saved` are history: the ways in which the code does lose an
edit, which the properties exclude by name. `outrun` has what a save took out of a row that was written after
the draft it carries, because the browser's clock was ahead by more than that: `Storable` compares two clocks.
`loose` has what was typed while a save of the tab was on its way, what was carried to another draft, what a
save turned out to have stored in another draft's row, and what a tab shows whose first read failed;
`restored` what was taken from a copy of the row that was out of date, or with a save of the tab on its way,
and what a tab that is opened again finds in `localStorage` although a save it sent before it was closed, and
which may still arrive, does not have it.

## 3. What is checked

| Run | Result | Bounds | Question |
|---|---|---|---|
| `MCBudget` | pass | 2 jobs, 3 reservations, 3 days of 2 ticks, caps 3 and 2, estimates 1 and 4 | counters, overruns, alarm, settled in the end |
| `MCStripeEvents` | pass | 3 invocations, 2 events (one foreign), 2 losses, 2 duplicates | the worth of a claim, finality, nothing forgotten |
| `MCCheckout` | pass | 2 invocations, 1 request, 2 sessions, 2 events, 1 fault or loss | screened runs, counted sessions, paid is final, abandoned by its own session |
| `MCMirror` | pass | 2 handlers, 4 events, 4 seconds, 2 losses | convergence of row and entitlement, disputes |
| `MCJobHub` | pass | 1 modal, 2 labels, batch 1, 1 delta, 1 retry, 1 loss, 2 breaks or evictions, 1 refused connection | rail, streams, mirror, purge, the outcome |
| `MCEditor` | pass | 2 tabs, 3 edits, ring of 2, 2 page loads, 1 loss, 2 versions | the ring as an undo history, drift, conflicts, the queue |
| `MCGeneration` | pass | 1 retry per policy, 2 faults, 1 eviction, 2 hosts | half a site, the ledger, refusals, the outcome, refinement of `Run` |
| `MCSubmit` | pass | 3 submits of 2 drafts, 2 subjects, 2 slugs, 1 midnight, 1 fault | quota, reservations, one job per draft |
| `MCMedia` | pass | 2 tiles, 3 media ids, 2 consumers, 2 photos (1 refused), 2 faults, 1 duplicate | verified, surviving, final, decided |
| `MCAutosave` | pass | 2 tabs, 2 edits, 5+0, 4+1 or 3+2 moves of visitor and network, browser 2 instants ahead | saved is stored, kept after submit, nothing dirty forgotten, no roll-back |
| `MCSubmitStranded` | violation | as `MCSubmit` | the replay that recovers nothing |
| `MCCheckoutUnearned` | violation | 1 invocation, 1 request, 1 session, 2 events, nothing goes wrong | the zero invoice that releases an unpaid run |

Why the bounds are enough. *Budget*: a reservation crosses midnight with TTL 1 and days of two ticks, the
third day prunes the first, three ids exceed the cap of two, and an actual cost of 0 or 3 against an estimate
of 1 gives refunds, overruns and returned slots, and an estimate of 4 is above the spend cap by itself.
*StripeEvents*: three invocations are the fewest in which a stale one, the claim's present holder and a
contender meet. *Checkout*: attempts 1 and 2 give a superseded session and its successor; two events
(`MaxEvents`), each with its retries, are the completed session against an invoice, an expiry or the other
session's, with two invocations to overlap; `OneMishap` allows one throw, loss or crash in a behaviour, which
is what makes a handler run again. More of each is the theorems' part: they hold for any number of requests,
sessions, events and mishaps. *Mirror*: two handlers suffice for a stale write and for a skip inside the
completed session's handler; the session's two events and two more give a change to overtake, or an open and a
closed dispute; four seconds so that events may or may not share one; two losses so that both handlers may be
lost or one event twice. *JobHub*: one row per batch makes every mirror a series of flushes, one delta and one
retry suffice to put an unkeyed row or a replay anywhere, and two breaks are what takes the modal from stream
to polling. *Editor*: three edits over a ring of two trim it, undo it and overwrite what was undone; two tabs
are another writer; one loss is a stored save without an answer; three sections move over one another, and the
one slot and the image are replaced, cleared and restored. *Generation*: one retry is a second attempt, two
faults are a fault of the handler of a fault, two hosts are half a flip. *Submit*: two submits race for one
draft, the third shares their customer and their slugs, and the limits of 1 and 2 are reached. *Media*: one
photo uploaded twice, or two photos, one of them refused; a duplicate gives two consumers the same message;
the third media id is a tile that was tried again; faults equal to the queue's retries use them up.
*Autosave*: opening a tab is a move, five give a photo, an edit, a submit and one fault or conflict in one
tab, and 3+2 two tabs that both open and both edit; what the timers, the hook and the api do costs no move, so
every overlap of what was set going is explored. To get behind those bounds the run has a second starting
point, `A_Parted`: two tabs have worked on one row, and one was closed with its last save on its way. It
reaches the reopened tab whose own late save takes back what it shows. With `Skew = 2` the guard on
`updated_at` lets a save pass that is up to two writes or edits too late, which is as far as the moves of the
run reach; the theorems have no bound on it.

`CHECK_DEADLOCK FALSE` stands in every cfg but Budget's: the bounds let a finished behaviour stop
(every event handled, every submit answered). `MCBudget` keeps the check: `SettleMiss` is always enabled.

Fairness. Only what the code's environment does by itself: the clock ticks and a due alarm is
delivered until a run completes (Durable Object alarms are retried); Stripe retries what it has no
200 for (strong fairness, because a retry is only sometimes possible); an invocation that is not
lost runs on; an ended trial's charge settles; the Workflows platform goes on with an instance and
starts one again that it evicted; a Worker answers an editor's request and the fetch settles; a queue
delivers what waits in it; an open modal or upload goes on. Customers are never obliged to pay, to
replay, to type or to come back, and losses are never obliged to stop other than by their bound. The
hypothesis `[]Prompt` (no handler outlives its claim) is in the properties that need it, not in the
fairness, because 120 seconds is a bound the code assumes and does not enforce. In `JobHub` only the
browser is fair: no emit, flush, close or purge is owed; the premise of `OutcomeReaches` is that the
outcome is in the log and stays its latest event.

Symmetry is used only in runs without liveness properties, on invocations, handlers and requests; in
`MCSubmit` on the two submits of one draft.

Every property of a passing run has a mutant: a definition of the model changed the way a bug in
that code would (`SettledToday`, `AttachableAlways`, `StorableAnyTime`, `ResumeAtVerify`, ...), under
which TLC must find the property violated. The mutated operators stand beside the originals, marked
*Mutant*.

## 4. What is proved

All proofs hold for any number of workers, requests, events and any bounds, from the named
assumptions on constants only.

- `BudgetProofs` (from `AmountsAssumption`, `CapAssumption`, `ClockAssumption`, `NullAssumption`):
  `TypeOK`, `VolumeWithinCap`, `OneOpenPerJob` and `AlarmCoversOpen` are each inductive given
  `TypeOK`; `SettledIsFinal` and `SettleMovesOpeningDay` are action properties proved from them.
  `ClockAssumption` says that the calendar is monotone, which is what makes "today's row is not
  pruned" true. `DayAccountsForReservations` and `OverspendIsOverrun` are proved from `Accounts`: the
  table is finite, an open row was never forced, and each retained day is what its rows say (`DayOK`).
  A sum over the rows of a day is a function of the subsets of the table; what an insert, a delete or a
  changed row does to it is shown for the smallest set for which it would fail (`Smallest`, from the
  well-foundedness of strict inclusion on a finite set), so that no induction scheme is needed.
- `BillingProofs`, of the event ledger: the inductive invariant ties a worker to the row it works on. An unlapsed
  worker's row is `processing` with its own token and alive, or was skipped by a stale peer; without
  the second case the invariant is false, because `skipStripeEvent` does not match the token.
- `CheckoutProofs`: the invariant says what each handler step may rely on (one whose screen said `none`
  has a card without history; one at `release` or `dispatch` is of a session that was completed and has its
  trial in the ledger, and on a card with a history came there by an invoice), that Stripe and the
  trial ledger agree with the card's history, and that a mint in flight has counted its attempt. From it:
  `TypeOK`, `RunIsScreened`, `MintsAreCounted`, `PaidIsFinal`, `AbandonNeedsExpiry`. That the handlers run
  between the ledger's `Claim` and `Handle` is how the module is written, so its refinement of
  `StripeEvents` is not stated as a theorem.
- `BillingProofs`, of the mirror: `RowConverges`. Neither the property nor the ordering guard is inductive:
  the invariant adds that event times follow creation order, that a handler that has read for the latest
  change or since carries its status, and that a row as recent as the latest change holds it (`RowOK`). For
  the events skipped for want of the customer row it adds that without a row only the completed session's
  handler reads and writes (`WorkFor`), that it does write one (`MappedOK`), and that after a latest change
  was skipped, and not `missed`, nobody holds a read from before it (`SkipOK`). `DisputeSuspends` and
  `EntitlementConverges` take three parts more (`Settled`): the dispute is what its events say, and once its
  opening was handled and not skipped the site is suspended whatever subscription event comes after
  (`Disputed`); handlers that never overlapped are at work one at a time (`Alone`); and a handler still at
  work when the latest change has been handled is about to write its status (`Entitled`).
- `JobHubProofs`: `RailAdvances` needs that nothing in the log is ahead of the Workflow (`RailOK`).
  `UnmirroredHasAlarm` is not inductive because a flush takes the alarm away and answers later:
  `FlushOK` says that a batch at the shard is full, or ends the log, or an alarm was set behind it.
  `KeepOK` says when a log may sleep for a day and that it wakes only when nothing can be appended;
  with it `PurgeLosesNothing` is an action property of the invariant. The three are independent of
  batch size, of the number of labels, deltas, losses and modals. `NothingFallsBetween` comes from
  `Streams`: however the backlog's drain and the fan-outs of one subscriber overlap, every write that is
  outstanding is of the cursor's row or of the next one, an older one before a newer (`InTurn`), and the
  cursor of a connection is where its browser would resume and what its modal has seen (`StreamOK`).
- `EditorProofs`, of the object: `DraftTypes` and `RingIsInterval` for any patches; `EntriesExact` and the
  refinement `ImplementsHistory` under `KeepsFocus`, the hypothesis that no patch in use clears an
  image with a focal point of its own, the one edit whose inverse is not exact. The argument: the ring
  is an interval around the cursor (`RingInv`), each entry leads from the document of its number to
  the next and back (`EntryInv`, from the lemma that an inverse undoes its patch), so trimming,
  overwriting and moving the cursor do to `Past` and `Future` what the abstract history does to its
  sequences. The order of a page is a function on positions and a move one inverse of another, which
  the lemmas on `Moved` establish without induction.
- `EditorProofs`, of the tabs (from `SeedAssumption` and `NoneAssumption`: no document, tab, request or
  answer is the mark for "none"): `ConflictHasACause` and `DriftHasACause`, for any number of tabs, queued
  edits and lost or late answers, and `EditorIsUndoHistory`: the tabs do to the draft only what the object
  allows (`EditsTheDraft`), so under `KeepsFocus` the composed system is still an undo history. Neither
  of the two invariants is inductive. Both need that every revision has one author (`Numbered`) and
  what a tab knows, be it from its own state or from an answer still on its way: the revision is
  never ahead of the draft's and, once behind, the tab is deaf to an answer or another author has
  written since (`Abreast`); an answer is one to its request, and a `stale_rev` was given for that reason
  (`Matches`). Drift adds that a tab abreast of the draft shows what its unserved entries make of the
  stored document, unless an answer that replaces the document or halts the tab is on its way
  (`Faithful`). That `Leads`, a sequence of documents from the stored one to the shown one, is the replay
  of the queue needs the table of a recursive function to be the only one, which is proved by its least
  counterexample, the induction theorems being out of reach.
- `SubmitProofs` (from `SubmitAssumption`): `TypeOK`, `DraftNamesItsJob` and `ReservationsMatchJob` follow
  from one invariant. `InMemory` and `Keeps` say what a request has in hand at each point it can stand
  (every count and its reservation between the screen and the settlement, a shrinking set of counts on
  the way out); `Submitted` and `Selling` tie the draft to the job, so that a second submit of the
  draft cannot pass the guarded update. How counts are summed in `Quota` does not matter to them.
  `QuotaIsExact` does count: `Windows` adds that the requests that hold a count are finitely many, that
  none holds one of a day to come, and that consume and release move both sides by one. It needs that
  the subjects of one request are distinct, as `quotaSubjects()` makes them (one of each type: address,
  network, e-mail, phone, identity): a subject consumed twice would be held once.
- `GenerationProofs` (from `HostsAssumption`, `RetriesAssumption`, `NoManifestAssumption` and
  `NoCodeAssumption`: no manifest and no failure code is the mark for "none"): `LiveIsWhole` and the
  refinement `ImplementsRun`. A retry or a replay runs with what was persisted and nothing else, so the
  invariant has three parts: `Data` relates the stores to one another (a sealed row has its document, what is
  routed is the sealed version of the job), `Control` says for each point of `run()` what the stores must hold
  before it (`Reached`) and for each memoised step what it has left behind (`Advanced`), `Rows` that the
  ledger is a sequence. It holds for any numbers of retries and hosts, and any placement of evictions and lost
  answers. On top of it, `Accounts` proves `LedgerIsComplete`, `RefusalEndsRun` and `OutcomeIsTold`: a call in
  hand is the last row of the ledger and its number no larger than the rows of its step (`Ledgered`); a
  refusal is carried as the pending error, then as the failed run's decision, until the job row has it, and
  only an eviction or a lost write breaks that chain (`Refusing`); nothing is told before the row says it, and
  between the row that closes a job and its end stand only the two handlers that announce it (`Telling`).
- `IntakeProofs`, of the photos (from `MediaAssumption`): `OfferedIsVerified`, `UploadSurvives` and
  `ReadyIsFinal` follow from one invariant. A tile holds the row it inserted until its message is sent, the
  upload with it from the PUT on, and no delivery is under way before that (`TileHolds`); no other tile holds
  it (`Separate`). An invocation past the gates has a photo that passes them, past its write the object
  is in the bucket, and one that deletes the upload has a row that is ready (`Verified`). A message follows the
  commit of its row (`Committed`). Nothing is assumed of how many invocations hold a message.
- `IntakeProofs`, of the onboarding draft (from `AutosaveAssumption`): `CleanIsStored`, `SubmittedIsKept`,
  `DirtyIsAttended` and `NothingRollsBack`. What is at stake is what a save that is still on its way may take
  out of a row when it lands. The invariant says of each that passes the guard that what it lacks is harmless:
  neither owed to a submit nor shown by its own tab, but for what `loose` and `restored` excuse (`Drifts`, and
  `Good` for the saves a tab waits for), or that it passes only by what the browser's clock is ahead
  (`Ahead`), and then what it takes out is `outrun`'s; of a draft, wherever it is, that its stamp is not of
  the future (`DraftOK`); of what a conflict or a first read brought, that it is no newer than its row and,
  when as new, the same (`CopyOK`); and of a dirty tab what attends to it (`Attended`). Each is first shown to
  survive what others and the api do in the meantime (`Evolves`: rows get newer, writers are added, clocks
  advance), so that an action has to be looked at only for the tab and the row it touches. None of the four
  has a hypothesis on the clocks: `Skew` is any integer, and a browser that is behind only has its saves
  refused. Without `outrun` TLC refutes `CleanIsStored` and `NothingRollsBack` within the bounds of
  `MCAutosave`, and `SubmittedIsKept` with one more move (six in one tab, `Skew = 4`): section 5 has the case.
  The first attempts at this proof failed because the properties were too strong beyond the bounds of the run:
  a save that was answered by another draft's row, and a tab reopened while its own earlier save was still to
  land, lose edits without either being excused. `loose` and `restored` have them now, and `A_Parted` puts the
  second in reach of TLC.

Several of the proved invariants (`VolumeWithinCap`, `OneOpenPerJob`, `SettleMovesOpeningDay`,
`OverlapNeedsLapse`, `StripeEvents!SettledIsFinal`, `EntriesStep` and the type invariants of the modules
proved about) are not repeated as properties of a run.

Only model-checked: all liveness (`ReservationsSettle`, `EventsSettleWhenPrompt`, `OutcomeReaches`,
`QueueDrains`, `RunIsClosed`, `CleanUploadIsReady`: ENABLED and fairness are outside the prover). The
violations of `ReplayRecovers` and `RunIsEarned` and the refuted comments of section 5 are behaviours, which
TLC shows. No module proved about uses a RECURSIVE operator or proves by induction over data: where a sum, a
count or a chain of documents is needed, what a step does to it is shown for the least set or number for which
it would fail.

## 5. Where the code and its comments disagree

Two have a run whose property states the comment (`findings` in `PROJECT.json`).

- `MCSubmitStranded` / `ReplayRecovers`: the control-plane batch commits, the shard insert fails, and every
  replay answers `submit_incomplete` (`submit.ts:364`). `submit.ts:78-81` has the replay re-create the row
  with the same id.
- `MCCheckoutUnearned` / `RunIsEarned`: "a failed charge spends nothing" (`checkout.ts:184`), "until then no
  Opus is spent" (`checkout.ts:372`). On a card that had its trial, `invoice.paid` of the zero invoice that
  opened this one releases and dispatches the job once the completed session's batch has written the customer
  row (`invoice.ts:97-102`), whatever becomes of the charge; on a charged-back card, whose subscription is
  canceled, too, and its refused grant becomes `converted` (`invoice.ts:89-95`). Handled before that batch
  the event is skipped, so which of the two happens is a matter of the order of deliveries. What the code does
  keep is `RunIsScreened`.

Eleven more are stated in the modules as properties that TLC refutes; put one into the cfg named to
see the behaviour.

- `Autosave!BuiltIsSubmitted` (`MCAutosave`): "This validates the ROW -- the projection of that body"
  (`steps/validate.ts:26-27`). The site is built from the row and the row need not hold what was submitted.
  A visitor without a photo has no row until the submit; `ensureServerDraft()` creates it and pushes the
  form without awaiting the push (`useDraft.ts:472-475`), so the submit can close an empty row, after which
  the push is refused. So can a flush that fails (`OnboardingModal.tsx:981`: `writeServer()` swallows the
  error), a conflict left unanswered, an edit typed while a save is on its way, and another tab.
- `Autosave!StaleTabIsRefused` (`MCAutosave`): "a second tab that autosaves a stale copy changes zero
  rows" (`packages/db/src/cp/drafts.ts:211-212`). Every edit and every step stamps the draft with the
  present (`useDraft.ts:346`), so the guard passes and the older copy replaces the newer one.
- `Media!AckedIsTerminal` (`MCMedia`): the reason of a refusal is bare text, the column's CHECK wants JSON,
  the update throws, the catch (`media-consumer.ts:384`) counts on a sweep that has no caller, and the
  message is acknowledged: the row stays `verifying`, the refused object stays too.
  `media-consumer.ts:347-348` guarantees a terminal status.
- `StripeEvents!EventsSettle` (`MCStripeEvents`): a delivery that loses the claim answers 200
  (`dispatch.ts:133`), Stripe stops, and if the holder is then lost nobody re-claims the event. The
  "hourly reconciliation cron" of `dispatch.ts:48-49` does not exist.
- `Checkout!FirstTrialIsFree` (`MCCheckout`): a completed event handled again after its batch finds
  the trial row it has itself written, calls the card used, ends the trial, charges, and does not
  release. `packages/db/src/cp/billing.ts:601-602` calls that second run expected.
- `Checkout!CompletedIsReleased` (`MCCheckout` with `FairSpec`, without the symmetry, the constraint and the
  faults, and with `MaxEvents = 8`): between payment and webhook, a replay
  finds the session `complete`, not `open`, mints another and attaches it; the completed event then
  finds no job.
- `Mirror!PairAgrees` (`MCMirror`): the ordering guard rejects a stale row and the entitlement of the
  same batch still lands. `packages/db/src/cp/orgs.ts:96-98` says that the two cannot disagree.
- `JobHub!OutcomeReachesRefused` (`MCJobHub`): an HTTP error on the stream is one error event and the
  last, so the second failure that `useSSE.ts:44` waits for before polling never comes; the proxy's
  502 (`jobs.ts:180`) promises the fallback.
- `Editor!SavedIsStored` (`MCEditor`): a tab says "saved" over a document that is not the stored one
  (`useDraftEditor.ts:24-27`). Three causes: a debounced push applies its patch to the document of an
  older render (`ContentPanel.tsx:87-99`), an undo's answer replaces what queued edits had put on the
  screen (`useDraftEditor.ts:133-137`), and a dropped edit stays on the screen while the next save
  clears its banner.
- `Generation!RefusalIsTerminal` (`MCGeneration`): "TERMINAL. Never retried, at any level" of
  `retry.ts:23-27` fails when the ledger write in the handler of the refusal fails
  (`structure.ts:172-174`): what is thrown is then a transport error, and the step is tried again.
- `Publish!WithdrawnIsGone` (`MCGeneration`): `risk.ts:71` has the renderer answer 410 when
  `index_state` is `gone`; the renderer reads KV, and only a publish writes KV.

Also seen while modelling:

- *Billing.* A stale invocation's skip overwrites a live claim (`packages/db/src/cp/billing.ts:280`
  against the token match at 209-210); `ClaimStands` states what still holds. `invoice.paid` handled
  before the completed session's batch is skipped for good (`invoice.ts:40-48`), and so is every subscription
  event (`subscription.ts:31-39`): one that comes between that handler's re-read and its batch
  (`checkout.ts:258`, 357) leaves the row at what was read, a cancelled subscription at `trialing`, until the
  next event (`missed`). For the same reason `customer.subscription.created` by itself is no "safety net for a
  lost session event" (`subscription.ts:100-101`). Events of one
  second are ordered by arrival (`subscriptions.ts:106`: `>=`); `RowConverges` has `DistinctSeconds` as a
  hypothesis because of it. A subscription event handled over an open dispute restores the
  entitlement (`subscription.ts:71` against `risk.ts:26-27`), and `dispute.created` handled after
  `dispute.closed` (won) leaves the site suspended (`risk.ts:74`). A dispatch that fails after the
  release is never repeated: `checkout.ts:410-412` relies on "the generator's drain", but
  `SQL_LIST_QUEUED_JOBS` has no caller. That what is bought runs is therefore not stated as a property: a failed
  dispatch, a superseded session and a lost claim each break it, and what is left is the straight path.
- *Onboarding draft.* A tab that is hidden within the debounce sends the same edits twice; the second to
  arrive is older than the row the first made, and the visitor is asked about a conflict with their own save,
  less than a minute old (`CONFLICT_WINDOW_MS` governs only `hydrate()`). A browser whose clock is slow has
  every edit after a save refused; one whose clock is fast passes the guard with older copies, its own
  overtaken saves included (`outrun`). What is typed while a save is on its way is marked saved with it
  (`useDraft.ts:299`), and if nothing is typed after it the next opening of the tab may take the row without
  it. A failed save is not tried again until the next edit or the next `online` event. A PUT to a submitted or
  rejected draft is answered 409, not the 404 of `cp/drafts.ts:232-233` and `useDraft.ts:254`. Restarting
  keeps the id of a draft that is rejected or submitted, so nothing is saved any more. Two tabs, or a photo
  and a submit, that ask for a draft at once get two sessions (`drafts.ts:226-227`), and the tab that keeps
  the older id fails the Turnstile binding at submit.
- *Submit.* Submit settles its reservation at zero and nothing reserves again on release
  (`submit.ts:742`), so paid runs are not counted against the day. A quota call that rejects (rather than
  answering an error) leaves `consumeQuota()` with an exception, a 500 and its counts held
  (`lib/quota.ts:99`); one whose answer has the wrong shape goes on uncounted. A release after midnight is
  taken out of the new day (`QuotaDO.ts:212`). A double click can be refused by its own first submit
  when the subject's daily limit is 1. A screen that passes re-opens a draft another submit had
  rejected (`packages/db/src/cp/drafts.ts:287`). A shard insert that is made and answered with an error
  gives its quota back although the job is later sold.
- *Generation.* The stuck-job reaper of `workflow.ts:616-617` has no caller. `retry.ts` speaks of two
  attempts where a limit of 2 gives three. An attach that fails leaves a version row nobody names
  (`assemble.ts:240`), and the retry makes another. A publish resumed after its seal takes a new `now`
  for the sitemap's `lastmod` (`Lastmod`). `serveDocument()` answers 304 before it looks at the
  withdrawal (`serve.ts:136-148`). No code sets `index_state` to `indexable`. A site whose screen ended
  in `error` is sold and then fails in the validate step.
- *JobHub.* `JobHub.ts:297-299` closes the streams of a finished run without waiting for slow drains;
  the outcome then reaches the modal on its reconnect. `append()` does not refuse what comes after the
  outcome (`JobHub.ts:54`): a late delta becomes the latest event, and a modal that polls never sees
  the outcome; the premise of `OutcomeReaches` excludes it. `alarm()` sets its 24-hour alarm over the
  2-second one that an append set while it awaited. An outcome whose append was cut before its alarm
  is never mirrored (`torn`). After the purge a modal that comes back reconnects for ever.
  `useSSE.ts:22-28` speaks of a `payment` frame that `jobs.ts` does not send. A post lost while its
  step succeeds leaves a label out of the rail for good.
- *Editor.* `patch.ts:10` calls every operation exactly invertible; clearing an image with a focal
  point of its own is not (`Forgets`). A discard or a reseed leaves the hook's revision old, and the
  next edit of that tab is answered as a conflict. After a lost answer a tab is told of a conflict
  with its own edit (`useDraftEditor.ts:30`). Leaving the content panel drops a text that is still debounced.
- *Media.* The same photo twice makes `promote` run into the unique index on the object key, its message ends
  in the dead-letter queue and its row stays `verifying` (`KeyTaken`). A commit whose answer is lost is
  retried by the browser, gets 409, and the tile fails although the photo is verified. A commit that is
  written and whose `MEDIA_Q.send` fails leaves the row `verifying`. The limit of files is read before the row
  is inserted, so concurrent uploads exceed it. A tile shows ready after 30 seconds whatever the row says.
  `ReadyIsFinal` holds only because the CHECK refuses the unconditional status update.

## 6. Plan

What is left, in the order of what it would show:

1. **Spend**: Budget composed with Generation and the release, with the overrun bound per day.
2. **Auth**: single-use tokens, claim of a draft's organisation, sessions (`packages/auth`,
   `routes/claim.ts`, `auth.ts`).
3. **RenderCache**: what a cached page may lag behind. **Preview**: SiteDraftDO's grants.
4. Proofs to add: that the photos a run is offered are those its owner committed, once Media is composed with
Submit.

Not to be modelled, and why: model prompts and parsing, HTML rendering, e-mail text, the design
system and page components, the industry, media and demo catalogues, which make up most of the
source's lines (data, or pure functions of their inputs or layout); signature verification, hashing
and encryption (trusted primitives); provisioning scripts and CI. Left out of the modelled parts: the
body of a timed-out Workflow step that may go on behind its retry (the platform's timing decides what
it can still do), several photos per message batch (a batch is a loop over independent messages), and
the sums of money on invoices.

--------------------------- MODULE CheckoutProofs ---------------------------
(***************************************************************************)
(* Theorems of Checkout, for every set of invocations and requests, every  *)
(* cap on the mints and every number of faults.                            *)
(***************************************************************************)
EXTENDS Checkout, FiniteSetTheorems, TLAPS

----------------------------------------------------------------------------
\* The parts of the inductive invariant of the funnel.

\* What must be on record before a run.
Screened ==
  \E s \in Sessions :
    /\ sess[s] = "complete" /\ grant[s] # "none"
    /\ history # "none" => \E kind \in Paid : ledger[<<kind, s>>].status # "absent"

LedgerOK ==
  ledger \in [Events -> [status: Ledger!Statuses, holder: Workers \cup {None}, live: BOOLEAN]]

MintRecord == [pc: {"idle", "consult", "bump", "create", "attach"},
               attempt: 0..(MaxAttempts + 1), read: Sessions \cup {None}]

MintType ==
  mint \in [Mints -> [pc: {"idle", "consult", "bump", "create", "attach"},
                      attempt: 0..(MaxAttempts + 1), read: Sessions \cup {None}]]

JobType ==
  job \in [pay: {"awaiting", "abandoned", "paid"}, session: Sessions \cup {None},
           attempts: 1..MaxAttempts]

\* A session is minted on a counted attempt.
MintsOK ==
  /\ \A m \in Mints :
       /\ mint[m].pc # "idle" => mint[m].attempt \in 1..(job.attempts + 1)
       /\ mint[m].pc \in {"create", "attach"} => mint[m].attempt <= job.attempts
  /\ \A s \in Sessions : sess[s] # "absent" => s <= job.attempts

\* An invocation works on an event that has happened and is in the ledger.
WorkerOK ==
  /\ worker \in [Workers -> [pc: {"idle", "claim", "handle", "finish"},
                             event: Events \cup {None},
                             outcome: {"ok", "skip", "throw"} \cup {None}]]
  /\ \A w \in Workers :
       /\ worker[w].pc = "finish" => worker[w].outcome \in {"ok", "skip", "throw"}
       /\ worker[w].pc # "idle" =>
            /\ worker[w].event \in Events
            /\ Happened(worker[w].event)
            /\ ledger[worker[w].event].status # "absent"

\* A handler runs for its kind of event, and releases only what is screened.
PlanFor(w) ==
  /\ plan[w].at # "rest" => worker[w].pc = "handle"
  /\ plan[w].at \in {"lookup", "screen", "batch"} => worker[w].event[1] = "completed"
  /\ plan[w].at \in {"resolve", "convert", "find"} => worker[w].event[1] \in Paid
  /\ plan[w].at \in {"convert", "find"} => grant[This(w)] # "none"
  /\ plan[w].at = "abandon" => worker[w].event[1] = "expired"
  /\ plan[w].at \in {"release", "dispatch"} => Screened
  /\ plan[w].at = "batch" /\ plan[w].verdict = "none" => history = "none"

PlanOK == \A w \in Workers : PlanFor(w)

\* Only a completed session has a subscription, and a charge on a card that was
\* charged back follows a grant that counts again.
HistoryOK ==
  \A s \in Sessions :
    /\ sub[s] # "none" => sess[s] = "complete"
    /\ sub[s] \in {"charging", "paid", "unpaid"} =>
         history # "disputed" \/ \E t \in Sessions : grant[t] = "granted"

Inv == TypeOK /\ LedgerOK /\ MintsOK /\ WorkerOK /\ PlanOK /\ HistoryOK /\ (run => Screened)

\* Submit leaves a job awaiting payment and its first mint in flight.
LEMMA InitInv == Init => Inv
<1> SUFFICES ASSUME Init PROVE Inv
  OBVIOUS
<1> USE HistoriesAssumption, AttemptsAssumption DEF HistoriesAssumption, AttemptsAssumption
<1>1. PICK submit \in Mints :
        mint = [m \in Mints |-> IF m = submit THEN [pc |-> "create", attempt |-> 1, read |-> None]
                                              ELSE Resting]
  BY DEF Init
<1>2. MintType
  BY <1>1 DEF MintType, Resting
<1>7. JobType
  BY DEF Init, JobType
<1>3. MintsOK
  BY <1>1 DEF Init, MintsOK, Resting
<1>8. plan \in [Workers -> [at: {"rest", "lookup", "screen", "batch", "release",
                               "dispatch", "abandon", "resolve", "convert", "find"},
                          verdict: {None, "none", "used", "disputed"}]]
  BY DEF Init, NoPlan
<1>4. TypeOK
  <2>1. /\ known \subseteq Sessions
        /\ sess \in [Sessions -> {"absent", "open", "complete", "expired"}]
        /\ sub \in [Sessions -> {"none", "trialing", "charging", "paid", "unpaid", "canceled"}]
        /\ history \in Histories
        /\ grant \in [Sessions -> {"none", "granted", "refused"}]
    BY DEF Init
  <2>2. run \in BOOLEAN
    BY DEF Init
  <2>3. faults \in 0..MaxFaults
    BY DEF Init
  <2> QED BY <1>2, <1>7, <1>8, <2>1, <2>2, <2>3 DEF TypeOK, MintType, JobType
<1>5. LedgerOK /\ WorkerOK /\ PlanOK
  BY DEF Init, LedgerOK, Ledger!Statuses, WorkerOK, PlanOK, PlanFor, NoPlan, Ledger!Init,
         Ledger!Idle
<1>6. HistoryOK /\ (run => Screened)
  BY DEF Init, HistoryOK
<1> QED BY <1>3, <1>4, <1>5, <1>6 DEF Inv

\* A step of the API or of Stripe, and a claim that ages, leave every invocation as
\* it is, and what has happened or is in the ledger is never taken back.
LEMMA OutsideInv ==
  ASSUME Inv, UNCHANGED <<plan, worker, history, grant, run>>,
         TypeOK', LedgerOK', MintsOK', HistoryOK',
         \A e \in Events : ledger[e].status # "absent" => ledger'[e].status # "absent",
         \A s \in Sessions : /\ sess[s] \in {"complete", "expired"} => sess'[s] = sess[s]
                             /\ sub[s] = "paid" => sub'[s] = "paid"
  PROVE  Inv'
<1>1. Screened => Screened'
  BY DEF Screened, Events, Paid
<1>2. \A e \in Events : Happened(e) => Happened(e)'
  BY DEF Happened, Events, Paid
<1>3. WorkerOK'
  BY <1>2 DEF Inv, WorkerOK
<1>4. PlanOK'
  BY <1>1 DEF Inv, PlanOK, PlanFor, This
<1> QED BY <1>1, <1>3, <1>4 DEF Inv

\* A mint or a replay moves the counter before the session, and attaches only to a
\* job that is not paid.
LEMMA APIInv == ASSUME Inv, NEW m \in Mints, API(m) PROVE Inv'
<1> USE AttemptsAssumption DEF AttemptsAssumption
<1>0. UNCHANGED <<plan, worker, ledger, history, grant, run, sub>>
  BY DEF API, Replay, Reuse, Supersede, Bump, Create, Attach, MintLost, events, stripe
<1>1. CASE Replay(m)
  <2>1. UNCHANGED <<job, known, sess, faults>>
    BY <1>1 DEF Replay, stripe
  <2>2. MintType'
    BY <1>1 DEF Inv, Replay, TypeOK, MintType, Sessions
  <2>3. TypeOK'
    BY <2>1, <2>2, <1>0 DEF Inv, TypeOK, MintType
  <2>4. \A n \in Mints \ {m} : mint'[n] = mint[n]
    BY <1>1 DEF Inv, Replay, TypeOK
  <2>5. mint'[m].pc \in {"consult", "bump"} /\ mint'[m].attempt = job.attempts + 1
    BY <1>1 DEF Inv, Replay, TypeOK
  <2>6. MintsOK'
    BY <2>1, <2>4, <2>5 DEF Inv, TypeOK, MintsOK
  <2>7. HistoryOK'
    BY <2>1, <1>0 DEF Inv, HistoryOK
  <2> QED BY <2>1, <2>3, <2>6, <2>7, <1>0, OutsideInv DEF Inv, LedgerOK
<1>2. CASE Reuse(m) \/ Supersede(m) \/ MintLost(m)
  <2>1. UNCHANGED <<job, known, sess>> /\ faults' \in 0..MaxFaults
    BY <1>2 DEF Inv, Reuse, Supersede, MintLost, Fault, TypeOK, stripe
  <2>2. ASSUME mint' = [mint EXCEPT ![m] = Resting] PROVE MintType' /\ MintsOK'
    <3>1. MintType'
      BY <2>2 DEF Inv, TypeOK, MintType, Resting
    <3>2. MintsOK'
      BY <2>1, <2>2 DEF Inv, TypeOK, MintsOK, Resting
    <3> QED BY <3>1, <3>2
  <2>3. ASSUME mint' = [mint EXCEPT ![m] = [@ EXCEPT !.pc = "bump", !.read = None]],
               mint[m].pc = "consult"
        PROVE  MintType' /\ MintsOK'
    <3>1. MintType'
      <4>1. mint \in [Mints -> MintRecord]
        BY DEF Inv, TypeOK, MintRecord
      <4>2. mint[m] \in MintRecord
        BY <4>1
      <4>3. [mint[m] EXCEPT !.pc = "bump", !.read = None] \in MintRecord
        BY <4>2 DEF MintRecord
      <4>4. mint' = [mint EXCEPT ![m] = [mint[m] EXCEPT !.pc = "bump", !.read = None]]
        BY <2>3
      <4>5. mint' \in [Mints -> MintRecord]
        BY <4>1, <4>3, <4>4
      <4> QED BY <4>5 DEF MintType, MintRecord
    <3>2. MintsOK'
      BY <2>1, <2>3 DEF Inv, TypeOK, MintsOK
    <3> QED BY <3>1, <3>2
  <2>4. MintType' /\ MintsOK'
    BY <1>2, <2>2, <2>3 DEF Reuse, Supersede, MintLost
  <2>5. TypeOK'
    BY <2>1, <2>4, <1>0 DEF Inv, TypeOK, MintType
  <2>6. HistoryOK'
    BY <2>1, <1>0 DEF Inv, HistoryOK
  <2> QED BY <2>1, <2>4, <2>5, <2>6, <1>0, OutsideInv DEF Inv, LedgerOK
<1>3. CASE Bump(m)
  <2>1. TypeOK'
    <3>1. MintType'
      BY <1>3 DEF Inv, Bump, MayMint, TypeOK, MintType, Resting
    <3>2. JobType'
      <4>1. job.attempts \in 1..MaxAttempts
        BY DEF Inv, TypeOK
      <4>2. job' = job \/ job'.attempts \in 1..MaxAttempts
        BY <1>3, <4>1 DEF Inv, Bump, MayMint, TypeOK
      <4> QED BY <1>3, <4>2 DEF Inv, Bump, TypeOK, JobType
    <3> QED BY <1>3, <3>1, <3>2
        DEF Inv, Bump, MayMint, Fault, TypeOK, MintType, JobType, events, stripe
  <2>2. MintsOK'
    <3>1. job'.attempts >= job.attempts /\ job.attempts \in Nat /\ job'.attempts \in Nat
      BY <1>3 DEF Inv, Bump, TypeOK
    <3>2. \A n \in Mints \ {m} : mint'[n] = mint[n]
      BY <1>3 DEF Inv, Bump, TypeOK
    <3>3. \/ mint'[m] = Resting
          \/ mint'[m].attempt = mint[m].attempt /\ job'.attempts = job.attempts + 1
      BY <1>3 DEF Inv, Bump, TypeOK
    <3>4. mint[m].attempt \in 1..(job.attempts + 1)
      BY <1>3 DEF Inv, Bump, MintsOK
    <3>5. \A n \in Mints : mint[n].attempt \in Nat
      BY DEF Inv, TypeOK
    <3>6. \A n \in Mints \ {m} :
            /\ mint'[n].pc # "idle" => mint'[n].attempt \in 1..(job'.attempts + 1)
            /\ mint'[n].pc \in {"create", "attach"} => mint'[n].attempt <= job'.attempts
      BY <3>1, <3>2, <3>5 DEF Inv, MintsOK
    <3>7. /\ mint'[m].pc # "idle" => mint'[m].attempt \in 1..(job'.attempts + 1)
          /\ mint'[m].pc \in {"create", "attach"} => mint'[m].attempt <= job'.attempts
      BY <3>1, <3>3, <3>4 DEF Resting
    <3>8. \A s \in Sessions : sess'[s] # "absent" => s <= job'.attempts
      BY <1>3, <3>1 DEF Inv, Bump, MintsOK, stripe, Sessions
    <3> QED BY <3>6, <3>7, <3>8 DEF MintsOK
  <2>3. HistoryOK' /\ sess' = sess
    BY <1>3, <1>0 DEF Inv, Bump, HistoryOK, stripe
  <2> QED BY <2>1, <2>2, <2>3, <1>0, OutsideInv DEF Inv, LedgerOK
<1>4. CASE Create(m)
  <2>1. TypeOK'
    <3>1. MintType'
      BY <1>4 DEF Inv, Create, TypeOK, MintType, Resting
    <3>2. JobType'
      BY <1>4 DEF Inv, Create, TypeOK, JobType, Sessions
    <3> QED BY <1>4, <3>1, <3>2
        DEF Inv, Create, Fault, TypeOK, MintType, JobType, events, stripe
  <2>2. MintsOK'
    <3>1. \A n \in Mints \ {m} : mint'[n] = mint[n]
      BY <1>4 DEF Inv, Create, TypeOK
    <3>2. mint'[m] = Resting \/ (mint'[m].attempt = mint[m].attempt)
      BY <1>4 DEF Inv, Create, TypeOK
    <3>3. job' = job /\ mint[m].pc = "create"
      BY <1>4 DEF Create
    <3>4. \A s \in Sessions : sess'[s] # sess[s] => s = mint[m].attempt
      BY <1>4 DEF Inv, Create, TypeOK
    <3>5. \A n \in Mints :
            /\ mint'[n].pc # "idle" => mint'[n].attempt \in 1..(job'.attempts + 1)
            /\ mint'[n].pc \in {"create", "attach"} => mint'[n].attempt <= job'.attempts
      BY <3>1, <3>2, <3>3 DEF Inv, MintsOK, Resting
    <3> QED BY <3>3, <3>4, <3>5 DEF Inv, MintsOK
  <2>3. \A s \in Sessions : sess[s] \in {"complete", "expired"} => sess'[s] = sess[s]
    BY <1>4 DEF Inv, Create, TypeOK
  <2>4. HistoryOK'
    BY <1>4, <1>0, <2>3 DEF Inv, HistoryOK
  <2> QED BY <2>1, <2>2, <2>3, <2>4, <1>0, OutsideInv DEF Inv, LedgerOK
<1>5. CASE Attach(m)
  <2>0. mint[m].attempt \in Sessions
    BY <1>5 DEF Inv, Attach, TypeOK, MintsOK, Sessions
  <2>1. TypeOK'
    <3>1. MintType'
      BY <1>5, <2>0 DEF Inv, Attach, TypeOK, MintType, Resting
    <3>2. JobType'
      BY <1>5, <2>0 DEF Inv, Attach, TypeOK, JobType, Sessions
    <3> QED BY <1>5, <2>0, <3>1, <3>2
        DEF Inv, Attach, Fault, TypeOK, MintType, JobType, events, stripe
  <2>2. MintsOK'
    BY <1>5 DEF Inv, Attach, TypeOK, MintsOK, Resting, events, stripe, Sessions
  <2>3. HistoryOK' /\ sess' = sess
    BY <1>5, <1>0 DEF Inv, Attach, HistoryOK, stripe
  <2> QED BY <2>1, <2>2, <2>3, <1>0, OutsideInv DEF Inv, LedgerOK
<1> QED BY <1>1, <1>2, <1>3, <1>4, <1>5 DEF API

\* What happens at Stripe only makes more events true.
LEMMA StripeInv == ASSUME Inv, NEW s \in Sessions, Stripe(s) PROVE Inv'
<1>1. UNCHANGED <<plan, worker, ledger, history, grant, run, job, mint>>
  BY DEF Stripe, Pay, ExpireSession, ChargeSettles, events
<1>2. TypeOK'
  BY DEF Inv, Stripe, Pay, ExpireSession, ChargeSettles, TypeOK, events
<1>3. MintsOK'
  BY DEF Inv, Stripe, Pay, ExpireSession, ChargeSettles, TypeOK, MintsOK, events
<1>4. HistoryOK'
  BY DEF Inv, Stripe, Pay, ExpireSession, ChargeSettles, TypeOK, HistoryOK, events
<1>5. \A t \in Sessions : /\ sess[t] \in {"complete", "expired"} => sess'[t] = sess[t]
                          /\ sub[t] = "paid" => sub'[t] = "paid"
  BY DEF Inv, Stripe, Pay, ExpireSession, ChargeSettles, TypeOK, HistoryOK
<1> QED BY <1>1, <1>2, <1>3, <1>4, <1>5, OutsideInv DEF Inv, LedgerOK

----------------------------------------------------------------------------
\* The ledger's rows stay rows, and an event once in the ledger stays there.
LEMMA LedgerStep ==
  ASSUME Inv, \/ \E w \in Workers : Webhook(w)
              \/ \E e \in Events : ExpireClaim(e)
  PROVE  /\ LedgerOK'
         /\ \A e \in Events : ledger[e].status # "absent" => ledger'[e].status # "absent"
<1> DEFINE Row == [status: Ledger!Statuses, holder: Workers \cup {None}, live: BOOLEAN]
<1>1. ASSUME \/ ledger' = ledger
             \/ \E e \in Events, row \in Row :
                  ledger' = [ledger EXCEPT ![e] = row] /\ row.status # "absent"
             \/ \E e \in Events : ledger' = [ledger EXCEPT ![e].live = FALSE]
      PROVE  /\ LedgerOK'
             /\ \A e \in Events : ledger[e].status # "absent" => ledger'[e].status # "absent"
  <2>1. ledger \in [Events -> Row]
    BY DEF Inv, LedgerOK
  <2>2. CASE ledger' = ledger
    BY <2>1, <2>2 DEF LedgerOK
  <2>3. ASSUME NEW e \in Events, NEW row \in Row, ledger' = [ledger EXCEPT ![e] = row],
               row.status # "absent"
        PROVE  /\ LedgerOK'
               /\ \A d \in Events : ledger[d].status # "absent" => ledger'[d].status # "absent"
    BY <2>1, <2>3 DEF LedgerOK
  <2>4. ASSUME NEW e \in Events, ledger' = [ledger EXCEPT ![e].live = FALSE]
        PROVE  /\ LedgerOK'
               /\ \A d \in Events : ledger[d].status # "absent" => ledger'[d].status # "absent"
    <3>1. /\ ledger[e] \in Row
          /\ [ledger[e] EXCEPT !.live = FALSE] \in Row
          /\ [ledger[e] EXCEPT !.live = FALSE].status = ledger[e].status
      BY <2>1
    <3>2. ledger' = [ledger EXCEPT ![e] = [ledger[e] EXCEPT !.live = FALSE]]
      BY <2>4
    <3> QED BY <2>1, <3>1, <3>2 DEF LedgerOK
  <2> QED BY <1>1, <2>2, <2>3, <2>4
<1>2. ASSUME NEW e \in Events, NEW st \in Ledger!Statuses \ {"absent"}, Ledger!SetStatus(e, st)
      PROVE  \E d \in Events, row \in Row :
               ledger' = [ledger EXCEPT ![d] = row] /\ row.status # "absent"
  <2>1. [status |-> st, holder |-> None, live |-> FALSE] \in Row
    OBVIOUS
  <2> QED BY <1>2, <2>1 DEF Ledger!SetStatus
<1>3. ASSUME NEW w \in Workers, Webhook(w)
      PROVE  \/ ledger' = ledger
             \/ \E e \in Events, row \in Row :
                  ledger' = [ledger EXCEPT ![e] = row] /\ row.status # "absent"
  <2>1. ASSUME NEW e \in Events, DeliverEvent(w, e)
        PROVE  \/ ledger' = ledger
               \/ \E st \in Ledger!Statuses \ {"absent"} : Ledger!SetStatus(e, st)
    BY <2>1 DEF DeliverEvent, Ledger!Deliver, Ledger!Duplicate, Ledger!Record, Ledger!Statuses
  <2>2. CASE ClaimEvent(w)
    <3>1. worker[w].event \in Events
      BY <2>2 DEF Inv, WorkerOK, ClaimEvent, Ledger!Claim
    <3>2. [status |-> "processing", holder |-> w, live |-> TRUE] \in Row
      BY DEF Ledger!Statuses
    <3> QED BY <2>2, <3>1, <3>2 DEF ClaimEvent, Ledger!Claim
  <2>3. CASE FinishEvent(w)
    <3>1. worker[w].event \in Events
      BY <2>3 DEF Inv, WorkerOK, FinishEvent, Ledger!Finish
    <3>3. \/ ledger' = ledger
          \/ \E st \in Ledger!Statuses \ {"absent"} : Ledger!SetStatus(worker[w].event, st)
      BY <2>3, <3>1 DEF Inv, WorkerOK, FinishEvent, Ledger!Finish, Ledger!IfHolder, Ledger!Skip,
                        Ledger!Statuses
    <3> QED BY <1>2, <3>1, <3>3
  <2>4. CASE LoseClaim(w) \/ CrashEvent(w) \/ Handler(w) \/ Throw(w) \/ DispatchFails(w)
    BY <2>4 DEF LoseClaim, CrashEvent, Ledger!ClaimLost, Ledger!Crash, Handler, Throw,
                DispatchFails, Lookup, Screen, Batch, Release, Dispatch, Abandon, Resolve,
                Convert, Find, End, Goto, Ledger!Handle, events
  <2> QED BY <1>2, <1>3, <2>1, <2>2, <2>3, <2>4 DEF Webhook
<1>4. ASSUME NEW e \in Events, ExpireClaim(e)
      PROVE  ledger' = [ledger EXCEPT ![e].live = FALSE]
  BY <1>4 DEF ExpireClaim, Ledger!Expire
<1> QED BY <1>1, <1>3, <1>4

\* What a step of the webhook leaves alone.
LEMMA Stable ==
  ASSUME Inv, NEW w \in Workers, Webhook(w)
  PROVE  /\ mint' = mint /\ sess' = sess /\ history' = history
         /\ job'.attempts = job.attempts
         /\ \A s \in Sessions : /\ grant[s] = "granted" => grant'[s] = "granted"
                                /\ grant[s] # "none" => grant'[s] # "none"
                                /\ sub[s] = "paid" => sub'[s] = "paid"
<1>1. CASE \E e \in Events : DeliverEvent(w, e)
  BY <1>1 DEF DeliverEvent, rest, stripe
<1>2. CASE ClaimEvent(w) \/ LoseClaim(w) \/ FinishEvent(w) \/ CrashEvent(w)
  BY <1>2 DEF ClaimEvent, LoseClaim, FinishEvent, CrashEvent, rest, stripe
<1>3. CASE Lookup(w) \/ Resolve(w) \/ Find(w) \/ Throw(w) \/ DispatchFails(w)
  BY <1>3 DEF Lookup, Resolve, Find, Throw, DispatchFails, rest, stripe
<1>4. CASE Screen(w)
  <2>1. PriorTrial = "disputed" =>
          history = "disputed" /\ \A t \in Sessions : grant[t] # "granted"
    BY DEF PriorTrial
  <2> QED BY <1>4, <2>1 DEF Inv, TypeOK, HistoryOK, Screen
<1>5. CASE Batch(w) \/ Convert(w)
  BY <1>5 DEF Inv, TypeOK, Batch, Convert, stripe
<1>6. CASE Release(w) \/ Abandon(w)
  BY <1>6 DEF Inv, TypeOK, Release, Abandon, stripe
<1>7. CASE Dispatch(w)
  BY <1>7 DEF Dispatch, stripe
<1> QED BY <1>1, <1>2, <1>3, <1>4, <1>5, <1>6, <1>7 DEF Webhook, Handler

\* What an invocation does to its own record, whatever ledger step it takes.
LEMMA WorkerStep ==
  ASSUME Inv, NEW w \in Workers, Webhook(w)
  PROVE  /\ \A v \in Workers \ {w} : worker'[v] = worker[v] /\ plan'[v] = plan[v]
         /\ WorkerOK'
<1> DEFINE Rec == [pc: {"idle", "claim", "handle", "finish"}, event: Events \cup {None},
                   outcome: {"ok", "skip", "throw"} \cup {None}]
<1> DEFINE Sound(r) == /\ r \in Rec
                       /\ r.pc = "finish" => r.outcome \in {"ok", "skip", "throw"}
                       /\ r.pc # "idle" => r.event \in Events /\ Happened(r.event)
<1>1. \A v \in Workers : Sound(worker[v])
  BY DEF Inv, WorkerOK
<1> DEFINE Listed(r) == r.pc # "idle" => ledger'[r.event].status # "absent"
<1>0. \A v \in Workers : Listed(worker[v])
  BY LedgerStep DEF Inv, WorkerOK
<1>2. PICK r : /\ Sound(r) /\ Listed(r)
               /\ worker' = worker \/ worker' = [worker EXCEPT ![w] = r]
  <2>1. CASE \E e \in Events : DeliverEvent(w, e)
    <3>1. PICK e \in Events : DeliverEvent(w, e)
      BY <2>1
    <3>2. Sound([pc |-> "claim", event |-> e, outcome |-> None])
      BY <3>1 DEF DeliverEvent
    <3>3. CASE e \in Foreign
      BY <1>0, <1>1, <3>1, <3>3
      DEF DeliverEvent, Ledger!Deliver, Ledger!Duplicate, Ledger!Record
    <3>4. CASE e \notin Foreign
      <4>1. ledger'[e].status # "absent"
        BY <3>1, <3>4 DEF Inv, LedgerOK, DeliverEvent, Ledger!Deliver, Ledger!Duplicate,
                          Ledger!Record, Ledger!SetStatus
      <4> QED BY <3>1, <3>2, <3>4, <4>1
          DEF DeliverEvent, Ledger!Deliver, Ledger!Duplicate, Ledger!Record
    <3> QED BY <3>3, <3>4
  <2>2. CASE ClaimEvent(w)
    <3>1. Sound([worker[w] EXCEPT !.pc = "handle"])
      BY <2>2, <1>1 DEF ClaimEvent, Ledger!Claim
    <3>2. Listed([worker[w] EXCEPT !.pc = "handle"])
      BY <2>2, <1>0, <1>1 DEF ClaimEvent, Ledger!Claim
    <3> QED BY <2>2, <3>1, <3>2 DEF Inv, WorkerOK, ClaimEvent, Ledger!Claim
  <2>3. CASE LoseClaim(w) \/ FinishEvent(w) \/ CrashEvent(w)
    <3>1. Sound(Ledger!Idle) /\ Listed(Ledger!Idle)
      BY DEF Ledger!Idle
    <3> QED BY <2>3, <3>1 DEF LoseClaim, FinishEvent, CrashEvent, Ledger!ClaimLost,
                              Ledger!Finish, Ledger!Crash
  <2>4. CASE Handler(w) \/ Throw(w) \/ DispatchFails(w)
    <3>1. worker' = worker \/ \E o \in {"ok", "skip", "throw"} : Ledger!Handle(w, o)
      BY <2>4 DEF Handler, Throw, DispatchFails, Lookup, Screen, Batch, Release, Dispatch,
                  Abandon, Resolve, Convert, Find, End, Goto, events
    <3>2. ASSUME NEW o \in {"ok", "skip", "throw"}, Ledger!Handle(w, o)
          PROVE  /\ Sound([worker[w] EXCEPT !.pc = "finish", !.outcome = o])
                 /\ Listed([worker[w] EXCEPT !.pc = "finish", !.outcome = o])
                 /\ worker' = [worker EXCEPT ![w] = [worker[w] EXCEPT !.pc = "finish",
                                                                      !.outcome = o]]
      BY <3>2, <1>0, <1>1 DEF Inv, WorkerOK, Ledger!Handle
    <3> QED BY <1>0, <1>1, <3>1, <3>2
  <2> QED BY <2>1, <2>2, <2>3, <2>4 DEF Webhook
<1>3. \A v \in Workers \ {w} : worker'[v] = worker[v]
  BY <1>2 DEF Inv, WorkerOK
<1>4. \A v \in Workers \ {w} : plan'[v] = plan[v]
  BY DEF Inv, TypeOK, Webhook, DeliverEvent, ClaimEvent, LoseClaim, FinishEvent, CrashEvent,
         Handler, Throw, DispatchFails, Lookup, Screen, Batch, Release, Dispatch, Abandon,
         Resolve, Convert, Find, End, Goto, NoPlan
<1>5. WorkerOK'
  <2>1. \A e \in Events : Happened(e) => Happened(e)'
    <3> SUFFICES ASSUME NEW e \in Events, Happened(e) PROVE Happened(e)'
      OBVIOUS
    <3>1. sess' = sess /\ \A s \in Sessions : sub[s] = "paid" => sub'[s] = "paid"
      BY Stable
    <3> QED BY <3>1 DEF Happened, Events, Paid
  <2>2. worker' \in [Workers -> Rec]
    BY <1>2 DEF Inv, WorkerOK
  <2>3. \A v \in Workers : Sound(worker'[v]) /\ Listed(worker'[v])
    BY <1>0, <1>1, <1>2 DEF Inv, WorkerOK
  <2> QED BY <2>1, <2>2, <2>3 DEF WorkerOK
<1> QED BY <1>3, <1>4, <1>5

\* The screen's verdict: what it says of the card's history.
LEMMA Verdicts ==
  ASSUME Inv
  PROVE  /\ PriorTrial \in {"none", "used", "disputed"}
         /\ PriorTrial = "none" => history = "none"
         /\ PriorTrial = "used" =>
              history # "disputed" \/ \E t \in Sessions : grant[t] = "granted"
BY HistoriesAssumption DEF HistoriesAssumption, Inv, TypeOK, PriorTrial

\* The steps of a handler keep its plan well formed.
LEMMA PlanType ==
  ASSUME Inv, NEW w \in Workers, Webhook(w)
  PROVE  plan' \in [Workers -> [at: {"rest", "lookup", "screen", "batch", "release",
                                     "dispatch", "abandon", "resolve", "convert", "find"},
                                verdict: {None, "none", "used", "disputed"}]]
<1>1. CASE (\E e \in Events : DeliverEvent(w, e)) \/ LoseClaim(w) \/ FinishEvent(w)
  BY <1>1 DEF Inv, TypeOK, DeliverEvent, LoseClaim, FinishEvent
<1>2. CASE ClaimEvent(w)
  <2>1. worker[w].event \in Events
    BY <1>2 DEF Inv, WorkerOK, ClaimEvent, Ledger!Claim
  <2>2. FirstStep(worker[w].event) \in {"lookup", "abandon", "resolve"}
    BY <2>1 DEF FirstStep, Events, Paid
  <2> QED BY <1>2, <2>2 DEF Inv, TypeOK, ClaimEvent
<1>3. CASE CrashEvent(w) \/ Throw(w) \/ DispatchFails(w)
  BY <1>3 DEF Inv, TypeOK, CrashEvent, Throw, DispatchFails, End, NoPlan
<1>4. CASE Screen(w)
  BY <1>4, Verdicts DEF Inv, TypeOK, Screen
<1>5. CASE Handler(w) /\ ~Screen(w)
  BY <1>5 DEF Inv, TypeOK, Handler, Lookup, Batch, Release, Dispatch, Abandon, Resolve, Convert,
              Find,
              End, Goto, NoPlan
<1> QED BY <1>1, <1>2, <1>3, <1>4, <1>5 DEF Webhook

\* A webhook step leaves a well-formed state.
LEMMA WebhookType == ASSUME Inv, NEW w \in Workers, Webhook(w) PROVE TypeOK'
<1>1. JobType'
  BY ZenonT(60) DEF Inv, TypeOK, JobType, Webhook, DeliverEvent, ClaimEvent, LoseClaim, FinishEvent,
         CrashEvent, Handler, Throw, DispatchFails, Lookup, Screen, Batch, Release, Dispatch,
         Abandon, Resolve, Convert, Find, rest
<1>2. /\ sub' \in [Sessions -> {"none", "trialing", "charging", "paid", "unpaid", "canceled"}]
      /\ grant' \in [Sessions -> {"none", "granted", "refused"}]
  BY DEF Inv, TypeOK, Webhook, DeliverEvent, ClaimEvent, LoseClaim, FinishEvent,
         CrashEvent, Handler, Throw, DispatchFails, Lookup, Screen, Batch, Release, Dispatch,
         Abandon, Resolve, Convert, Find, rest, stripe
<1>3. known' = known /\ mint' = mint /\ sess' = sess /\ history' = history
  BY DEF Webhook, DeliverEvent, ClaimEvent, LoseClaim, FinishEvent, CrashEvent, Handler,
         Throw, DispatchFails, Lookup, Screen, Batch, Release, Dispatch, Abandon, Resolve, Convert,
         Find,
         rest, stripe
<1>4. run' = run \/ run' = TRUE
  BY DEF Webhook, DeliverEvent, ClaimEvent, LoseClaim, FinishEvent, CrashEvent, Handler,
         Throw, DispatchFails, Lookup, Screen, Batch, Release, Dispatch, Abandon, Resolve, Convert,
         Find,
         rest
<1>5. run' \in BOOLEAN
  BY <1>4 DEF Inv, TypeOK
<1>6. faults' \in 0..MaxFaults
  BY AttemptsAssumption
  DEF AttemptsAssumption, Inv, TypeOK, Fault, Webhook, DeliverEvent, ClaimEvent, LoseClaim,
      FinishEvent, CrashEvent, Handler, Throw, DispatchFails, Lookup, Screen, Batch, Release,
      Dispatch, Abandon, Resolve, Convert, Find
<1> QED BY <1>1, <1>2, <1>3, <1>5, <1>6, PlanType DEF Inv, TypeOK, JobType

\* A completed event goes on to the release on a card without a history.
LEMMA BatchScreens ==
  ASSUME Inv, NEW w \in Workers, Batch(w), plan[w].verdict = "none"
  PROVE  Screened'
<1>1. sess[This(w)] = "complete" /\ This(w) \in Sessions
  BY DEF Inv, WorkerOK, PlanOK, PlanFor, Batch, Happened, This, Events, Paid
<1>2. history = "none" /\ history' = history /\ sess' = sess
  BY DEF Inv, PlanOK, PlanFor, Batch, stripe
<1>3. grant'[This(w)] # "none"
  BY <1>1 DEF Inv, TypeOK, Batch
<1> QED BY <1>1, <1>2, <1>3 DEF Screened

\* An invoice goes on to the release with its session's grant in the ledger.
LEMMA FindScreens ==
  ASSUME Inv, NEW w \in Workers, Find(w)
  PROVE  Screened
<1>1. /\ This(w) \in Sessions /\ worker[w].event[1] \in Paid
      /\ worker[w].event = <<worker[w].event[1], This(w)>>
      /\ ledger[worker[w].event].status # "absent"
  BY DEF Inv, WorkerOK, PlanOK, PlanFor, Find, This, Events
<1>2. Happened(worker[w].event) /\ grant[This(w)] # "none"
  BY DEF Inv, WorkerOK, PlanOK, PlanFor, Find
<1>3. sess[This(w)] = "complete"
  BY <1>1, <1>2 DEF Inv, HistoryOK, Happened, Paid, This
<1> QED BY <1>1, <1>2, <1>3 DEF Screened

\* Each step of a handler has what the next one relies on.
LEMMA WebhookPlan ==
  ASSUME Inv, NEW w \in Workers, Webhook(w), Screened => Screened'
  PROVE  \A v \in Workers : PlanFor(v)'
<1>1. history' = history
  BY Stable
<1>0. \A v \in Workers : plan[v].at # "rest" => This(v) \in Sessions
  BY DEF Inv, WorkerOK, PlanOK, PlanFor, This, Events
<1>2. ASSUME NEW v \in Workers \ {w} PROVE PlanFor(v)'
  <2>1. worker'[v] = worker[v] /\ plan'[v] = plan[v] /\ This(v)' = This(v)
    BY WorkerStep DEF This
  <2>2. plan[v].at # "rest" /\ grant[This(v)] # "none" => grant'[This(v)] # "none"
    BY <1>0, Stable
  <2> QED BY <1>1, <2>1, <2>2 DEF Inv, PlanOK, PlanFor
<1>3. plan'[w] = NoPlan => PlanFor(w)'
  BY DEF PlanFor, NoPlan
<1>4. PlanFor(w)'
  <2>1. CASE (\E e \in Events : DeliverEvent(w, e)) \/ LoseClaim(w) \/ FinishEvent(w)
    <3>1. plan' = plan
      BY <2>1 DEF DeliverEvent, LoseClaim, FinishEvent
    <3>2. worker[w].pc # "handle"
      <4>1. CASE \E e \in Events : DeliverEvent(w, e)
        <5>1. worker[w] = Ledger!Idle
          BY <4>1 DEF DeliverEvent, Ledger!Deliver, Ledger!Duplicate, Ledger!Record
        <5> QED BY <5>1 DEF Ledger!Idle
      <4>2. CASE LoseClaim(w) \/ FinishEvent(w)
        BY <4>2 DEF LoseClaim, FinishEvent, Ledger!ClaimLost, Ledger!Finish
      <4> QED BY <2>1, <4>1, <4>2
    <3> QED BY <3>1, <3>2 DEF Inv, PlanOK, PlanFor
  <2>2. CASE ClaimEvent(w)
    <3>1. worker[w].event \in Events
      BY <2>2 DEF Inv, WorkerOK, ClaimEvent, Ledger!Claim
    <3>2. worker'[w].pc = "handle" /\ worker'[w].event = worker[w].event
      BY <2>2 DEF Inv, WorkerOK, ClaimEvent, Ledger!Claim
    <3>3. plan'[w].at = FirstStep(worker[w].event)
      BY <2>2 DEF Inv, TypeOK, ClaimEvent
    <3> QED BY <3>1, <3>2, <3>3 DEF PlanFor, FirstStep, Events, Paid
  <2>3. CASE CrashEvent(w) \/ Throw(w) \/ DispatchFails(w) \/ Dispatch(w) \/ Abandon(w)
    BY <2>3, <1>3 DEF Inv, TypeOK, CrashEvent, Throw, DispatchFails, Dispatch, Abandon, End
  <2>4. CASE Lookup(w)
    BY <2>4, <1>3 DEF Inv, TypeOK, PlanOK, PlanFor, Lookup, End, Goto, events
  <2>5. CASE Screen(w)
    <3>1. worker' = worker /\ plan'[w] = [at |-> "batch", verdict |-> PriorTrial]
      BY <2>5 DEF Inv, TypeOK, Screen, events
    <3> QED BY <2>5, <3>1, <1>1, Verdicts DEF Inv, PlanOK, PlanFor, Screen
  <2>6. CASE Batch(w)
    <3>1. CASE plan[w].verdict = "none"
      <4>1. worker' = worker /\ plan'[w].at = "release"
        BY <2>6, <3>1 DEF Inv, TypeOK, Batch, Goto, events
      <4> QED BY <2>6, <3>1, <4>1, BatchScreens DEF Inv, PlanOK, PlanFor, Batch
    <3>2. CASE plan[w].verdict # "none"
      BY <2>6, <3>2, <1>3 DEF Inv, TypeOK, Batch, End
    <3> QED BY <3>1, <3>2
  <2>7. CASE Release(w)
    <3>1. worker' = worker /\ plan'[w].at = "dispatch"
      BY <2>7 DEF Inv, TypeOK, Release, Goto, events
    <3> QED BY <2>7, <3>1 DEF Inv, PlanOK, PlanFor, Release
  <2>8. CASE Resolve(w)
    <3>1. CASE plan'[w] = NoPlan
      BY <3>1, <1>3
    <3>2. CASE plan'[w] # NoPlan
      <4>1. /\ grant' = grant /\ grant[This(w)] # "none"
            /\ worker' = worker /\ plan'[w].at = "convert"
        BY <2>8, <3>2 DEF Inv, TypeOK, Resolve, End, Goto, events, rest
      <4> QED BY <2>8, <4>1 DEF Inv, PlanOK, PlanFor, Resolve, This
    <3> QED BY <3>1, <3>2
  <2>9. CASE Convert(w)
    <3>1. worker' = worker /\ plan'[w].at = "find"
      BY <2>9 DEF Inv, TypeOK, Convert, Goto, events
    <3>2. grant'[This(w)] # "none"
      BY <2>9, <1>0, Stable DEF Inv, PlanOK, PlanFor, Convert
    <3> QED BY <2>9, <3>1, <3>2 DEF Inv, PlanOK, PlanFor, Convert, This
  <2>10. CASE Find(w)
    <3>1. CASE plan'[w] = NoPlan
      BY <3>1, <1>3
    <3>2. CASE plan'[w] # NoPlan
      <4>1. worker' = worker /\ plan'[w].at = "release"
        BY <2>10, <3>2 DEF Inv, TypeOK, Find, End, Goto, events
      <4> QED BY <2>10, <4>1, FindScreens DEF Inv, PlanOK, PlanFor, Find
    <3> QED BY <3>1, <3>2
  <2> QED BY <2>1, <2>2, <2>3, <2>4, <2>5, <2>6, <2>7, <2>8, <2>9, <2>10 DEF Webhook, Handler
<1> QED BY <1>2, <1>4

\* A webhook step keeps the invariant.
LEMMA WebhookInv == ASSUME Inv, NEW w \in Workers, Webhook(w) PROVE Inv'
<1>1. TypeOK'
  BY WebhookType
<1>2. MintsOK'
  BY Stable DEF Inv, MintsOK
<1>3. WorkerOK'
  BY WorkerStep
<1>8. LedgerOK'
  BY LedgerStep
<1>4. Screened => Screened'
  BY Stable, LedgerStep DEF Screened, Events, Paid
<1>7. PlanOK'
  BY <1>4, WebhookPlan DEF PlanOK
<1>5. HistoryOK'
  <2>0. \A t \in Sessions : grant[t] = "granted" => grant'[t] = "granted"
    BY Stable
  <2>1. CASE Screen(w)
    <3>1. This(w) \in Sessions /\ sess[This(w)] = "complete"
      BY <2>1 DEF Inv, WorkerOK, PlanOK, PlanFor, Screen, Happened, This, Events, Paid
    <3>2. \A s \in Sessions : s # This(w) => sub'[s] = sub[s]
      BY <2>1 DEF Inv, TypeOK, Screen
    <3>3. \/ sub'[This(w)] = sub[This(w)]
          \/ sub'[This(w)] = "canceled"
          \/ sub'[This(w)] = "charging" /\ PriorTrial = "used"
      BY <2>1, <3>1 DEF Inv, TypeOK, Screen
    <3>4. sess' = sess /\ grant' = grant /\ history' = history
      BY <2>1 DEF Screen
    <3> QED BY <3>1, <3>2, <3>3, <3>4, Verdicts DEF Inv, HistoryOK
  <2>2. CASE ~Screen(w)
    <3>1. UNCHANGED <<sess, sub, history>>
      BY <2>2 DEF Webhook, DeliverEvent, ClaimEvent, LoseClaim, FinishEvent, CrashEvent,
                  Handler, Throw, DispatchFails, Lookup, Batch, Release, Dispatch, Abandon,
                  Resolve, Convert, Find, rest, stripe
    <3> QED BY <2>0, <3>1 DEF Inv, HistoryOK
  <2> QED BY <2>1, <2>2
<1>6. run' => Screened'
  <2>1. CASE Dispatch(w)
    BY <2>1, <1>4 DEF Inv, PlanOK, PlanFor, Dispatch
  <2>2. CASE ~Dispatch(w)
    <3>1. run' = run
      BY <2>2 DEF Webhook, DeliverEvent, ClaimEvent, LoseClaim, FinishEvent, CrashEvent,
                  Handler, Throw, DispatchFails, Lookup, Screen, Batch, Release, Abandon,
                  Resolve, Convert, Find, rest
    <3> QED BY <3>1, <1>4 DEF Inv
  <2> QED BY <2>1, <2>2
<1> QED BY <1>1, <1>2, <1>3, <1>5, <1>6, <1>7, <1>8 DEF Inv

\* The invariant is inductive.
LEMMA NextInv == Inv /\ [Next]_vars => Inv'
<1> SUFFICES ASSUME Inv, [Next]_vars PROVE Inv'
  OBVIOUS
<1>1. ASSUME NEW m \in Mints, API(m) PROVE Inv'
  BY <1>1, APIInv
<1>2. ASSUME NEW s \in Sessions, Stripe(s) PROVE Inv'
  BY <1>2, StripeInv
<1>3. ASSUME NEW w \in Workers, Webhook(w) PROVE Inv'
  BY <1>3, WebhookInv
<1>4. ASSUME NEW e \in Events, ExpireClaim(e) PROVE Inv'
  <2>1. /\ UNCHANGED <<plan, worker, job, mint, sess, sub, history, grant, run>>
        /\ UNCHANGED <<known, faults>>
    BY <1>4 DEF ExpireClaim, Ledger!Expire, rest, stripe
  <2>2. TypeOK' /\ MintsOK' /\ HistoryOK'
    BY <2>1 DEF Inv, TypeOK, MintsOK, HistoryOK
  <2> QED BY <1>4, <2>1, <2>2, LedgerStep, OutsideInv
<1>5. CASE UNCHANGED vars
  <2>1. /\ UNCHANGED <<plan, worker, job, mint, sess, sub, history, grant, run>>
        /\ UNCHANGED <<ledger, known, faults>>
    BY <1>5 DEF vars
  <2>2. TypeOK' /\ LedgerOK' /\ MintsOK' /\ HistoryOK'
    BY <2>1 DEF Inv, TypeOK, LedgerOK, MintsOK, HistoryOK
  <2> QED BY <2>1, <2>2, OutsideInv
<1> QED BY <1>1, <1>2, <1>3, <1>4, <1>5 DEF Next

\* The invariant holds of the funnel.
LEMMA InvHolds == Spec => []Inv
<1> QED BY InitInv, NextInv, PTL DEF Spec

----------------------------------------------------------------------------
\* Job rows, sessions, grants and handlers' plans stay well formed.
THEOREM TypeCorrect == Spec => []TypeOK
<1>1. Inv => TypeOK
  BY DEF Inv
<1> QED BY <1>1, InvHolds, PTL

\* No Workflow instance before a completed session's trial is in the ledger, nor by a
\* completed event alone on a card that had a trial, whatever handlers run again,
\* overlap or fail, for any cap and card.
THEOREM RunIsScreenedCorrect == Spec => []RunIsScreened
<1>1. Inv => RunIsScreened
  BY DEF Inv, Screened, RunIsScreened
<1> QED BY <1>1, InvHolds, PTL

\* Every session Stripe ever made has cost the job one of its attempts.
THEOREM MintsAreCountedCorrect == Spec => []MintsAreCounted
<1>1. Inv => MintsAreCounted
  <2> SUFFICES ASSUME Inv PROVE MintsAreCounted
    OBVIOUS
  <2> DEFINE Made == {s \in Sessions : sess[s] # "absent"}
  <2>1. job.attempts \in Nat
    BY AttemptsAssumption DEF AttemptsAssumption, Inv, TypeOK
  <2>2. Made \subseteq 1..job.attempts
    BY <2>1 DEF Inv, MintsOK, Sessions
  <2>3. IsFiniteSet(1..job.attempts) /\ Cardinality(1..job.attempts) = job.attempts
    <3>1. 1 \in Int /\ job.attempts \in Int
      BY <2>1
    <3>2. /\ IsFiniteSet(1..job.attempts)
          /\ Cardinality(1..job.attempts) =
               IF 1 > job.attempts THEN 0 ELSE job.attempts - 1 + 1
      BY <3>1, FS_Interval, Zenon
    <3> QED BY <2>1, <3>2
  <2>4. Cardinality(Made) <= Cardinality(1..job.attempts)
    BY <2>2, <2>3, FS_Subset
  <2> QED BY <2>3, <2>4 DEF MintsAreCounted
<1> QED BY <1>1, InvHolds, PTL

\* A paid job is never put back to awaiting payment or abandoned.
THEOREM PaidIsFinalCorrect == Spec => PaidIsFinal
<1>1. Inv /\ [Next]_vars => [job.pay = "paid" => job'.pay = "paid"]_vars
  <2> SUFFICES ASSUME Inv, Next, job.pay = "paid" PROVE job'.pay = "paid"
    OBVIOUS
  <2>1. ASSUME NEW m \in Mints, API(m) PROVE job'.pay = "paid"
    BY <2>1 DEF Inv, TypeOK, API, Replay, Reuse, Supersede, Bump, Create, Attach, MintLost,
                Attachable
  <2>2. ASSUME NEW s \in Sessions, Stripe(s) PROVE job' = job
    BY <2>2 DEF Stripe, Pay, ExpireSession, ChargeSettles
  <2>3. ASSUME NEW w \in Workers, Webhook(w) PROVE job'.pay = "paid"
    BY <2>3 DEF Inv, TypeOK, Webhook, DeliverEvent, ClaimEvent, LoseClaim, FinishEvent,
                CrashEvent, Handler, Throw, DispatchFails, Lookup, Screen, Batch, Release,
                Dispatch, Abandon, Resolve, Convert, Find, rest
  <2>4. ASSUME NEW e \in Events, ExpireClaim(e) PROVE job' = job
    BY <2>4 DEF ExpireClaim, rest
  <2> QED BY <2>1, <2>2, <2>3, <2>4 DEF Next
<1> QED BY <1>1, InvHolds, PTL DEF Spec, PaidIsFinal

\* Only the event of the session a job waits on abandons the job, and only after
\* that session has expired.
THEOREM AbandonNeedsExpiryCorrect == Spec => AbandonNeedsExpiry
<1>1. Inv /\ [Next]_vars =>
        [job.pay = "awaiting" /\ job'.pay = "abandoned"
           => job.session \in Sessions /\ sess[job.session] = "expired"]_vars
  <2> SUFFICES ASSUME Inv, Next, job.pay = "awaiting", job'.pay = "abandoned"
               PROVE  job.session \in Sessions /\ sess[job.session] = "expired"
    OBVIOUS
  <2>1. \A m \in Mints : ~API(m)
    BY ZenonT(60) DEF Inv, TypeOK, API, Replay, Reuse, Supersede, Bump, Create, Attach, MintLost
  <2>2. \A s \in Sessions : ~Stripe(s)
    BY DEF Stripe, Pay, ExpireSession, ChargeSettles
  <2>3. \A e \in Events : ~ExpireClaim(e)
    BY DEF ExpireClaim, rest
  <2>4. PICK w \in Workers : Webhook(w)
    BY <2>1, <2>2, <2>3 DEF Next
  <2>5. Abandon(w) /\ FindsJob(w)
    BY <2>4 DEF Inv, TypeOK, Webhook, DeliverEvent, ClaimEvent, LoseClaim, FinishEvent,
                CrashEvent, Handler, Throw, DispatchFails, Lookup, Screen, Batch, Release,
                Dispatch, Abandon, Resolve, Convert, Find, rest
  <2>6. worker[w].event \in Events /\ worker[w].event[1] = "expired" /\ Happened(worker[w].event)
    BY <2>5 DEF Inv, WorkerOK, PlanOK, PlanFor, Abandon
  <2> QED BY <2>5, <2>6 DEF FindsJob, This, Happened, Events, Paid
<1> QED BY <1>1, InvHolds, PTL DEF Spec, AbandonNeedsExpiry
=============================================================================

------------------------------- MODULE Submit -------------------------------
(***************************************************************************)
(* POST /v1/onboarding/submit: what one request does, await by await, to   *)
(* the quotas, the budget, the control plane and the shard, while other    *)
(* submits, of the same draft or of another one, do the same.              *)
(*                                                                         *)
(* A request may die at any await (an exception nothing catches, a Worker  *)
(* that is stopped); a write may be made and answered with an error.       *)
(*                                                                         *)
(* holds, crossed and dropped are history variables.  Abstracted: the form *)
(* and its validation, which spend mode the budget is in (it is only       *)
(* recorded), abuse signals, the organisation and the user.  Budget models *)
(* the alarm that settles a reservation nobody settles, and Checkout what  *)
(* becomes of the job once it waits for payment.                           *)
(***************************************************************************)
EXTENDS Quota, Sequences, FiniteSets

CONSTANTS
  Null,
  Drafts,
  Requests,     \* submits; a job bears the id its request minted
  DraftOf,      \* DraftOf[r]: the draft the request is for
  SubjectsOf,   \* SubjectsOf[r]: the quota subjects of its form, in order
  Candidates,   \* the slugs resolveAvailableSlug() tries, in order
  MaxDays,      \* bound: midnights
  MaxFaults     \* bound: requests that die, answers and writes lost

ASSUME SubmitAssumption ==
  /\ DraftOf \in [Requests -> Drafts]
  /\ SubjectsOf \in [Requests -> Seq(Subjects) \ {<<>>}]
  /\ \A r \in Requests : \A i, j \in DOMAIN SubjectsOf[r] :
       i # j => SubjectsOf[r][i] # SubjectsOf[r][j]  \* one of each type
  /\ Candidates \in Seq(STRING)
  /\ Null \notin Requests
  /\ MaxDays \in Nat /\ MaxFaults \in Nat

VARIABLES
  draft,     \* control plane: the onboarding_drafts rows
  sites,     \* control plane: per slug the request whose site has it, or Null
  jobs,      \* shard: the job rows, by the request that minted their id
  budget,    \* BudgetDO: the reservation of a request
  req,       \* per request: where it stands and what it holds in memory
  day, faults,  \* the bounded counters
  holds,     \* per request: the counts it has taken and not given back
  crossed,   \* subjects given back today a count of an earlier day
  dropped    \* requests that died, or whose reserve, shard insert, settle or
             \* release was made or not and answered with an error

runVars == <<draft, sites, jobs, budget>>
noteVars == <<holds, crossed, dropped>>
vars == <<quotaVars, runVars, req, day, faults, noteVars>>

Slugs == {Candidates[i] : i \in DOMAIN Candidates}
Mine(r) == SubjectsOf[r]
MySubjects(r) == {Mine(r)[i] : i \in DOMAIN Mine(r)}

Idle == [at |-> "idle", next |-> 1, undo |-> {}, then |-> Null, slug |-> Null, id |-> FALSE]

\* refused: turnstile_failed, quota_exceeded, policy_rejected, slug_unavailable,
\* trial_already_used, draft_closed or submit_conflict; accepted: with a checkout
\* session or without (checkout_unavailable).
Answers == {"refused", "submit_incomplete", "accepted", "no answer"}
Points == {"idle", "consume", "reserve", "screen", "slug", "batch", "reread", "insert",
           "settle", "unwind", "release", "replay"}

TypeOK ==
  /\ QuotaTypeOK
  /\ draft \in [Drafts -> [status : {"open", "rejected", "submitted"},
                           job : Requests \cup {Null}]]
  /\ sites \in [Slugs -> Requests \cup {Null}]
  /\ jobs \subseteq Requests
  /\ budget \in [Requests -> {"none", "open", "settled"}]
  /\ req \in [Requests -> [at : Points \cup Answers, next : Nat \ {0}, undo : SUBSET Subjects,
                           then : Answers \cup {"replay", Null}, slug : Slugs \cup {Null},
                           id : BOOLEAN]]
  /\ day \in 0..MaxDays /\ faults \in 0..MaxFaults
  /\ holds \in [Requests -> SUBSET (Subjects \X (0..MaxDays))]
  /\ crossed \subseteq Subjects
  /\ dropped \subseteq Requests

Init ==
  /\ QuotaInit
  /\ draft = [d \in Drafts |-> [status |-> "open", job |-> Null]]
  /\ sites = [g \in Slugs |-> Null]
  /\ jobs = {}
  /\ budget = [r \in Requests |-> "none"]
  /\ req = [r \in Requests |-> Idle]
  /\ day = 0 /\ faults = 0
  /\ holds = [r \in Requests |-> {}]
  /\ crossed = {} /\ dropped = {}

----------------------------------------------------------------------------
At(r, p) == req[r].at = p
Goto(r, p) == req' = [req EXCEPT ![r].at = p]
Answered(r) == req[r].at \in Answers
Fault == faults < MaxFaults /\ faults' = faults + 1

\* The answer, or the replay that makes it, needs nothing of what was held.
Answer(r, a) == req' = [req EXCEPT ![r] = [Idle EXCEPT !.at = a]]

\* releaseQuota() of some subjects, with what the request answers after it.
GiveBack(r, subjects, answer) ==
  IF subjects = {} THEN Answer(r, answer)
  ELSE req' = [req EXCEPT ![r] = [Idle EXCEPT !.at = "release", !.undo = subjects, !.then = answer]]

\* releaseReservations(), which settles the budget first.
Unwind(r, answer) ==
  req' = [req EXCEPT ![r] = [Idle EXCEPT !.at = "unwind", !.then = answer, !.id = req[r].id]]

\* What a draft that was read makes of a submit that cannot go on: a submitted
\* one, which stays submitted, is looked up on its shard.
Closed(status) == IF status = "submitted" THEN "replay" ELSE "refused"

\* The draft is read; one that is no longer open is replayed.
Receive(r) ==
  /\ At(r, "idle")
  /\ LET d == draft[DraftOf[r]]
     IN \/ d.status = "open" /\ Goto(r, "consume")
        \/ d.status # "submitted" /\ Answer(r, "refused")
        \/ d.status = "submitted" /\ Goto(r, "replay")
  /\ UNCHANGED <<quotaVars, runVars, day, faults, noteVars>>

\* Mutant: the last subject counted is not given back.
TakenFewer(r) == {Mine(r)[i] : i \in 1..(req[r].next - 2)}

\* What consumeQuota() has counted when a subject refuses.
Taken(r) == {Mine(r)[i] : i \in 1..(req[r].next - 1)}

\* consumeQuota(), one subject after the other.  An object always answers, or
\* the call throws, which nothing catches (Die).
Consume(r) ==
  LET s == Mine(r)[req[r].next]
  IN /\ At(r, "consume")
     /\ IF Denies(s)
        THEN /\ GiveBack(r, Taken(r), "refused")
             /\ UNCHANGED <<quotaVars, holds>>
        ELSE /\ Count(s)
             /\ holds' = [holds EXCEPT ![r] = @ \cup {<<s, day>>}]
             /\ req' = [req EXCEPT ![r].next = @ + 1,
                          ![r].at = IF req[r].next = Len(Mine(r)) THEN "reserve" ELSE @]
     /\ UNCHANGED <<runVars, day, faults, crossed, dropped>>

\* reserveBudget(): refused or unreachable, the submit goes on all the same;
\* when the answer is lost it goes on without the id of its reservation.
Reserve(r) ==
  /\ At(r, "reserve")
  /\ \/ /\ budget' = [budget EXCEPT ![r] = "open"]
        /\ req' = [req EXCEPT ![r].at = "screen", ![r].id = TRUE]
        /\ UNCHANGED <<faults, dropped>>
     \/ /\ Goto(r, "screen")
        /\ UNCHANGED <<budget, faults, dropped>>
     \/ /\ Fault
        /\ budget' = [budget EXCEPT ![r] = "open"]
        /\ dropped' = dropped \cup {r}
        /\ Goto(r, "screen")
  /\ UNCHANGED <<quotaVars, draft, sites, jobs, day, holds, crossed>>

\* The policy screen and setDraftPolicyScreen(), WHERE status IN (open, rejected).
Screened(status, verdict) ==
  IF status = "submitted" THEN status ELSE IF verdict = "reject" THEN "rejected" ELSE "open"

Screen(r) ==
  /\ At(r, "screen")
  /\ \E verdict \in {"pass", "reject", "error"} :
       /\ draft' = [draft EXCEPT ![DraftOf[r]].status = Screened(@, verdict)]
       /\ IF verdict = "reject" THEN Unwind(r, "refused") ELSE Goto(r, "slug")
  /\ UNCHANGED <<quotaVars, sites, jobs, budget, day, faults, noteVars>>

\* resolveAvailableSlug(), the first candidate nobody has yet, and
\* findTrialByEmail(), whose answer no state here decides.
ResolveSlug(r) ==
  /\ At(r, "slug")
  /\ LET free == {i \in DOMAIN Candidates : sites[Candidates[i]] = Null}
     IN \/ Unwind(r, "refused")
        \/ \E i \in free :
             /\ \A j \in free : i <= j
             /\ req' = [req EXCEPT ![r].at = "batch", ![r].slug = Candidates[i]]
  /\ UNCHANGED <<quotaVars, runVars, day, faults, noteVars>>

----------------------------------------------------------------------------
\* The control-plane batch: the site under its slug, which is unique, and the
\* transition of the draft, WHERE status = 'open'.
\* Mutant: the transition does not look at the status.
TransitionAlways(r) == [draft EXCEPT ![DraftOf[r]] = [status |-> "submitted", job |-> r]]

Transition(r) ==
  IF draft[DraftOf[r]].status = "open"
  THEN [draft EXCEPT ![DraftOf[r]] = [status |-> "submitted", job |-> r]]
  ELSE draft

BatchCommits(r) ==
  /\ sites[req[r].slug] = Null
  /\ sites' = [sites EXCEPT ![req[r].slug] = r]
  /\ draft' = Transition(r)

\* The batch commits, with or without the transition; commits and throws; or
\* throws and is rolled back.  What did not go through is answered from the draft
\* as it is then.
Batch(r) ==
  /\ At(r, "batch")
  /\ \/ /\ BatchCommits(r)
        /\ UNCHANGED faults
        /\ IF draft'[DraftOf[r]].job = r THEN Goto(r, "insert") ELSE Goto(r, "reread")
     \/ /\ BatchCommits(r)
        /\ Fault
        /\ Goto(r, "reread")
     \/ /\ UNCHANGED <<draft, sites>>
        /\ IF sites[req[r].slug] # Null THEN UNCHANGED faults ELSE Fault
        /\ Goto(r, "reread")
  /\ UNCHANGED <<quotaVars, jobs, budget, day, noteVars>>

CurrentDraft(r) ==
  /\ At(r, "reread")
  /\ Unwind(r, Closed(draft[DraftOf[r]].status))
  /\ UNCHANGED <<quotaVars, runVars, day, faults, noteVars>>

\* The shard batch: the job row and the media of the draft.
InsertJob(r) ==
  /\ At(r, "insert")
  /\ \/ /\ jobs' = jobs \cup {r}
        /\ Goto(r, "settle")
        /\ UNCHANGED <<faults, dropped>>
     \/ /\ Fault
        /\ Unwind(r, "submit_incomplete")
        /\ \/ UNCHANGED <<jobs, dropped>>
           \/ jobs' = jobs \cup {r} /\ dropped' = dropped \cup {r}
  /\ UNCHANGED <<quotaVars, draft, sites, budget, day, holds, crossed>>

----------------------------------------------------------------------------
\* settleBudget() at zero, best effort, of a reservation whose id is known.
SettleBudget(r) ==
  \/ /\ budget' = [budget EXCEPT ![r] = IF req[r].id THEN "settled" ELSE @]
     /\ UNCHANGED <<faults, dropped>>
  \/ /\ req[r].id
     /\ Fault
     /\ dropped' = dropped \cup {r}
     /\ UNCHANGED budget

\* The job is durable: createCheckoutSession() answers or it does not.
Settle(r) ==
  /\ At(r, "settle")
  /\ SettleBudget(r)
  /\ Answer(r, "accepted")
  /\ UNCHANGED <<quotaVars, draft, sites, jobs, day, holds, crossed>>

UnwindBudget(r) ==
  /\ At(r, "unwind")
  /\ SettleBudget(r)
  /\ GiveBack(r, MySubjects(r), req[r].then)
  /\ UNCHANGED <<quotaVars, draft, sites, jobs, day, holds, crossed>>

\* releaseQuota(): every release on its own, best effort.
ReleaseOne(r, s) ==
  /\ At(r, "release") /\ s \in req[r].undo
  /\ GiveBack(r, req[r].undo \ {s}, req[r].then)
  /\ \/ /\ Release(s)
        /\ holds' = [holds EXCEPT ![r] = {h \in @ : h[1] # s}]
        /\ crossed' = IF <<s, day>> \in holds[r] THEN crossed ELSE crossed \cup {s}
        /\ UNCHANGED <<faults, dropped>>
     \/ /\ Fault
        /\ dropped' = dropped \cup {r}
        /\ UNCHANGED <<quotaVars, holds, crossed>>
  /\ UNCHANGED <<runVars, day>>

----------------------------------------------------------------------------
\* replaySubmitted() of a submitted draft: the job it names is there or not.
Replay(r) ==
  /\ At(r, "replay")
  /\ IF draft[DraftOf[r]].job \in jobs THEN Answer(r, "accepted")
     ELSE Answer(r, "submit_incomplete")
  /\ UNCHANGED <<quotaVars, runVars, day, faults, noteVars>>

\* A request dies: what it took is neither given back nor settled.
Die(r) ==
  /\ ~ Answered(r) /\ ~ At(r, "idle")
  /\ Fault
  /\ Answer(r, "no answer")
  /\ dropped' = dropped \cup {r}
  /\ UNCHANGED <<quotaVars, runVars, day, holds, crossed>>

Midnight ==
  /\ day < MaxDays
  /\ day' = day + 1
  /\ NewDay
  /\ crossed' = {}
  /\ UNCHANGED <<runVars, req, faults, holds, dropped>>

Handle(r) ==
  \/ Receive(r) \/ Consume(r) \/ Reserve(r) \/ Screen(r) \/ ResolveSlug(r)
  \/ Batch(r) \/ CurrentDraft(r) \/ InsertJob(r) \/ Settle(r) \/ UnwindBudget(r)
  \/ (\E s \in Subjects : ReleaseOne(r, s)) \/ Replay(r)

Next == Midnight \/ \E r \in Requests : Handle(r) \/ Die(r)
Spec == Init /\ [][Next]_vars

----------------------------------------------------------------------------
\* The two windows of a subject count the submits that hold a count in it, the
\* lifetime one across midnights and whatever is lost; the daily one except when
\* a count of an earlier day was given back today, which QuotaDO takes out of
\* today's window whether or not it was counted there (QuotaDO.ts, release).
QuotaIsExact ==
  \A s \in Subjects :
    /\ s \notin crossed => used[s] = Cardinality({r \in Requests : <<s, day>> \in holds[r]})
    /\ Lifetime[s] # 0 =>
         life[s] = Cardinality({r \in Requests : \E h \in holds[r] : h[1] = s})

\* A submit that was answered, and lost no compensation, keeps a count with every
\* one of its subjects if its job was sold and with none otherwise, and never
\* keeps a reservation ("the reservation is settled at zero on every path before
\* the answer is written", submit.ts).
ReservationsMatchJob ==
  \A r \in Requests :
    Answered(r) /\ r \notin dropped =>
      /\ {h[1] : h \in holds[r]} = IF r \in jobs THEN MySubjects(r) ELSE {}
      /\ budget[r] # "open"

\* Whatever races it, a draft sells at most one job: a job row is the one its
\* draft names, its draft is submitted and its site stands (WHERE status = 'open' and the unique slug).
DraftNamesItsJob ==
  \A r \in jobs :
    /\ draft[DraftOf[r]] = [status |-> "submitted", job |-> r]
    /\ \E g \in Slugs : sites[g] = r

\* "If the CP batch commits and the shard write fails [...] the replay path
\* detects exactly that and re-creates the row with the SAME id" (submit.ts): a
\* replay that ends while no other submit of its draft runs leaves the job there.
Quiet(r) == \A q \in Requests \ {r} : DraftOf[q] = DraftOf[r] => Answered(q) \/ At(q, "idle")

ReplayRecovers ==
  [][\A r \in Requests :
       At(r, "replay") /\ Quiet(r) /\ req'[r].at \notin {"replay", "no answer"} =>
         draft'[DraftOf[r]].job \in jobs']_vars
=============================================================================

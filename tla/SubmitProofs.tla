---------------------------- MODULE SubmitProofs ----------------------------
(***************************************************************************)
(* Theorems about Submit: its type invariant, that a draft sells at most   *)
(* one job, that a submit which lost no compensation keeps what its        *)
(* outcome says, and that the quota windows count who holds a count, for   *)
(* any number of requests, drafts, subjects, slugs, midnights and faults.  *)
(***************************************************************************)
EXTENDS Submit, FiniteSetTheorems, TLAPS

Invocation == [at : Points \cup Answers, next : Nat \ {0}, undo : SUBSET Subjects,
               then : Answers \cup {"replay", Null}, slug : Slugs \cup {Null},
               id : BOOLEAN]
Row == [status : {"open", "rejected", "submitted"}, job : Requests \cup {Null}]
Endings == Answers \cup {"replay"}

\* The subjects a request holds a count with.
Held(r) == {h[1] : h \in holds[r]}

\* What a request has in memory where it stands.
InMemory(r) ==
  /\ At(r, "idle") => req[r].next = 1
  /\ At(r, "consume") => req[r].next <= Len(Mine(r))
  /\ At(r, "batch") => req[r].slug \in Slugs
  /\ At(r, "unwind") \/ At(r, "release") => req[r].then \in Endings

\* Points at which a request holds every count, and its reservation if it knows
\* the id of one.
Full == {"screen", "slug", "batch", "reread", "insert", "settle", "unwind"}

\* The counts a request holds where it stands, and what else it keeps if it lost no
\* compensation.
Counted(r) ==
  /\ At(r, "idle") \/ At(r, "consume") => Held(r) = Taken(r)
  /\ At(r, "reserve") \/ req[r].at \in Full => Held(r) = MySubjects(r)
  /\ At(r, "release") => req[r].undo \subseteq Held(r)

Keeps(r) ==
  /\ Counted(r)
  /\ r \notin dropped =>
       /\ At(r, "idle") \/ At(r, "consume") \/ At(r, "reserve") => budget[r] = "none"
       /\ req[r].at \in Full => req[r].id \/ budget[r] # "open"
       /\ At(r, "release") => Held(r) = req[r].undo /\ budget[r] # "open"
       /\ At(r, "replay") => Held(r) = {} /\ budget[r] # "open"
       /\ req[r].at \in Points => (r \in jobs <=> At(r, "settle"))
       /\ Answered(r) => /\ Held(r) = IF r \in jobs THEN MySubjects(r) ELSE {}
                         /\ budget[r] # "open"

\* A draft that names a job is submitted, and stays as it is; a request that
\* inserts its job has its draft and its site.
Submitted == \A d \in Drafts : draft[d].job # Null => draft[d].status = "submitted"
Sold(r) == /\ draft[DraftOf[r]] = [status |-> "submitted", job |-> r]
           /\ \E g \in Slugs : sites[g] = r
Selling == \A r \in Requests : At(r, "insert") \/ r \in jobs => Sold(r)

Inv ==
  /\ TypeOK
  /\ \A r \in Requests : InMemory(r) /\ Keeps(r)
  /\ Submitted
  /\ Selling

----------------------------------------------------------------------------
\* The four ways a step moves a request on.
LEMMA Typed == TypeOK => req \in [Requests -> Invocation] /\ draft \in [Drafts -> Row]
  BY DEF TypeOK, Invocation, Row

LEMMA IdleType ==
  /\ Idle \in Invocation
  /\ Idle = [at |-> "idle", next |-> 1, undo |-> {}, then |-> Null, slug |-> Null, id |-> FALSE]
  BY DEF Idle, Invocation, Points

LEMMA GotoMoves ==
  ASSUME req \in [Requests -> Invocation], NEW r \in Requests, NEW p \in Points \cup Answers,
         Goto(r, p)
  PROVE  /\ req' \in [Requests -> Invocation]
         /\ req'[r].at = p /\ req'[r].next = req[r].next /\ req'[r].undo = req[r].undo
         /\ req'[r].then = req[r].then /\ req'[r].slug = req[r].slug /\ req'[r].id = req[r].id
         /\ \A q \in Requests \ {r} : req'[q] = req[q]
<1> DEFINE moved == [req[r] EXCEPT !.at = p]
<1>1. req[r] \in Invocation
  OBVIOUS
<1>2. /\ moved \in Invocation
      /\ moved.at = p /\ moved.next = req[r].next /\ moved.undo = req[r].undo
      /\ moved.then = req[r].then /\ moved.slug = req[r].slug /\ moved.id = req[r].id
  BY <1>1 DEF Invocation
<1>3. req' = [req EXCEPT ![r] = moved]
  BY DEF Goto
<1> HIDE DEF moved
<1> QED
  BY <1>2, <1>3

LEMMA AnswerMoves ==
  ASSUME req \in [Requests -> Invocation], NEW r \in Requests, NEW p \in Endings, Answer(r, p)
  PROVE  /\ req' \in [Requests -> Invocation]
         /\ req'[r].at = p
         /\ \A q \in Requests \ {r} : req'[q] = req[q]
<1> DEFINE moved == [Idle EXCEPT !.at = p]
<1>1. moved \in Invocation /\ moved.at = p
  BY IdleType DEF Invocation, Endings, Points
<1>2. req' = [req EXCEPT ![r] = moved]
  BY DEF Answer
<1> HIDE DEF moved
<1> QED
  BY <1>1, <1>2

LEMMA UnwindMoves ==
  ASSUME req \in [Requests -> Invocation], NEW r \in Requests, NEW p \in Endings, Unwind(r, p)
  PROVE  /\ req' \in [Requests -> Invocation]
         /\ req'[r].at = "unwind" /\ req'[r].then = p /\ req'[r].id = req[r].id
         /\ \A q \in Requests \ {r} : req'[q] = req[q]
<1> DEFINE moved == [Idle EXCEPT !.at = "unwind", !.then = p, !.id = req[r].id]
<1>1. req[r].id \in BOOLEAN
  BY DEF Invocation
<1>2. moved \in Invocation /\ moved.at = "unwind" /\ moved.then = p /\ moved.id = req[r].id
  BY <1>1, IdleType DEF Invocation, Endings, Points
<1>3. req' = [req EXCEPT ![r] = moved]
  BY DEF Unwind
<1> HIDE DEF moved
<1> QED
  BY <1>2, <1>3

LEMMA GiveBackMoves ==
  ASSUME req \in [Requests -> Invocation], NEW r \in Requests, NEW p \in Endings,
         NEW subjects \in SUBSET Subjects, GiveBack(r, subjects, p)
  PROVE  /\ req' \in [Requests -> Invocation]
         /\ req'[r].at = IF subjects = {} THEN p ELSE "release"
         /\ subjects # {} => req'[r].undo = subjects /\ req'[r].then = p
         /\ \A q \in Requests \ {r} : req'[q] = req[q]
<1>1. CASE subjects = {}
  BY <1>1, AnswerMoves DEF GiveBack
<1>2. CASE subjects # {}
  <2> DEFINE moved == [Idle EXCEPT !.at = "release", !.undo = subjects, !.then = p]
  <2>1. /\ moved \in Invocation
        /\ moved.at = "release" /\ moved.undo = subjects /\ moved.then = p
    BY IdleType DEF Invocation, Endings, Points
  <2>2. req' = [req EXCEPT ![r] = moved]
    BY <1>2 DEF GiveBack
  <2> HIDE DEF moved
  <2> QED
    BY <1>2, <2>1, <2>2
<1> QED
  BY <1>1, <1>2

----------------------------------------------------------------------------
\* A request no step moves, whose counts, reservation and job stay, keeps what
\* it has.
LEMMA Elsewhere ==
  ASSUME NEW q \in Requests, InMemory(q), Keeps(q), req'[q] = req[q], holds'[q] = holds[q],
         budget'[q] = budget[q], q \in jobs' <=> q \in jobs, q \in dropped' <=> q \in dropped
  PROVE  InMemory(q)' /\ Keeps(q)'
<1>1. At(q, "idle")' = At(q, "idle") /\ At(q, "consume")' = At(q, "consume")
      /\ At(q, "reserve")' = At(q, "reserve") /\ At(q, "batch")' = At(q, "batch")
      /\ At(q, "unwind")' = At(q, "unwind") /\ At(q, "release")' = At(q, "release")
      /\ At(q, "replay")' = At(q, "replay") /\ At(q, "settle")' = At(q, "settle")
  BY DEF At
<1>2. Held(q)' = Held(q)
  BY DEF Held
<1>3. Taken(q)' = Taken(q) /\ MySubjects(q)' = MySubjects(q) /\ Mine(q)' = Mine(q)
  BY DEF Taken, MySubjects, Mine
<1>4. Answered(q)' = Answered(q)
  BY DEF Answered
<1>5. InMemory(q)'
  BY <1>1, <1>3 DEF InMemory
<1>6. Keeps(q)'
  BY <1>1, <1>2, <1>3, <1>4 DEF Keeps, Counted
<1> QED
  BY <1>5, <1>6

\* The subjects of a form.
LEMMA Form ==
  ASSUME NEW r \in Requests
  PROVE  /\ Mine(r) \in Seq(Subjects) /\ Mine(r) # <<>> /\ Len(Mine(r)) \in Nat \ {0}
         /\ \A i \in 1..Len(Mine(r)) : Mine(r)[i] \in Subjects
         /\ MySubjects(r) = {Mine(r)[i] : i \in 1..Len(Mine(r))}
         /\ MySubjects(r) \in SUBSET Subjects
<1>1. Mine(r) \in Seq(Subjects) /\ Mine(r) # <<>>
  BY SubmitAssumption DEF Mine
<1> HIDE DEF Mine
<1>2. DOMAIN Mine(r) = 1..Len(Mine(r))
  BY <1>1
<1> QED
  BY <1>1, <1>2 DEF MySubjects

\* What has been counted so far is of the form.
LEMMA TakenType ==
  ASSUME NEW r \in Requests, At(r, "consume"), InMemory(r), req[r].next \in Nat \ {0}
  PROVE  Taken(r) \in SUBSET Subjects
  BY Form DEF Taken, InMemory

Local(r) == InMemory(r) /\ Keeps(r)

LEMMA ReceiveStep ==
  ASSUME Inv, NEW r \in Requests, Receive(r)
  PROVE  TypeOK' /\ Local(r)'
<1>1. req \in [Requests -> Invocation]
  BY Typed DEF Inv
<1>2. PICK p \in {"consume", "replay", "refused"} :
        IF p = "consume" THEN Goto(r, p) ELSE Goto(r, p) \/ Answer(r, p)
  BY DEF Receive, Answers, Points
<1>3. /\ req' \in [Requests -> Invocation]
      /\ req'[r].at = p
      /\ p = "consume" => req'[r].next = req[r].next
  BY <1>1, <1>2, GotoMoves, AnswerMoves DEF Answers, Points, Endings
<1>4. At(r, "idle") /\ InMemory(r) /\ Keeps(r)
  BY DEF Receive, Inv
<1>5. req[r].next = 1
  BY <1>4 DEF InMemory
<1>6. Taken(r) = {}
  BY <1>5 DEF Taken
<1>7. /\ holds' = holds /\ budget' = budget /\ jobs' = jobs /\ dropped' = dropped
      /\ UNCHANGED <<draft, sites, used, life, day, faults, crossed>>
  BY DEF Receive, quotaVars, runVars, noteVars
<1>8. TypeOK'
  BY <1>3, <1>7 DEF Inv, TypeOK, QuotaTypeOK, Invocation
<1>9. InMemory(r)'
  BY <1>2, <1>3, <1>5, Form DEF InMemory, At, Mine
<1>10. Held(r)' = Held(r) /\ (p = "consume" => Taken(r)' = {})
  BY <1>3, <1>5, <1>7 DEF Held, Taken, Mine
<1>11. Keeps(r)'
  BY <1>2, <1>3, <1>4, <1>6, <1>7, <1>10 DEF Keeps, Counted, At, Answered, Answers, Points, Full
<1> QED
  BY <1>8, <1>9, <1>11 DEF Local

LEMMA ConsumeStep ==
  ASSUME Inv, NEW r \in Requests, Consume(r)
  PROVE  TypeOK' /\ Local(r)'
<1> DEFINE next == req[r].next
           s == Mine(r)[next]
<1>1. req \in [Requests -> Invocation] /\ next \in Nat \ {0} /\ req[r] \in Invocation
  BY Typed DEF Inv, Invocation
<1>2. At(r, "consume") /\ InMemory(r) /\ Keeps(r) /\ next <= Len(Mine(r))
  BY DEF Consume, Inv, InMemory
<1>3. Taken(r) \in SUBSET Subjects /\ s \in Subjects
  BY <1>1, <1>2, TakenType, Form
<1>4. /\ budget' = budget /\ jobs' = jobs /\ dropped' = dropped
      /\ UNCHANGED <<draft, sites, day, faults, crossed>>
  BY DEF Consume, runVars
<1>5. CASE Denies(s)
  <2>1. GiveBack(r, Taken(r), "refused") /\ holds' = holds /\ UNCHANGED quotaVars
    BY <1>5 DEF Consume
  <2>2. /\ req' \in [Requests -> Invocation]
        /\ req'[r].at = IF Taken(r) = {} THEN "refused" ELSE "release"
        /\ req'[r].at = "release" => req'[r].undo = Taken(r) /\ req'[r].then = "refused"
    <3>1. "refused" \in Endings
      BY DEF Endings, Answers
    <3> HIDE DEF s
    <3> QED
      BY <1>1, <1>3, <2>1, <3>1, GiveBackMoves
  <2>3. TypeOK'
    BY <1>4, <2>1, <2>2 DEF Inv, TypeOK, QuotaTypeOK, quotaVars, Invocation
  <2>4. InMemory(r)'
    BY <2>2 DEF InMemory, At, Endings, Answers
  <2>5. Held(r)' = Held(r)
    BY <2>1 DEF Held
  <2>6. Keeps(r)'
    BY <1>2, <1>4, <2>2, <2>5 DEF Keeps, Counted, At, Answered, Answers, Points, Full
  <2> QED
    BY <2>3, <2>4, <2>6 DEF Local
<1>6. CASE ~ Denies(s)
  <2> DEFINE at == IF next = Len(Mine(r)) THEN "reserve" ELSE "consume"
  <2>1. /\ Count(s)
        /\ holds' = [holds EXCEPT ![r] = @ \cup {<<s, day>>}]
        /\ req' = [req EXCEPT ![r] = [req[r] EXCEPT !.next = next + 1, !.at = at]]
    BY <1>2, <1>6 DEF Consume, At
  <2> DEFINE moved == [req[r] EXCEPT !.next = next + 1, !.at = at]
  <2>2. moved \in Invocation /\ moved.next = next + 1 /\ moved.at = at
    <3>1. next + 1 \in Nat \ {0} /\ at \in Points
      BY <1>1 DEF Points
    <3> HIDE DEF at
    <3> QED
      BY <1>1, <3>1 DEF Invocation
  <2>3. /\ req' \in [Requests -> Invocation]
        /\ req'[r].next = next + 1 /\ req'[r].at = at
    <3>1. req' = [req EXCEPT ![r] = moved]
      BY <2>1
    <3> HIDE DEF moved
    <3> QED
      BY <1>1, <2>2, <3>1
  <2>4. QuotaTypeOK'
    BY <1>3, <2>1, QuotaAssumption DEF Inv, TypeOK, QuotaTypeOK, Count
  <2>5. holds' \in [Requests -> SUBSET (Subjects \X (0..MaxDays))]
        /\ holds'[r] = holds[r] \cup {<<s, day>>}
    BY <1>3, <2>1 DEF Inv, TypeOK
  <2>6. TypeOK'
    BY <1>4, <2>3, <2>4, <2>5 DEF Inv, TypeOK, Invocation
  <2>7. InMemory(r)'
    BY <1>1, <1>2, <2>3, Form DEF InMemory, At, Mine
  <2>8. Held(r)' = Held(r) \cup {s}
    <3>1. \A x : x \in Held(r)' <=> \E h \in holds[r] \cup {<<s, day>>} : x = h[1]
      BY <2>5 DEF Held
    <3>2. \A x : x \in Held(r) <=> \E h \in holds[r] : x = h[1]
      BY DEF Held
    <3>3. <<s, day>>[1] = s
      OBVIOUS
    <3> HIDE DEF s
    <3> QED
      BY <3>1, <3>2, <3>3
  <2>9. Taken(r)' = Taken(r) \cup {s}
    <3>1. Taken(r)' = {Mine(r)[i] : i \in 1..next}
      BY <1>1, <2>3 DEF Taken, Mine
    <3>2. Taken(r) = {Mine(r)[i] : i \in 1..(next - 1)}
      BY DEF Taken
    <3> QED
      BY <1>1, <3>1, <3>2
  <2>10. next = Len(Mine(r)) => Taken(r)' = MySubjects(r)
    BY <1>1, <2>3, Form DEF Taken, Mine
  <2>11. MySubjects(r)' = MySubjects(r)
    BY DEF MySubjects, Mine
  <2>12. Keeps(r)'
    BY <1>2, <1>4, <2>3, <2>8, <2>9, <2>10, <2>11 DEF Keeps, Counted, At, Answered, Answers, Points, Full
  <2> QED
    BY <2>6, <2>7, <2>12 DEF Local
<1> QED
  BY <1>5, <1>6

LEMMA ReserveStep ==
  ASSUME Inv, NEW r \in Requests, Reserve(r)
  PROVE  TypeOK' /\ Local(r)'
<1>1. req \in [Requests -> Invocation] /\ req[r] \in Invocation
  BY Typed DEF Inv
<1>2. At(r, "reserve") /\ Keeps(r) /\ MySubjects(r)' = MySubjects(r)
  BY DEF Reserve, Inv, MySubjects, Mine
<1>3. /\ holds' = holds /\ jobs' = jobs
      /\ UNCHANGED <<used, life, draft, sites, day, crossed>>
  BY DEF Reserve, quotaVars
<1>4. Held(r)' = Held(r)
  BY <1>3 DEF Held
<1>5. /\ req' \in [Requests -> Invocation] /\ req'[r].at = "screen"
      /\ budget' \in [Requests -> {"none", "open", "settled"}]
      /\ faults' \in 0..MaxFaults /\ dropped' \subseteq Requests
      /\ \/ req'[r].id = TRUE /\ dropped' = dropped
         \/ budget' = budget /\ dropped' = dropped
         \/ r \in dropped'
  <2>1. /\ "screen" \in Points \cup Answers
        /\ budget \in [Requests -> {"none", "open", "settled"}]
        /\ faults \in 0..MaxFaults /\ dropped \subseteq Requests
    BY DEF Points, Inv, TypeOK
  <2>2. CASE /\ budget' = [budget EXCEPT ![r] = "open"]
             /\ req' = [req EXCEPT ![r].at = "screen", ![r].id = TRUE]
             /\ UNCHANGED <<faults, dropped>>
    <3> DEFINE moved == [req[r] EXCEPT !.at = "screen", !.id = TRUE]
    <3>1. moved \in Invocation /\ moved.at = "screen" /\ moved.id = TRUE
      BY <1>1 DEF Invocation, Points
    <3>2. req' = [req EXCEPT ![r] = moved]
      BY <2>2
    <3> HIDE DEF moved
    <3> QED
      BY <1>1, <2>1, <2>2, <3>1, <3>2
  <2>3. CASE Goto(r, "screen") /\ UNCHANGED <<budget, faults, dropped>>
    <3>1. req' \in [Requests -> Invocation] /\ req'[r].at = "screen"
      BY <1>1, <2>1, <2>3, GotoMoves
    <3> QED
      BY <2>1, <2>3, <3>1
  <2>4. CASE /\ Fault
             /\ budget' = [budget EXCEPT ![r] = "open"]
             /\ dropped' = dropped \cup {r}
             /\ Goto(r, "screen")
    <3>1. req' \in [Requests -> Invocation] /\ req'[r].at = "screen"
      BY <1>1, <2>1, <2>4, GotoMoves
    <3>2. faults' \in 0..MaxFaults
      BY <2>1, <2>4, SubmitAssumption DEF Fault
    <3> QED
      BY <2>1, <2>4, <3>1, <3>2
  <2> QED
    BY <2>2, <2>3, <2>4 DEF Reserve
<1>6. TypeOK'
  BY <1>3, <1>5 DEF Inv, TypeOK, QuotaTypeOK, Invocation
<1>7. InMemory(r)'
  BY <1>5 DEF InMemory, At
<1>8. Keeps(r)'
  BY <1>2, <1>3, <1>4, <1>5 DEF Keeps, Counted, At, Answered, Answers, Points, Full
<1> QED
  BY <1>6, <1>7, <1>8 DEF Local

\* A step of the same request that touches none of what it holds, from a point
\* where it holds everything to another, or to the unwinding.
LEMMA FullStep ==
  ASSUME Inv, NEW r \in Requests, req[r].at \in Full \ {"settle"},
         req' \in [Requests -> Invocation], req'[r].at \in Full \ {"settle"},
         req'[r].id = req[r].id,
         req'[r].at = "unwind" => req'[r].then \in Endings,
         req'[r].at = "batch" => req'[r].slug \in Slugs,
         holds' = holds, budget' = budget,
         r \notin dropped' => r \notin dropped /\ (r \in jobs' <=> r \in jobs)
  PROVE  Local(r)'
<1>1. Held(r)' = Held(r) /\ MySubjects(r)' = MySubjects(r)
  BY DEF Held, MySubjects, Mine
<1>2. Keeps(r)
  BY DEF Inv
<1>3. InMemory(r)'
  BY DEF InMemory, At, Full
<1>4. Keeps(r)'
  BY <1>1, <1>2 DEF Keeps, Counted, At, Answered, Answers, Points, Full
<1> QED
  BY <1>3, <1>4 DEF Local

LEMMA ScreenStep ==
  ASSUME Inv, NEW r \in Requests, Screen(r)
  PROVE  TypeOK' /\ Local(r)'
<1>1. req \in [Requests -> Invocation] /\ draft \in [Drafts -> Row] /\ DraftOf[r] \in Drafts
  BY Typed, SubmitAssumption DEF Inv
<1>2. "refused" \in Endings /\ "slug" \in Points \cup Answers
  BY DEF Endings, Answers, Points
<1>3. PICK verdict \in {"pass", "reject", "error"} :
        /\ draft' = [draft EXCEPT ![DraftOf[r]].status = Screened(@, verdict)]
        /\ IF verdict = "reject" THEN Unwind(r, "refused") ELSE Goto(r, "slug")
  BY DEF Screen
<1>4. /\ req' \in [Requests -> Invocation] /\ req'[r].id = req[r].id
      /\ \/ req'[r].at = "slug"
         \/ req'[r].at = "unwind" /\ req'[r].then = "refused"
  <2>1. CASE verdict = "reject"
    <3>1. Unwind(r, "refused")
      BY <1>3, <2>1
    <3> QED
      BY <1>1, <1>2, <3>1, UnwindMoves
  <2>2. CASE verdict # "reject"
    <3>1. Goto(r, "slug")
      BY <1>3, <2>2
    <3> QED
      BY <1>1, <1>2, <3>1, GotoMoves
  <2> QED
    BY <2>1, <2>2
<1>5. draft' \in [Drafts -> Row]
  BY <1>1, <1>3 DEF Row, Screened
<1>6. UNCHANGED <<used, life, sites, jobs, budget, day, faults, holds, crossed, dropped>>
      /\ req[r].at = "screen"
  BY DEF Screen, quotaVars, noteVars, At
<1>7. TypeOK'
  BY <1>4, <1>5, <1>6 DEF Inv, TypeOK, QuotaTypeOK, Invocation, Row
<1>8. Local(r)'
  BY <1>2, <1>4, <1>6, FullStep DEF Full
<1> QED
  BY <1>7, <1>8

LEMMA ResolveSlugStep ==
  ASSUME Inv, NEW r \in Requests, ResolveSlug(r)
  PROVE  TypeOK' /\ Local(r)'
<1>1. req \in [Requests -> Invocation] /\ req[r] \in Invocation
  BY Typed DEF Inv
<1>2. "refused" \in Endings
  BY DEF Endings, Answers
<1>3. UNCHANGED <<used, life, draft, sites, jobs, budget, day, faults, holds, crossed, dropped>>
      /\ req[r].at = "slug"
  BY DEF ResolveSlug, quotaVars, runVars, noteVars, At
<1>4. /\ req' \in [Requests -> Invocation] /\ req'[r].id = req[r].id
      /\ \/ req'[r].at = "unwind" /\ req'[r].then = "refused"
         \/ req'[r].at = "batch" /\ req'[r].slug \in Slugs
  <2>1. CASE Unwind(r, "refused")
    BY <1>1, <1>2, <2>1, UnwindMoves
  <2>2. ASSUME NEW i \in DOMAIN Candidates,
               req' = [req EXCEPT ![r].at = "batch", ![r].slug = Candidates[i]]
        PROVE  /\ req' \in [Requests -> Invocation] /\ req'[r].id = req[r].id
               /\ req'[r].at = "batch" /\ req'[r].slug \in Slugs
    <3> DEFINE slug == Candidates[i]
               moved == [req[r] EXCEPT !.at = "batch", !.slug = slug]
    <3>1. slug \in Slugs
      BY DEF Slugs
    <3>2. req' = [req EXCEPT ![r] = moved]
      BY <2>2
    <3>3. moved \in Invocation /\ moved.at = "batch" /\ moved.slug = slug /\ moved.id = req[r].id
      <4> HIDE DEF slug
      <4> QED
        BY <1>1, <3>1 DEF Invocation, Points
    <3> HIDE DEF moved, slug
    <3> QED
      BY <1>1, <3>1, <3>2, <3>3
  <2> QED
    BY <2>1, <2>2 DEF ResolveSlug
<1>5. TypeOK'
  BY <1>3, <1>4 DEF Inv, TypeOK, QuotaTypeOK, Invocation
<1>6. Local(r)'
  BY <1>2, <1>3, <1>4, FullStep DEF Full
<1> QED
  BY <1>5, <1>6

LEMMA BatchStep ==
  ASSUME Inv, NEW r \in Requests, Batch(r)
  PROVE  TypeOK' /\ Local(r)'
<1>1. /\ req \in [Requests -> Invocation] /\ draft \in [Drafts -> Row] /\ DraftOf[r] \in Drafts
      /\ req[r].at = "batch" /\ req[r].slug \in Slugs
  BY Typed, SubmitAssumption DEF Inv, InMemory, Batch, At
<1>2. "insert" \in Points \cup Answers /\ "reread" \in Points \cup Answers
  BY DEF Points
<1>3. Goto(r, "insert") \/ Goto(r, "reread")
  BY DEF Batch
<1>4. /\ req' \in [Requests -> Invocation] /\ req'[r].id = req[r].id
      /\ req'[r].at \in {"insert", "reread"}
  BY <1>1, <1>2, <1>3, GotoMoves
<1>5. UNCHANGED <<used, life, jobs, budget, day, holds, crossed, dropped>>
  BY DEF Batch, quotaVars, noteVars
<1>6. faults' \in 0..MaxFaults
  BY SubmitAssumption DEF Batch, Fault, Inv, TypeOK
<1>7. draft' \in [Drafts -> Row] /\ sites' \in [Slugs -> Requests \cup {Null}]
  <2>1. CASE BatchCommits(r)
    <3>1. [status |-> "submitted", job |-> r] \in Row
      BY DEF Row
    <3>2. draft' \in [Drafts -> Row]
      BY <1>1, <2>1, <3>1 DEF BatchCommits, Transition
    <3>3. sites' \in [Slugs -> Requests \cup {Null}]
      BY <1>1, <2>1 DEF BatchCommits, Inv, TypeOK
    <3> QED
      BY <3>2, <3>3
  <2>2. CASE UNCHANGED <<draft, sites>>
    BY <1>1, <2>2 DEF Inv, TypeOK
  <2> QED
    BY <2>1, <2>2 DEF Batch
<1>8. TypeOK'
  BY <1>4, <1>5, <1>6, <1>7 DEF Inv, TypeOK, QuotaTypeOK, Invocation, Row
<1>9. Local(r)'
  BY <1>1, <1>4, <1>5, FullStep DEF Full
<1> QED
  BY <1>8, <1>9

LEMMA CurrentDraftStep ==
  ASSUME Inv, NEW r \in Requests, CurrentDraft(r)
  PROVE  TypeOK' /\ Local(r)'
<1>1. req \in [Requests -> Invocation] /\ req[r].at = "reread"
  BY Typed DEF Inv, CurrentDraft, At
<1> DEFINE answer == Closed(draft[DraftOf[r]].status)
<1>2. answer \in Endings /\ Unwind(r, answer)
  BY DEF Endings, Answers, Closed, CurrentDraft
<1> HIDE DEF answer
<1>3. /\ req' \in [Requests -> Invocation] /\ req'[r].id = req[r].id
      /\ req'[r].at = "unwind" /\ req'[r].then = answer
  BY <1>1, <1>2, UnwindMoves
<1>4. UNCHANGED <<used, life, draft, sites, jobs, budget, day, faults, holds, crossed, dropped>>
  BY DEF CurrentDraft, quotaVars, runVars, noteVars
<1>5. TypeOK'
  BY <1>3, <1>4 DEF Inv, TypeOK, QuotaTypeOK, Invocation
<1>6. Local(r)'
  BY <1>1, <1>2, <1>3, <1>4, FullStep DEF Full
<1> QED
  BY <1>5, <1>6

LEMMA InsertJobStep ==
  ASSUME Inv, NEW r \in Requests, InsertJob(r)
  PROVE  TypeOK' /\ Local(r)'
<1>1. req \in [Requests -> Invocation] /\ req[r].at = "insert" /\ Keeps(r)
  BY Typed DEF Inv, InsertJob, At
<1>2. "settle" \in Points \cup Answers /\ "submit_incomplete" \in Endings
  BY DEF Points, Endings, Answers
<1>3. UNCHANGED <<used, life, draft, sites, budget, day, holds, crossed>>
  BY DEF InsertJob, quotaVars
<1>4. CASE jobs' = jobs \cup {r} /\ Goto(r, "settle") /\ UNCHANGED <<faults, dropped>>
  <2>1. /\ req' \in [Requests -> Invocation] /\ req'[r].id = req[r].id
        /\ req'[r].at = "settle"
    BY <1>1, <1>2, <1>4, GotoMoves
  <2>2. TypeOK'
    BY <1>3, <1>4, <2>1 DEF Inv, TypeOK, QuotaTypeOK, Invocation
  <2>3. InMemory(r)'
    BY <2>1 DEF InMemory, At
  <2>4. Held(r)' = Held(r) /\ MySubjects(r)' = MySubjects(r)
    BY <1>3 DEF Held, MySubjects, Mine
  <2>5. Keeps(r)'
    BY <1>1, <1>3, <1>4, <2>1, <2>4 DEF Keeps, Counted, At, Answered, Answers, Points, Full
  <2> QED
    BY <2>2, <2>3, <2>5 DEF Local
<1>5. CASE /\ Fault
           /\ Unwind(r, "submit_incomplete")
           /\ \/ UNCHANGED <<jobs, dropped>>
              \/ jobs' = jobs \cup {r} /\ dropped' = dropped \cup {r}
  <2>1. /\ req' \in [Requests -> Invocation] /\ req'[r].id = req[r].id
        /\ req'[r].at = "unwind" /\ req'[r].then = "submit_incomplete"
    BY <1>1, <1>2, <1>5, UnwindMoves
  <2>2. faults' \in 0..MaxFaults /\ jobs' \subseteq Requests /\ dropped' \subseteq Requests
    BY <1>5, SubmitAssumption DEF Fault, Inv, TypeOK
  <2>3. TypeOK'
    BY <1>3, <2>1, <2>2 DEF Inv, TypeOK, QuotaTypeOK, Invocation
  <2>4. Local(r)'
    BY <1>1, <1>2, <1>3, <1>5, <2>1, FullStep DEF Full
  <2> QED
    BY <2>3, <2>4
<1> QED
  BY <1>4, <1>5 DEF InsertJob

\* Settling leaves no reservation open that the request knows of, or is lost.
LEMMA SettleMoves ==
  ASSUME Inv, NEW r \in Requests, SettleBudget(r)
  PROVE  /\ budget' \in [Requests -> {"none", "open", "settled"}]
         /\ faults' \in 0..MaxFaults /\ dropped' \subseteq Requests
         /\ \A q \in Requests \ {r} : budget'[q] = budget[q] /\ (q \in dropped' <=> q \in dropped)
         /\ \/ r \in dropped'
            \/ dropped' = dropped /\ (req[r].id \/ budget[r] # "open" => budget'[r] # "open")
<1>1. /\ budget \in [Requests -> {"none", "open", "settled"}]
      /\ faults \in 0..MaxFaults /\ dropped \subseteq Requests
  BY DEF Inv, TypeOK
<1>2. CASE /\ budget' = [budget EXCEPT ![r] = IF req[r].id THEN "settled" ELSE @]
           /\ UNCHANGED <<faults, dropped>>
  BY <1>1, <1>2
<1>3. CASE Fault /\ dropped' = dropped \cup {r} /\ UNCHANGED budget
  <2>1. faults' \in 0..MaxFaults
    BY <1>1, <1>3, SubmitAssumption DEF Fault
  <2> QED
    BY <1>1, <1>3, <2>1
<1> QED
  BY <1>2, <1>3 DEF SettleBudget

LEMMA SettleStep ==
  ASSUME Inv, NEW r \in Requests, Settle(r)
  PROVE  TypeOK' /\ Local(r)'
<1>1. req \in [Requests -> Invocation] /\ req[r].at = "settle" /\ Keeps(r)
  BY Typed DEF Inv, Settle, At
<1>2. "accepted" \in Endings
  BY DEF Endings, Answers
<1>3. req' \in [Requests -> Invocation] /\ req'[r].at = "accepted"
  BY <1>1, <1>2, AnswerMoves DEF Settle
<1>4. UNCHANGED <<used, life, draft, sites, jobs, day, holds, crossed>>
  BY DEF Settle, quotaVars
<1>5. /\ budget' \in [Requests -> {"none", "open", "settled"}]
      /\ faults' \in 0..MaxFaults /\ dropped' \subseteq Requests
      /\ \/ r \in dropped'
         \/ dropped' = dropped /\ (req[r].id \/ budget[r] # "open" => budget'[r] # "open")
  BY SettleMoves DEF Settle
<1>6. TypeOK'
  BY <1>3, <1>4, <1>5 DEF Inv, TypeOK, QuotaTypeOK, Invocation
<1>7. InMemory(r)'
  BY <1>3 DEF InMemory, At
<1>8. Held(r)' = Held(r) /\ MySubjects(r)' = MySubjects(r)
  BY <1>4 DEF Held, MySubjects, Mine
<1>9. Keeps(r)'
  BY <1>1, <1>3, <1>4, <1>5, <1>8 DEF Keeps, Counted, At, Answered, Answers, Points, Full
<1> QED
  BY <1>6, <1>7, <1>9 DEF Local

LEMMA UnwindStep ==
  ASSUME Inv, NEW r \in Requests, UnwindBudget(r)
  PROVE  TypeOK' /\ Local(r)'
<1> DEFINE then == req[r].then
<1>1. /\ req \in [Requests -> Invocation] /\ req[r].at = "unwind" /\ Keeps(r)
      /\ then \in Endings /\ MySubjects(r) \in SUBSET Subjects
  BY Typed, Form DEF Inv, UnwindBudget, At, InMemory
<1>2. /\ req' \in [Requests -> Invocation]
      /\ req'[r].at = IF MySubjects(r) = {} THEN then ELSE "release"
      /\ MySubjects(r) # {} => req'[r].undo = MySubjects(r) /\ req'[r].then = then
  <2> HIDE DEF then
  <2>1. GiveBack(r, MySubjects(r), then)
    BY DEF UnwindBudget, then
  <2> QED
    BY <1>1, <2>1, GiveBackMoves
<1>3. UNCHANGED <<used, life, draft, sites, jobs, day, holds, crossed>>
  BY DEF UnwindBudget, quotaVars
<1>4. /\ budget' \in [Requests -> {"none", "open", "settled"}]
      /\ faults' \in 0..MaxFaults /\ dropped' \subseteq Requests
      /\ \/ r \in dropped'
         \/ dropped' = dropped /\ (req[r].id \/ budget[r] # "open" => budget'[r] # "open")
  BY SettleMoves DEF UnwindBudget
<1>5. TypeOK'
  BY <1>2, <1>3, <1>4 DEF Inv, TypeOK, QuotaTypeOK, Invocation
<1>6. InMemory(r)'
  BY <1>1, <1>2 DEF InMemory, At, Endings, Answers
<1>7. Held(r)' = Held(r) /\ MySubjects(r)' = MySubjects(r)
  BY <1>3 DEF Held, MySubjects, Mine
<1>8. Keeps(r)'
  BY <1>1, <1>2, <1>3, <1>4, <1>7 DEF Keeps, Counted, At, Answered, Answers, Points, Full, Endings
<1> QED
  BY <1>5, <1>6, <1>8 DEF Local

LEMMA ReleaseOneStep ==
  ASSUME Inv, NEW r \in Requests, NEW s \in Subjects, ReleaseOne(r, s)
  PROVE  TypeOK' /\ Local(r)'
<1> DEFINE then == req[r].then
           undo == req[r].undo
<1>1. /\ req \in [Requests -> Invocation] /\ req[r].at = "release" /\ s \in undo /\ Keeps(r)
      /\ then \in Endings
  BY Typed DEF Inv, ReleaseOne, At, InMemory
<1>2. undo \ {s} \in SUBSET Subjects
  BY <1>1 DEF Invocation
<1>3. /\ req' \in [Requests -> Invocation]
      /\ req'[r].at = IF undo \ {s} = {} THEN then ELSE "release"
      /\ undo \ {s} # {} => req'[r].undo = undo \ {s} /\ req'[r].then = then
  <2> HIDE DEF then, undo
  <2>1. GiveBack(r, undo \ {s}, then)
    BY DEF ReleaseOne, then, undo
  <2> DEFINE rest == undo \ {s}
  <2> HIDE DEF rest
  <2>2. rest \in SUBSET Subjects /\ GiveBack(r, rest, then)
    BY <1>2, <2>1 DEF rest
  <2>3. /\ req' \in [Requests -> Invocation]
        /\ req'[r].at = IF rest = {} THEN then ELSE "release"
        /\ rest # {} => req'[r].undo = rest /\ req'[r].then = then
    BY <1>1, <2>2, GiveBackMoves
  <2> QED
    BY <2>3 DEF rest
<1>4. UNCHANGED <<draft, sites, jobs, budget, day>>
  BY DEF ReleaseOne, runVars
<1>5. InMemory(r)'
  BY <1>1, <1>3 DEF InMemory, At, Endings, Answers
<1>6. MySubjects(r)' = MySubjects(r)
  BY DEF MySubjects, Mine
<1>7. CASE /\ Release(s)
           /\ holds' = [holds EXCEPT ![r] = {h \in @ : h[1] # s}]
           /\ crossed' = IF <<s, day>> \in holds[r] THEN crossed ELSE crossed \cup {s}
           /\ UNCHANGED <<faults, dropped>>
  <2>1. QuotaTypeOK'
    <3>1. used \in [Subjects -> Nat] /\ life \in [Subjects -> Nat]
      BY DEF Inv, TypeOK, QuotaTypeOK
    <3>2. \A n \in Nat : (IF n = 0 THEN 0 ELSE n - 1) \in Nat
      OBVIOUS
    <3>3. /\ used' = [used EXCEPT ![s] = IF used[s] = 0 THEN 0 ELSE used[s] - 1]
          /\ life' = [life EXCEPT ![s] = IF life[s] = 0 THEN 0 ELSE life[s] - 1]
      BY <1>7 DEF Release
    <3> QED
      BY <3>1, <3>2, <3>3 DEF QuotaTypeOK
  <2>2. /\ holds' \in [Requests -> SUBSET (Subjects \X (0..MaxDays))]
        /\ holds'[r] = {h \in holds[r] : h[1] # s}
    BY <1>7 DEF Inv, TypeOK
  <2>3. crossed' \subseteq Subjects
    BY <1>7 DEF Inv, TypeOK
  <2>4. TypeOK'
    BY <1>3, <1>4, <1>7, <2>1, <2>2, <2>3 DEF Inv, TypeOK, Invocation
  <2>5. Held(r)' = Held(r) \ {s}
    BY <2>2 DEF Held
  <2>6. Keeps(r)'
    BY <1>1, <1>3, <1>4, <1>6, <1>7, <2>5
       DEF Keeps, Counted, At, Answered, Answers, Points, Full, Endings
  <2> QED
    BY <1>5, <2>4, <2>6 DEF Local
<1>8. CASE Fault /\ dropped' = dropped \cup {r} /\ UNCHANGED <<quotaVars, holds, crossed>>
  <2>1. faults' \in 0..MaxFaults /\ dropped' \subseteq Requests
    BY <1>8, SubmitAssumption DEF Fault, Inv, TypeOK
  <2>2. TypeOK'
    BY <1>3, <1>4, <1>8, <2>1 DEF Inv, TypeOK, QuotaTypeOK, quotaVars, Invocation
  <2>3. Held(r)' = Held(r)
    BY <1>8 DEF Held
  <2>4. Counted(r)'
    BY <1>1, <1>3, <2>3 DEF Keeps, Counted, At, Full, Endings, Answers
  <2>5. Keeps(r)'
    BY <1>8, <2>4 DEF Keeps
  <2> QED
    BY <1>5, <2>2, <2>5 DEF Local
<1> QED
  BY <1>7, <1>8 DEF ReleaseOne

LEMMA ReplayStep ==
  ASSUME Inv, NEW r \in Requests, Replay(r)
  PROVE  TypeOK' /\ Local(r)'
<1>1. req \in [Requests -> Invocation] /\ req[r].at = "replay" /\ Keeps(r)
  BY Typed DEF Inv, Replay, At
<1>2. PICK p \in {"accepted", "submit_incomplete"} : Answer(r, p)
  BY DEF Replay
<1>3. p \in Endings
  BY DEF Endings, Answers
<1>4. req' \in [Requests -> Invocation] /\ req'[r].at = p
  BY <1>1, <1>2, <1>3, AnswerMoves
<1>5. UNCHANGED <<used, life, draft, sites, jobs, budget, day, faults, holds, crossed, dropped>>
  BY DEF Replay, quotaVars, runVars, noteVars
<1>6. TypeOK'
  BY <1>4, <1>5 DEF Inv, TypeOK, QuotaTypeOK, Invocation
<1>7. InMemory(r)'
  BY <1>4 DEF InMemory, At
<1>8. Held(r)' = Held(r)
  BY <1>5 DEF Held
<1>9. Keeps(r)'
  BY <1>1, <1>4, <1>5, <1>8 DEF Keeps, Counted, At, Answered, Answers, Points, Full
<1> QED
  BY <1>6, <1>7, <1>9 DEF Local

LEMMA DieStep ==
  ASSUME Inv, NEW r \in Requests, Die(r)
  PROVE  TypeOK' /\ Local(r)'
<1>1. req \in [Requests -> Invocation] /\ "no answer" \in Endings /\ Answer(r, "no answer")
  BY Typed DEF Inv, Die, Endings, Answers
<1>2. req' \in [Requests -> Invocation] /\ req'[r].at = "no answer"
  BY <1>1, AnswerMoves
<1>3. UNCHANGED <<used, life, draft, sites, jobs, budget, day, holds, crossed>>
      /\ dropped' = dropped \cup {r}
  BY DEF Die, quotaVars, runVars
<1>4. faults' \in 0..MaxFaults
  <2>1. faults \in 0..MaxFaults
    BY DEF Inv, TypeOK
  <2>2. faults < MaxFaults /\ faults' = faults + 1
    BY DEF Die, Fault
  <2> QED
    BY <2>1, <2>2, SubmitAssumption
<1>5. TypeOK'
  BY <1>2, <1>3, <1>4 DEF Inv, TypeOK, QuotaTypeOK, Invocation
<1>6. InMemory(r)' /\ Keeps(r)'
  BY <1>2, <1>3 DEF InMemory, Keeps, Counted, At, Full
<1> QED
  BY <1>5, <1>6 DEF Local

LEMMA MidnightStep ==
  ASSUME Inv, Midnight
  PROVE  TypeOK' /\ \A r \in Requests : Local(r)'
<1>1. UNCHANGED <<draft, sites, jobs, budget, req, faults, holds, dropped>>
  BY DEF Midnight, runVars
<1>2. QuotaTypeOK' /\ crossed' \subseteq Subjects
  BY DEF Inv, TypeOK, QuotaTypeOK, Midnight, NewDay
<1>3. day' \in 0..MaxDays
  BY SubmitAssumption DEF Inv, TypeOK, Midnight
<1>4. TypeOK'
  BY <1>1, <1>2, <1>3 DEF Inv, TypeOK
<1>5. ASSUME NEW r \in Requests PROVE Local(r)'
  BY <1>1, Elsewhere DEF Inv, Local
<1> QED
  BY <1>4, <1>5

----------------------------------------------------------------------------
\* A step of one request moves no other, and touches nothing another holds.
LEMMA OthersStay ==
  ASSUME Inv, NEW r \in Requests, NEW q \in Requests \ {r}, Handle(r) \/ Die(r)
  PROVE  /\ req'[q] = req[q] /\ holds'[q] = holds[q] /\ budget'[q] = budget[q]
         /\ q \in jobs' <=> q \in jobs
         /\ q \in dropped' <=> q \in dropped
<1>1. req \in [Requests -> Invocation] /\ TypeOK /\ q # r
  BY Typed DEF Inv
<1>2. req'[q] = req[q]
  BY <1>1 DEF Handle, Die, Receive, Consume, Reserve, Screen, ResolveSlug, Batch, CurrentDraft,
              InsertJob, Settle, UnwindBudget, ReleaseOne, Replay, Goto, Answer, GiveBack, Unwind
<1>3. holds'[q] = holds[q]
  BY <1>1 DEF TypeOK, Handle, Die, Receive, Consume, Reserve, Screen, ResolveSlug, Batch,
              CurrentDraft, InsertJob, Settle, UnwindBudget, ReleaseOne, Replay, noteVars
<1>4. budget'[q] = budget[q]
  BY <1>1 DEF TypeOK, Handle, Die, Receive, Consume, Reserve, Screen, ResolveSlug, Batch,
              CurrentDraft, InsertJob, Settle, SettleBudget, UnwindBudget, ReleaseOne, Replay, runVars
<1>5. q \in jobs' <=> q \in jobs
  BY <1>1 DEF Handle, Die, Receive, Consume, Reserve, Screen, ResolveSlug, Batch,
              CurrentDraft, InsertJob, Settle, UnwindBudget, ReleaseOne, Replay, runVars
<1>6. q \in dropped' <=> q \in dropped
  BY <1>1 DEF Handle, Die, Receive, Consume, Reserve, Screen, ResolveSlug, Batch,
              CurrentDraft, InsertJob, Settle, SettleBudget, UnwindBudget, ReleaseOne, Replay, noteVars
<1> QED
  BY <1>2, <1>3, <1>4, <1>5, <1>6

\* A request's step keeps the types, and what every request has.
LEMMA LocalStep ==
  ASSUME Inv, NEW r \in Requests, Handle(r) \/ Die(r)
  PROVE  TypeOK' /\ \A q \in Requests : Local(q)'
<1>1. TypeOK' /\ Local(r)'
  <2>1. CASE \E s \in Subjects : ReleaseOne(r, s)
    BY <2>1, ReleaseOneStep
  <2>2. CASE Receive(r) \/ Consume(r) \/ Reserve(r) \/ Screen(r) \/ ResolveSlug(r)
    BY <2>2, ReceiveStep, ConsumeStep, ReserveStep, ScreenStep, ResolveSlugStep
  <2>3. CASE Batch(r) \/ CurrentDraft(r) \/ InsertJob(r) \/ Settle(r) \/ UnwindBudget(r)
    BY <2>3, BatchStep, CurrentDraftStep, InsertJobStep, SettleStep, UnwindStep
  <2>4. CASE Replay(r) \/ Die(r)
    BY <2>4, ReplayStep, DieStep
  <2> QED
    BY <2>1, <2>2, <2>3, <2>4 DEF Handle
<1>2. ASSUME NEW q \in Requests \ {r} PROVE Local(q)'
  BY OthersStay, Elsewhere DEF Inv, Local
<1> QED
  BY <1>1, <1>2

\* What a step does to the draft, the sites and the jobs.
LEMMA Writes ==
  ASSUME Inv, Next
  PROVE  \/ UNCHANGED <<draft, sites, jobs>>
         \/ \E r \in Requests : Screen(r) \/ Batch(r) \/ InsertJob(r)
<1>1. Midnight => UNCHANGED <<draft, sites, jobs>>
  BY DEF Midnight, runVars
<1>2. ASSUME NEW r \in Requests,
             Die(r) \/ Receive(r) \/ Consume(r) \/ Reserve(r) \/ ResolveSlug(r) \/ CurrentDraft(r)
      PROVE  UNCHANGED <<draft, sites, jobs>>
  BY <1>2 DEF Die, Receive, Consume, Reserve, ResolveSlug, CurrentDraft, runVars
<1>3. ASSUME NEW r \in Requests,
             Settle(r) \/ UnwindBudget(r) \/ Replay(r) \/ \E s \in Subjects : ReleaseOne(r, s)
      PROVE  UNCHANGED <<draft, sites, jobs>>
  BY <1>3 DEF Settle, UnwindBudget, Replay, ReleaseOne, runVars
<1> QED
  BY <1>1, <1>2, <1>3 DEF Next, Handle

\* A draft that was submitted keeps its job, and a site that was made keeps its
\* request, whatever step is made.
LEMMA SoldStays ==
  ASSUME Inv, Next, NEW q \in Requests, Sold(q)
  PROVE  Sold(q)'
<1>1. draft \in [Drafts -> Row] /\ DraftOf[q] \in Drafts /\ sites \in [Slugs -> Requests \cup {Null}]
  BY Typed, SubmitAssumption DEF Inv, TypeOK
<1>2. draft[DraftOf[q]] = [status |-> "submitted", job |-> q]
  BY DEF Sold
<1>3. PICK g \in Slugs : sites[g] = q
  BY DEF Sold
<1>4. q # Null
  BY SubmitAssumption
<1>5. CASE UNCHANGED <<draft, sites, jobs>>
  BY <1>2, <1>3, <1>5 DEF Sold
<1>6. ASSUME NEW r \in Requests, Screen(r) PROVE Sold(q)'
  <2>1. PICK verdict \in {"pass", "reject", "error"} :
          draft' = [draft EXCEPT ![DraftOf[r]].status = Screened(@, verdict)]
    BY <1>6 DEF Screen
  <2>2. draft'[DraftOf[q]] = [status |-> "submitted", job |-> q]
    BY <1>1, <1>2, <2>1 DEF Screened, Row
  <2>3. sites' = sites
    BY <1>6 DEF Screen
  <2> QED
    BY <1>3, <2>2, <2>3 DEF Sold
<1>7. ASSUME NEW r \in Requests, Batch(r) PROVE Sold(q)'
  <2>1. CASE BatchCommits(r)
    <3>1. sites'[g] = q
      BY <1>1, <1>3, <1>4, <2>1 DEF BatchCommits
    <3>2. draft'[DraftOf[q]] = draft[DraftOf[q]]
      BY <1>1, <1>2, <2>1 DEF BatchCommits, Transition
    <3> QED
      BY <1>2, <3>1, <3>2 DEF Sold
  <2>2. CASE UNCHANGED <<draft, sites>>
    BY <1>2, <1>3, <2>2 DEF Sold
  <2> QED
    BY <1>7, <2>1, <2>2 DEF Batch
<1>8. ASSUME NEW r \in Requests, InsertJob(r) PROVE Sold(q)'
  <2>1. UNCHANGED <<draft, sites>>
    BY <1>8 DEF InsertJob
  <2> QED
    BY <1>2, <1>3, <2>1 DEF Sold
<1> QED
  BY <1>5, <1>6, <1>7, <1>8, Writes

\* A request comes to insert its job only where its own batch sold the draft.
LEMMA OnlyBatchSells ==
  ASSUME Inv, NEW r \in Requests, Handle(r) \/ Die(r), At(r, "insert")', ~ At(r, "insert")
  PROVE  Sold(r)'
<1>1. /\ req \in [Requests -> Invocation] /\ draft \in [Drafts -> Row] /\ DraftOf[r] \in Drafts
      /\ sites \in [Slugs -> Requests \cup {Null}] /\ req'[r].at = "insert"
  BY Typed, SubmitAssumption DEF Inv, At, TypeOK
<1>2. req[r].then \in Endings \/ ~ (At(r, "unwind") \/ At(r, "release"))
  BY DEF Inv, InMemory
<1>3. CASE Batch(r)
  <2>1. BatchCommits(r) /\ draft'[DraftOf[r]].job = r
    <3>1. CASE Goto(r, "reread")
      <4>1. "reread" \in Points \cup Answers
        BY DEF Points
      <4> QED
        BY <1>1, <3>1, <4>1, GotoMoves
    <3> QED
      BY <1>3, <3>1 DEF Batch
  <2>2. req[r].slug \in Slugs
    BY <1>3 DEF Inv, InMemory, Batch
  <2>3. sites'[req[r].slug] = r
    BY <1>1, <2>1, <2>2 DEF BatchCommits
  <2>4. draft'[DraftOf[r]] = [status |-> "submitted", job |-> r]
    <3>1. CASE draft[DraftOf[r]].status = "open"
      BY <1>1, <2>1, <3>1 DEF BatchCommits, Transition
    <3>2. CASE draft[DraftOf[r]].status # "open"
      <4>1. draft[DraftOf[r]].job = r /\ draft' = draft
        BY <2>1, <3>2 DEF BatchCommits, Transition
      <4>2. draft[DraftOf[r]].status = "submitted"
        BY <1>1, <4>1, SubmitAssumption DEF Inv, Submitted
      <4> QED
        BY <1>1, <4>1, <4>2 DEF Row
    <3> QED
      BY <3>1, <3>2
  <2> QED
    BY <2>2, <2>3, <2>4 DEF Sold
<1>4. ASSUME NEW p \in Points \cup Answers, p # "insert", Goto(r, p) PROVE FALSE
  BY <1>1, <1>4, GotoMoves
<1>5. ASSUME NEW p \in Endings, Answer(r, p) \/ Unwind(r, p) PROVE FALSE
  BY <1>1, <1>5, AnswerMoves, UnwindMoves DEF Endings, Answers
<1>6. ASSUME NEW p \in Endings, NEW subjects, GiveBack(r, subjects, p) PROVE FALSE
  <2>1. p # "insert"
    BY <1>6 DEF Endings, Answers
  <2>2. req' = [req EXCEPT ![r] = [Idle EXCEPT !.at = p]]
        \/ req' = [req EXCEPT ![r] = [Idle EXCEPT !.at = "release", !.undo = subjects, !.then = p]]
    BY <1>6 DEF GiveBack, Answer
  <2>3. CASE req' = [req EXCEPT ![r] = [Idle EXCEPT !.at = p]]
    BY <1>1, <2>1, <2>3, IdleType
  <2>4. CASE req' = [req EXCEPT ![r] = [Idle EXCEPT !.at = "release", !.undo = subjects, !.then = p]]
    BY <1>1, <2>4, IdleType
  <2> QED
    BY <2>2, <2>3, <2>4
<1>7. CASE Receive(r) \/ Screen(r) \/ CurrentDraft(r) \/ InsertJob(r) \/ Settle(r)
           \/ Replay(r) \/ Die(r)
  <2>1. /\ {"consume", "replay", "slug", "settle"} \subseteq (Points \cup Answers) \ {"insert"}
        /\ Endings = {"refused", "submit_incomplete", "accepted", "no answer", "replay"}
    BY DEF Points, Endings, Answers
  <2>2. CASE Receive(r)
    BY <1>4, <1>5, <2>1, <2>2 DEF Receive
  <2>3. CASE Screen(r)
    BY <1>4, <1>5, <2>1, <2>3 DEF Screen
  <2>4. CASE CurrentDraft(r)
    BY <1>5, <2>1, <2>4 DEF CurrentDraft, Closed
  <2>5. CASE InsertJob(r)
    BY <1>4, <1>5, <2>1, <2>5 DEF InsertJob
  <2>6. CASE Settle(r) \/ Replay(r) \/ Die(r)
    BY <1>5, <2>1, <2>6 DEF Settle, Replay, Die
  <2> QED
    BY <1>7, <2>2, <2>3, <2>4, <2>5, <2>6
<1>8. CASE Consume(r)
  <2>1. CASE GiveBack(r, Taken(r), "refused")
    BY <1>6, <2>1 DEF Endings, Answers
  <2>2. CASE req' = [req EXCEPT ![r].next = @ + 1,
                       ![r].at = IF req[r].next = Len(Mine(r)) THEN "reserve" ELSE @]
    BY <1>1, <1>8, <2>2 DEF Consume, At, Invocation
  <2> QED
    BY <1>8, <2>1, <2>2 DEF Consume
<1>9. CASE Reserve(r)
  <2>1. "screen" \in Points \cup Answers
    BY DEF Points
  <2>2. CASE Goto(r, "screen")
    BY <1>4, <2>1, <2>2
  <2>3. CASE req' = [req EXCEPT ![r].at = "screen", ![r].id = TRUE]
    BY <1>1, <2>3 DEF Invocation
  <2> QED
    BY <1>9, <2>2, <2>3 DEF Reserve
<1>10. CASE ResolveSlug(r)
  <2>1. "refused" \in Endings
    BY DEF Endings, Answers
  <2>2. CASE Unwind(r, "refused")
    BY <1>5, <2>1, <2>2
  <2>3. ASSUME NEW slug, req' = [req EXCEPT ![r].at = "batch", ![r].slug = slug]
        PROVE  FALSE
    BY <1>1, <2>3 DEF Invocation
  <2> QED
    BY <1>10, <2>2, <2>3 DEF ResolveSlug
<1>11. CASE UnwindBudget(r) \/ \E s \in Subjects : ReleaseOne(r, s)
  BY <1>2, <1>6, <1>11 DEF UnwindBudget, ReleaseOne
<1> QED
  BY <1>3, <1>7, <1>8, <1>9, <1>10, <1>11 DEF Handle

LEMMA SellingStep ==
  ASSUME Inv, Next
  PROVE  Selling'
<1> SUFFICES ASSUME NEW q \in Requests, At(q, "insert")' \/ q \in jobs'
             PROVE  Sold(q)'
  BY DEF Selling
<1>1. CASE At(q, "insert") \/ q \in jobs
  BY <1>1, SoldStays DEF Inv, Selling
<1>2. CASE ~ At(q, "insert") /\ q \notin jobs
  <2>1. CASE Midnight
    BY <1>2, <2>1 DEF Midnight, At, runVars
  <2>2. ASSUME NEW r \in Requests, Handle(r) \/ Die(r) PROVE Sold(q)'
    <3>1. CASE r # q
      BY <1>2, <2>2, <3>1, OthersStay DEF At
    <3>2. CASE r = q
      <4>1. q \notin jobs'
        BY <1>2, <2>2, <3>2 DEF Handle, Die, Receive, Consume, Reserve, Screen, ResolveSlug, Batch,
             CurrentDraft, InsertJob, Settle, UnwindBudget, ReleaseOne, Replay, runVars
      <4> QED
        BY <1>2, <2>2, <3>2, <4>1, OnlyBatchSells
    <3> QED
      BY <3>1, <3>2
  <2> QED
    BY <2>1, <2>2 DEF Next
<1> QED
  BY <1>1, <1>2

LEMMA SubmittedStep ==
  ASSUME Inv, Next
  PROVE  Submitted'
<1>1. draft \in [Drafts -> Row] /\ \A r \in Requests : DraftOf[r] \in Drafts
  BY Typed, SubmitAssumption DEF Inv
<1>2. \A d \in Drafts : draft[d].job # Null => draft[d].status = "submitted"
  BY DEF Inv, Submitted
<1>3. CASE UNCHANGED <<draft, sites, jobs>>
  BY <1>2, <1>3 DEF Submitted
<1>4. ASSUME NEW r \in Requests, Screen(r) PROVE Submitted'
  <2>1. PICK verdict \in {"pass", "reject", "error"} :
          draft' = [draft EXCEPT ![DraftOf[r]].status = Screened(@, verdict)]
    BY <1>4 DEF Screen
  <2> QED
    BY <1>1, <1>2, <2>1 DEF Submitted, Screened, Row
<1>5. ASSUME NEW r \in Requests, Batch(r) PROVE Submitted'
  BY <1>1, <1>2, <1>5 DEF Submitted, Batch, BatchCommits, Transition
<1>6. ASSUME NEW r \in Requests, InsertJob(r) PROVE Submitted'
  BY <1>2, <1>6 DEF Submitted, InsertJob
<1> QED
  BY <1>3, <1>4, <1>5, <1>6, Writes

----------------------------------------------------------------------------
LEMMA InitInv == Init => Inv
<1> SUFFICES ASSUME Init PROVE Inv
  OBVIOUS
<1>1. TypeOK
  BY SubmitAssumption, IdleType DEF Init, QuotaInit, TypeOK, QuotaTypeOK, Invocation
<1>2. ASSUME NEW r \in Requests PROVE InMemory(r) /\ Keeps(r)
  <2>1. req[r].at = "idle" /\ req[r].next = 1 /\ budget[r] = "none" /\ r \notin jobs
    BY IdleType DEF Init
  <2>2. Held(r) = {} /\ Taken(r) = {}
    BY <2>1 DEF Held, Taken, Init
  <2> QED
    BY <2>1, <2>2 DEF InMemory, Keeps, Counted, At, Answered, Answers, Points, Full
<1>3. Submitted /\ Selling
  BY IdleType DEF Init, Submitted, Selling, At
<1> QED
  BY <1>1, <1>2, <1>3 DEF Inv

LEMMA StepInv == Inv /\ [Next]_vars => Inv'
<1> SUFFICES ASSUME Inv, [Next]_vars PROVE Inv'
  OBVIOUS
<1>1. CASE Next
  <2>1. TypeOK' /\ \A r \in Requests : Local(r)'
    BY <1>1, MidnightStep, LocalStep DEF Next
  <2> QED
    BY <1>1, <2>1, SellingStep, SubmittedStep DEF Inv, Local
<1>2. CASE UNCHANGED vars
  <2>1. UNCHANGED <<draft, sites, jobs, budget, req, holds, dropped>>
    BY <1>2 DEF vars, runVars, noteVars
  <2>2. TypeOK'
    BY <1>2 DEF Inv, TypeOK, QuotaTypeOK, vars, quotaVars, runVars, noteVars
  <2>3. ASSUME NEW r \in Requests PROVE Local(r)'
    BY <2>1, Elsewhere DEF Inv, Local
  <2>4. Submitted' /\ Selling'
    BY <2>1 DEF Inv, Submitted, Selling, Sold, At
  <2> QED
    BY <2>2, <2>3, <2>4 DEF Inv, Local
<1> QED
  BY <1>1, <1>2

THEOREM InvHolds == Spec => []Inv
  BY InitInv, StepInv, PTL DEF Spec

\* Every variable of the submits has its type.
THEOREM TypeCorrect == Spec => []TypeOK
<1>1. Inv => TypeOK
  BY DEF Inv
<1> QED
  BY <1>1, InvHolds, PTL

\* Whatever submits race, a draft sells at most one job: a job row is the one its
\* draft names, and its site stands.
THEOREM DraftNamesItsJobCorrect == Spec => []DraftNamesItsJob
<1>1. Inv => DraftNamesItsJob
  BY DEF Inv, TypeOK, Selling, Sold, DraftNamesItsJob
<1> QED
  BY <1>1, InvHolds, PTL

\* A submit that was answered, and lost no compensation, keeps a count with every
\* one of its subjects if its job was sold and with none otherwise, and no open
\* reservation.
THEOREM ReservationsMatchJobCorrect == Spec => []ReservationsMatchJob
<1>1. Inv => ReservationsMatchJob
  BY DEF Inv, Keeps, Held, ReservationsMatchJob
<1> QED
  BY <1>1, InvHolds, PTL

----------------------------------------------------------------------------
\* The requests that hold a count of a subject, taken today or at any time.
Holders(s) == {r \in Requests : <<s, day>> \in holds[r]}
Keepers(s) == {r \in Requests : s \in Held(r)}

\* What the two windows of every subject say, and that no count is of a day to come.
Windows ==
  /\ \A r \in Requests : \A s \in Subjects : \A d \in 0..MaxDays : <<s, d>> \in holds[r] => d <= day
  /\ \A s \in Subjects :
       /\ IsFiniteSet(Holders(s)) /\ IsFiniteSet(Keepers(s))
       /\ s \notin crossed => used[s] = Cardinality(Holders(s))
       /\ Lifetime[s] # 0 => life[s] = Cardinality(Keepers(s))

LEMMA WindowsStay ==
  ASSUME Windows, UNCHANGED <<used, life, holds, crossed, day>>
  PROVE  Windows'
BY DEF Windows, Holders, Keepers, Held

\* A subject is counted once for a request: it is not held before.
LEMMA CountedOnce ==
  ASSUME Inv, NEW r \in Requests, At(r, "consume")
  PROVE  Mine(r)[req[r].next] \in Subjects \ Held(r)
<1>1. Held(r) = Taken(r) /\ req[r].next <= Len(Mine(r)) /\ req[r].next \in Nat \ {0}
  BY Typed DEF Inv, Keeps, Counted, InMemory, Invocation
<1>2. DOMAIN Mine(r) = 1..Len(Mine(r)) /\ req[r].next \in DOMAIN Mine(r)
  BY <1>1, Form
<1>3. \A i \in 1..(req[r].next - 1) : i \in DOMAIN Mine(r) /\ i # req[r].next
  BY <1>1, <1>2, Form
<1>4. \A i \in 1..(req[r].next - 1) : Mine(r)[i] # Mine(r)[req[r].next]
  BY <1>2, <1>3, SubmitAssumption DEF Mine
<1> QED
  BY <1>1, <1>2, <1>4, Form DEF Taken

LEMMA ConsumeWindows ==
  ASSUME Inv, Windows, NEW r \in Requests, NEW s \in Subjects, s = Mine(r)[req[r].next],
         Consume(r), ~ Denies(s)
  PROVE  Windows'
<1>1. s \in Subjects \ Held(r)
  BY CountedOnce DEF Consume
<1>2. /\ Count(s) /\ holds' = [holds EXCEPT ![r] = @ \cup {<<s, day>>}]
      /\ day' = day /\ crossed' = crossed
  BY DEF Consume
<1>3. /\ holds \in [Requests -> SUBSET (Subjects \X (0..MaxDays))] /\ day \in 0..MaxDays
      /\ used \in [Subjects -> Nat] /\ life \in [Subjects -> Nat]
  BY DEF Inv, TypeOK, QuotaTypeOK
<1>4. /\ holds'[r] = holds[r] \cup {<<s, day>>}
      /\ \A q \in Requests \ {r} : holds'[q] = holds[q]
  BY <1>2, <1>3
<1>5. \A q \in Requests : Held(q)' = IF q = r THEN Held(q) \cup {s} ELSE Held(q)
  <2>1. Held(r)' = Held(r) \cup {s}
    <3>1. \A x : x \in Held(r)' <=> \E h \in holds[r] \cup {<<s, day>>} : x = h[1]
      BY <1>4 DEF Held
    <3>2. \A x : x \in Held(r) <=> \E h \in holds[r] : x = h[1]
      BY DEF Held
    <3>3. <<s, day>>[1] = s
      OBVIOUS
    <3> QED
      BY <3>1, <3>2, <3>3
  <2>2. \A q \in Requests \ {r} : Held(q)' = Held(q)
    BY <1>4 DEF Held
  <2> QED
    BY <2>1, <2>2
<1>6. ASSUME NEW q \in Requests, NEW x \in Subjects, NEW d \in 0..MaxDays, <<x, d>> \in holds'[q]
      PROVE  d <= day
  BY <1>3, <1>4, <1>6 DEF Windows
<1>7. ASSUME NEW x \in Subjects, x # s
      PROVE  /\ Holders(x)' = Holders(x) /\ Keepers(x)' = Keepers(x)
             /\ used'[x] = used[x] /\ life'[x] = life[x]
  <2>1. Holders(x)' = Holders(x)
    BY <1>2, <1>4, <1>7 DEF Holders
  <2>2. Keepers(x)' = Keepers(x)
    BY <1>5, <1>7 DEF Keepers
  <2> QED
    BY <1>2, <1>3, <1>7, <2>1, <2>2 DEF Count
<1>8. /\ Holders(s)' = Holders(s) \cup {r} /\ Keepers(s)' = Keepers(s) \cup {r}
      /\ r \notin Holders(s) /\ r \notin Keepers(s)
      /\ used'[s] = used[s] + 1 /\ (Lifetime[s] # 0 => life'[s] = life[s] + 1)
  <2>1. <<s, day>> \notin holds[r]
    BY <1>1 DEF Held
  <2>2. Holders(s)' = Holders(s) \cup {r} /\ r \notin Holders(s)
    BY <1>2, <1>4, <2>1 DEF Holders
  <2>3. Keepers(s)' = Keepers(s) \cup {r} /\ r \notin Keepers(s)
    BY <1>1, <1>5 DEF Keepers
  <2> QED
    BY <1>1, <1>2, <1>3, <2>2, <2>3 DEF Count
<1>9. /\ IsFiniteSet(Holders(s) \cup {r}) /\ IsFiniteSet(Keepers(s) \cup {r})
      /\ Cardinality(Holders(s) \cup {r}) = Cardinality(Holders(s)) + 1
      /\ Cardinality(Keepers(s) \cup {r}) = Cardinality(Keepers(s)) + 1
  BY <1>1, <1>8, FS_AddElement DEF Windows
<1>10. ASSUME NEW x \in Subjects
       PROVE  /\ IsFiniteSet(Holders(x)') /\ IsFiniteSet(Keepers(x)')
              /\ x \notin crossed' => used'[x] = Cardinality(Holders(x)')
              /\ Lifetime[x] # 0 => life'[x] = Cardinality(Keepers(x)')
  <2>1. CASE x = s
    BY <1>1, <1>2, <1>8, <1>9, <2>1 DEF Windows
  <2>2. CASE x # s
    BY <1>2, <1>7, <2>2 DEF Windows
  <2> QED
    BY <2>1, <2>2
<1> QED
  BY <1>2, <1>6, <1>10 DEF Windows

LEMMA ReleaseWindows ==
  ASSUME Inv, Windows, NEW r \in Requests, NEW s \in Subjects, ReleaseOne(r, s), Release(s),
         holds' = [holds EXCEPT ![r] = {h \in @ : h[1] # s}],
         crossed' = IF <<s, day>> \in holds[r] THEN crossed ELSE crossed \cup {s}
  PROVE  Windows'
<1>1. s \in Held(r) /\ day' = day
  BY DEF ReleaseOne, Inv, Keeps, Counted
<1>2. /\ holds \in [Requests -> SUBSET (Subjects \X (0..MaxDays))] /\ day \in 0..MaxDays
      /\ used \in [Subjects -> Nat] /\ life \in [Subjects -> Nat]
  BY DEF Inv, TypeOK, QuotaTypeOK
<1>3. /\ holds'[r] = {h \in holds[r] : h[1] # s}
      /\ \A q \in Requests \ {r} : holds'[q] = holds[q]
      /\ \A q \in Requests : holds'[q] \subseteq holds[q]
  BY <1>2
<1>4. \A q \in Requests : Held(q)' = IF q = r THEN Held(q) \ {s} ELSE Held(q)
  BY <1>3 DEF Held
<1>5. ASSUME NEW q \in Requests, NEW x \in Subjects, NEW d \in 0..MaxDays, <<x, d>> \in holds'[q]
      PROVE  d <= day
  BY <1>3, <1>5 DEF Windows
<1>6. ASSUME NEW x \in Subjects, x # s
      PROVE  /\ Holders(x)' = Holders(x) /\ Keepers(x)' = Keepers(x)
             /\ used'[x] = used[x] /\ life'[x] = life[x]
  <2>1. Holders(x)' = Holders(x)
    BY <1>1, <1>3, <1>6 DEF Holders
  <2>2. Keepers(x)' = Keepers(x)
    BY <1>4, <1>6 DEF Keepers
  <2> QED
    BY <1>2, <1>6, <2>1, <2>2 DEF Release
<1>7. ASSUME Lifetime[s] # 0 PROVE life'[s] = Cardinality(Keepers(s)')
  <2>1. r \in Keepers(s) /\ Keepers(s)' = Keepers(s) \ {r}
    BY <1>1, <1>4 DEF Keepers
  <2>2. /\ IsFiniteSet(Keepers(s)) /\ life[s] = Cardinality(Keepers(s))
    BY <1>7 DEF Windows
  <2>3. Cardinality(Keepers(s) \ {r}) = Cardinality(Keepers(s)) - 1
    BY <2>1, <2>2, FS_RemoveElement
  <2>4. Cardinality(Keepers(s)) # 0
    BY <2>1, <2>2, FS_EmptySet
  <2> QED
    BY <1>2, <2>1, <2>2, <2>3, <2>4 DEF Release
<1>8. ASSUME s \notin crossed' PROVE used'[s] = Cardinality(Holders(s)')
  <2>1. <<s, day>> \in holds[r] /\ s \notin crossed
    BY <1>8
  <2>2. r \in Holders(s) /\ Holders(s)' = Holders(s) \ {r}
    BY <1>1, <1>3, <2>1 DEF Holders
  <2>3. IsFiniteSet(Holders(s)) /\ used[s] = Cardinality(Holders(s))
    BY <2>1 DEF Windows
  <2>4. Cardinality(Holders(s) \ {r}) = Cardinality(Holders(s)) - 1
    BY <2>2, <2>3, FS_RemoveElement
  <2>5. Cardinality(Holders(s)) # 0
    BY <2>2, <2>3, FS_EmptySet
  <2> QED
    BY <1>2, <2>2, <2>3, <2>4, <2>5 DEF Release
<1>9. IsFiniteSet(Holders(s)') /\ IsFiniteSet(Keepers(s)')
  <2>1. Holders(s)' \subseteq Holders(s) /\ Keepers(s)' \subseteq Keepers(s)
    BY <1>1, <1>3, <1>4 DEF Holders, Keepers
  <2> QED
    BY <2>1, FS_Subset DEF Windows
<1>10. ASSUME NEW x \in Subjects
       PROVE  /\ IsFiniteSet(Holders(x)') /\ IsFiniteSet(Keepers(x)')
              /\ x \notin crossed' => used'[x] = Cardinality(Holders(x)')
              /\ Lifetime[x] # 0 => life'[x] = Cardinality(Keepers(x)')
  <2>1. CASE x = s
    BY <1>7, <1>8, <1>9, <2>1
  <2>2. CASE x # s
    BY <1>6, <2>2 DEF Windows
  <2> QED
    BY <2>1, <2>2
<1> QED
  BY <1>1, <1>5, <1>10 DEF Windows

\* At midnight every object counts in a window nobody holds a count in.
LEMMA MidnightWindows == ASSUME Inv, Windows, Midnight PROVE Windows'
<1>1. /\ day' = day + 1 /\ day \in Nat /\ holds' = holds /\ life' = life
      /\ used' = [s \in Subjects |-> 0]
      /\ holds \in [Requests -> SUBSET (Subjects \X (0..MaxDays))] /\ day' \in 0..MaxDays
  BY MidnightStep DEF Midnight, NewDay, Inv, TypeOK
<1>2. ASSUME NEW r \in Requests, NEW s \in Subjects, NEW d \in 0..MaxDays, <<s, d>> \in holds'[r]
      PROVE  d <= day /\ d <= day'
  BY <1>1, <1>2 DEF Windows
<1>3. ASSUME NEW s \in Subjects
      PROVE  /\ Holders(s)' = {} /\ Keepers(s)' = Keepers(s) /\ used'[s] = 0 /\ life'[s] = life[s]
  <2>1. Holders(s)' = {r \in Requests : <<s, day'>> \in holds[r]}
    BY <1>1 DEF Holders
  <2>2. ASSUME NEW r \in Requests, <<s, day'>> \in holds[r] PROVE FALSE
    <3>1. day' <= day
      BY <1>1, <1>2, <2>2
    <3> QED
      BY <1>1, <3>1
  <2> QED
    BY <1>1, <2>1, <2>2 DEF Keepers, Held
<1>4. ASSUME NEW s \in Subjects
      PROVE  /\ IsFiniteSet(Holders(s)') /\ IsFiniteSet(Keepers(s)')
             /\ used'[s] = Cardinality(Holders(s)')
             /\ Lifetime[s] # 0 => life'[s] = Cardinality(Keepers(s)')
  BY <1>3, FS_EmptySet DEF Windows
<1> QED
  BY <1>2, <1>4 DEF Windows

LEMMA InitWindows == Init => Windows
<1> SUFFICES ASSUME Init PROVE Windows
  OBVIOUS
<1>1. \A s \in Subjects : Holders(s) = {} /\ Keepers(s) = {} /\ used[s] = 0 /\ life[s] = 0
  BY DEF Init, QuotaInit, Holders, Keepers, Held
<1> QED
  BY <1>1, FS_EmptySet DEF Init, Windows

LEMMA NextWindows == Inv /\ Windows /\ [Next]_vars => Windows'
<1> SUFFICES ASSUME Inv, Windows, [Next]_vars PROVE Windows'
  OBVIOUS
<1>1. CASE Midnight
  BY <1>1, MidnightWindows
<1>2. ASSUME NEW r \in Requests, Consume(r) PROVE Windows'
  <2>1. CASE Denies(Mine(r)[req[r].next])
    BY <1>2, <2>1, WindowsStay DEF Consume, quotaVars
  <2>2. CASE ~ Denies(Mine(r)[req[r].next])
    <3>1. Mine(r)[req[r].next] \in Subjects
      BY <1>2, CountedOnce DEF Consume
    <3>2. PICK s \in Subjects : s = Mine(r)[req[r].next]
      BY <3>1
    <3> QED
      BY <1>2, <2>2, <3>2, ConsumeWindows
  <2> QED
    BY <2>1, <2>2
<1>3. ASSUME NEW r \in Requests, NEW s \in Subjects, ReleaseOne(r, s) PROVE Windows'
  <2>1. CASE UNCHANGED <<quotaVars, holds, crossed>>
    BY <1>3, <2>1, WindowsStay DEF ReleaseOne, quotaVars
  <2> QED
    BY <1>3, <2>1, ReleaseWindows DEF ReleaseOne
<1>4. ASSUME NEW r \in Requests,
             \/ Die(r) \/ Receive(r) \/ Reserve(r) \/ Screen(r) \/ ResolveSlug(r) \/ Batch(r)
             \/ CurrentDraft(r) \/ InsertJob(r) \/ Settle(r) \/ UnwindBudget(r) \/ Replay(r)
      PROVE  Windows'
  <2>1. UNCHANGED <<used, life, holds, crossed, day>>
    BY <1>4 DEF Die, Receive, Reserve, Screen, ResolveSlug, Batch, CurrentDraft, InsertJob, Settle,
         UnwindBudget, Replay, quotaVars, runVars, noteVars
  <2> QED
    BY <2>1, WindowsStay
<1>5. CASE UNCHANGED vars
  BY <1>5, WindowsStay DEF vars, quotaVars, noteVars
<1> QED
  BY <1>1, <1>2, <1>3, <1>4, <1>5 DEF Next, Handle

(***************************************************************************)
(* QuotaIsExactCorrect: whatever submits overlap, die or lose an answer,   *)
(* the counters of a subject are the number of submits that hold a count   *)
(* with it: the lifetime one always, the daily one until a count of an     *)
(* earlier day is given back (QuotaDO.ts, consume and release).            *)
(***************************************************************************)
THEOREM QuotaIsExactCorrect == Spec => []QuotaIsExact
<1>1. Windows => QuotaIsExact
  <2> SUFFICES ASSUME Windows, NEW s \in Subjects
               PROVE  /\ s \notin crossed =>
                           used[s] = Cardinality({r \in Requests : <<s, day>> \in holds[r]})
                      /\ Lifetime[s] # 0 =>
                           life[s] = Cardinality({r \in Requests : \E h \in holds[r] : h[1] = s})
    BY DEF QuotaIsExact
  <2>1. Keepers(s) = {r \in Requests : \E h \in holds[r] : h[1] = s}
    BY DEF Keepers, Held
  <2> QED
    BY <2>1 DEF Windows, Holders
<1> QED
  BY <1>1, InitWindows, NextWindows, InvHolds, PTL DEF Spec
=============================================================================

---------------------------- MODULE BillingProofs ----------------------------
(***************************************************************************)
(* Theorems of the two tables billing keeps of what Stripe says.           *)
(*                                                                         *)
(* Of StripeEvents: an event is worked on by one invocation at a time and  *)
(* settled once, for every set of invocations and events and every number  *)
(* of losses and duplicates.                                               *)
(*                                                                         *)
(* Of Mirror: the mirrored row converges, a disputed website comes to rest *)
(* suspended, and the entitlement converges where handlers did not         *)
(* overlap, for any number of handlers, events and losses.                 *)
(***************************************************************************)
EXTENDS StripeEvents, Mirror, TLAPS

----------------------------------------------------------------------------
\* The event ledger.


USE ForeignAssumption, OutcomesAssumption, BoundsAssumption, NoneAssumption
DEF ForeignAssumption, OutcomesAssumption, BoundsAssumption, NoneAssumption

Invocation == [pc: {"idle", "claim", "handle", "finish"}, event: Events \cup {None},
               outcome: {"ok", "skip", "throw"} \cup {None}]

Row == [status: Statuses, holder: Workers \cup {None}, live: BOOLEAN]

\* An invocation past its first step has an event, and one that is done with
\* its handler has an outcome.
Placed ==
  \A w \in Workers :
    /\ worker[w].pc # "idle" => worker[w].event \in Events
    /\ worker[w].pc = "finish" => worker[w].outcome \in Outcomes

\* Only a claimed event has a holder, and only a held claim is live.
HolderClaims ==
  \A e \in Events : /\ ledger[e].holder # None => ledger[e].status = "processing"
                    /\ ledger[e].live => ledger[e].holder # None

Inv == TypeOK /\ Placed /\ HolderClaims /\ ClaimStands /\ OverlapNeedsLapse

\* A status write drops the claim of that event and touches no other event.
LEMMA SetStatusType ==
  ASSUME TypeOK, NEW e \in Events, NEW s \in Statuses, SetStatus(e, s)
  PROVE  /\ ledger' \in [Events -> Row]
         /\ ledger'[e].status = s /\ ledger'[e].holder = None /\ ~ledger'[e].live
         /\ \A d \in Events : d # e => ledger'[d] = ledger[d]
BY DEF SetStatus, TypeOK, Row

\* The empty ledger satisfies the invariant.
LEMMA InitInv == Init => Inv
BY DEF Init, Inv, TypeOK, Placed, HolderClaims, ClaimStands, OverlapNeedsLapse, Idle, Working,
       Statuses

\* Recording an event touches no claim.
LEMMA RecordInv ==
  ASSUME Inv, NEW w \in Workers, NEW e \in Events, Deliver(w, e) \/ Duplicate(w, e)
  PROVE  Inv'
<1> USE DEF Inv
<1>0. \/ /\ ledger' \in [Events -> Row]
         /\ ledger'[e].holder = None /\ ~ledger'[e].live
         /\ \A d \in Events : d # e => ledger'[d] = ledger[d]
      \/ UNCHANGED ledger
  <2>1. CASE ledger[e].status = "absent"
    <3>1. SetStatus(e, "skipped") \/ SetStatus(e, "received")
      BY <2>1 DEF Deliver, Duplicate, Record
    <3>2. "skipped" \in Statuses /\ "received" \in Statuses
      BY DEF Statuses
    <3> QED BY <3>1, <3>2, SetStatusType
  <2>2. CASE ledger[e].status # "absent"
    BY <2>2 DEF Deliver, Duplicate, Record
  <2> QED BY <2>1, <2>2
<1>1. TypeOK'
  <2>1. ledger' \in [Events -> Row]
    BY <1>0 DEF TypeOK, Row
  <2>2. worker' \in [Workers -> Invocation]
    BY DEF Deliver, Duplicate, Record, TypeOK, Invocation
  <2> QED BY <2>1, <2>2 DEF Deliver, Duplicate, Record, TypeOK, Row, Invocation
<1>2. Placed'
  BY DEF Deliver, Duplicate, Record, SetStatus, TypeOK, Placed, Idle
<1>3. HolderClaims'
  BY <1>0 DEF HolderClaims
<1>4. ClaimStands'
  <2> SUFFICES ASSUME NEW v \in Workers, Working(v)', v \notin lapsed'
               PROVE  LET r == ledger'[worker'[v].event] IN
                        \/ r.status = "processing" /\ r.holder = v /\ r.live
                        \/ r.status = "skipped"
    BY DEF ClaimStands
  <2>1. worker'[v] = worker[v] /\ Working(v) /\ v \notin lapsed
    BY DEF Deliver, Duplicate, Record, TypeOK, Working, Idle
  <2>2. worker[v].event \in Events
    BY <2>1 DEF Working, Placed
  <2>3. \/ /\ ledger[worker[v].event].status = "processing"
           /\ ledger[worker[v].event].holder = v /\ ledger[worker[v].event].live
        \/ ledger[worker[v].event].status = "skipped"
    BY <2>1 DEF ClaimStands
  <2>4. ledger'[worker[v].event] = ledger[worker[v].event]
    BY <2>2, <2>3, <1>0 DEF Deliver, Duplicate, Record, SetStatus
  <2> QED BY <2>1, <2>3, <2>4
<1>5. OverlapNeedsLapse'
  BY DEF Deliver, Duplicate, Record, SetStatus, TypeOK, Placed, ClaimStands, OverlapNeedsLapse, Working, Idle
<1> QED BY <1>1, <1>2, <1>3, <1>4, <1>5

\* A claim is granted on a row no live worker holds.
LEMMA ClaimInv ==
  ASSUME Inv, NEW w \in Workers, Claim(w)
  PROVE  Inv'
<1> USE DEF Inv
<1>1. TypeOK'
  BY DEF Claim, Claimable, TypeOK, Placed, Idle, Statuses, Working
<1>2. Placed'
  BY DEF Claim, Claimable, TypeOK, Placed, Idle
<1>3. HolderClaims'
  BY DEF Claim, Claimable, TypeOK, Placed, HolderClaims, Statuses
<1>4. ClaimStands'
  BY DEF Claim, Claimable, TypeOK, Placed, HolderClaims, ClaimStands, Working, Idle
<1>5. OverlapNeedsLapse'
  BY DEF Claim, Claimable, TypeOK, Placed, ClaimStands, OverlapNeedsLapse, Working, Idle
<1> QED BY <1>1, <1>2, <1>3, <1>4, <1>5

\* A lost claim only sends the worker home.
LEMMA ClaimLostInv ==
  ASSUME Inv, NEW w \in Workers, ClaimLost(w)
  PROVE  Inv'
<1> USE DEF Inv
<1>1. TypeOK'
  BY DEF ClaimLost, TypeOK, Placed, Idle, Statuses, Working
<1>2. Placed'
  BY DEF ClaimLost, TypeOK, Placed, Idle
<1>3. HolderClaims'
  BY DEF ClaimLost, TypeOK, Placed, HolderClaims, Statuses
<1>4. ClaimStands'
  BY DEF ClaimLost, TypeOK, Placed, HolderClaims, ClaimStands, Working, Idle
<1>5. OverlapNeedsLapse'
  BY DEF ClaimLost, TypeOK, Placed, ClaimStands, OverlapNeedsLapse, Working, Idle
<1> QED BY <1>1, <1>2, <1>3, <1>4, <1>5

\* complete() and fail() match the token; skip() may overwrite a claim, which the
\* invariant allows.
LEMMA FinishInv ==
  ASSUME Inv, NEW w \in Workers, Finish(w)
  PROVE  Inv'
<1> USE DEF Inv
<1>0. worker[w].event \in Events /\ worker[w].outcome \in {"ok", "skip", "throw"}
  BY DEF Finish, Placed
<1>10. \/ UNCHANGED ledger
      \/ /\ \/ ledger[worker[w].event].holder = w
            \/ ledger'[worker[w].event].status = "skipped"
         /\ ledger' \in [Events -> Row]
         /\ ledger'[worker[w].event].holder = None /\ ~ledger'[worker[w].event].live
         /\ \A d \in Events : d # worker[w].event => ledger'[d] = ledger[d]
  <2>1. "processed" \in Statuses /\ "skipped" \in Statuses /\ "failed" \in Statuses
    BY DEF Statuses
  <2>2. CASE worker[w].outcome = "ok"
    BY <1>0, <2>1, <2>2, SetStatusType DEF Finish, IfHolder
  <2>3. CASE worker[w].outcome = "skip"
    BY <1>0, <2>1, <2>3, SetStatusType DEF Finish, Skip
  <2>4. CASE worker[w].outcome = "throw"
    BY <1>0, <2>1, <2>4, SetStatusType DEF Finish, IfHolder
  <2> QED BY <1>0, <2>2, <2>3, <2>4
<1>11. /\ worker' = [worker EXCEPT ![w] = Idle] /\ lapsed' = lapsed \ {w}
      /\ UNCHANGED <<crashes, dups>>
      /\ acked' \in {acked, acked \cup {worker[w].event}}
  BY <1>0 DEF Finish
<1>1. TypeOK'
  BY <1>0, <1>10, <1>11 DEF TypeOK, Row, Idle
<1>2. Placed'
  BY DEF Finish, IfHolder, Skip, SetStatus, TypeOK, Placed, Idle
<1>3. HolderClaims'
  BY <1>0, <1>10 DEF HolderClaims
<1>4. ClaimStands'
  <2> SUFFICES ASSUME NEW v \in Workers, Working(v)', v \notin lapsed'
               PROVE  LET r == ledger'[worker'[v].event] IN
                        \/ r.status = "processing" /\ r.holder = v /\ r.live
                        \/ r.status = "skipped"
    BY DEF ClaimStands
  <2>1. v # w /\ worker'[v] = worker[v] /\ Working(v) /\ v \notin lapsed
    BY <1>11 DEF TypeOK, Working, Idle
  <2>2. worker[v].event \in Events
    BY <2>1 DEF Working, Placed
  <2>3. \/ /\ ledger[worker[v].event].status = "processing"
           /\ ledger[worker[v].event].holder = v /\ ledger[worker[v].event].live
        \/ ledger[worker[v].event].status = "skipped"
    BY <2>1 DEF ClaimStands
  <2>4. CASE ledger'[worker[v].event] = ledger[worker[v].event]
    BY <2>1, <2>3, <2>4
  <2>5. CASE worker[v].event = worker[w].event /\ ledger[worker[w].event].holder = w
    BY <2>1, <2>2, <2>3, <2>5 DEF HolderClaims
  <2>6. CASE worker[v].event = worker[w].event /\ ledger'[worker[w].event].status = "skipped"
    BY <2>1, <2>6
  <2> QED BY <1>10, <2>2, <2>4, <2>5, <2>6
<1>5. OverlapNeedsLapse'
  BY DEF Finish, IfHolder, Skip, SetStatus, TypeOK, Placed, ClaimStands, OverlapNeedsLapse, Working, Idle
<1> QED BY <1>1, <1>2, <1>3, <1>4, <1>5

\* A lost invocation leaves its row as it was.
LEMMA CrashInv ==
  ASSUME Inv, NEW w \in Workers, Crash(w)
  PROVE  Inv'
<1> USE DEF Inv
<1>1. TypeOK'
  BY DEF Crash, TypeOK, Placed, Idle, Statuses, Working
<1>2. Placed'
  BY DEF Crash, TypeOK, Placed, Idle
<1>3. HolderClaims'
  BY DEF Crash, TypeOK, Placed, HolderClaims, Statuses
<1>4. ClaimStands'
  BY DEF Crash, TypeOK, Placed, HolderClaims, ClaimStands, Working, Idle
<1>5. OverlapNeedsLapse'
  BY DEF Crash, TypeOK, Placed, ClaimStands, OverlapNeedsLapse, Working, Idle
<1> QED BY <1>1, <1>2, <1>3, <1>4, <1>5

\* A handler ends with an outcome and writes no ledger row.
LEMMA HandleInv ==
  ASSUME Inv, NEW w \in Workers, NEW o \in Outcomes, Handle(w, o)
  PROVE  Inv'
<1> USE DEF Inv
<1>1. TypeOK'
  <2>1. [worker[w] EXCEPT !.pc = "finish", !.outcome = o] \in Invocation
    <3>1. worker[w] \in Invocation
      BY DEF TypeOK, Invocation
    <3>2. o \in {"ok", "skip", "throw"}
      BY OutcomesAssumption
    <3> HIDE DEF Inv
    <3> QED
      BY <3>1, <3>2 DEF Invocation
  <2>2. worker' = [worker EXCEPT ![w] = [worker[w] EXCEPT !.pc = "finish", !.outcome = o]]
    BY DEF Handle
  <2>3. worker \in [Workers -> Invocation]
    BY DEF TypeOK, Invocation
  <2>4. worker' \in [Workers -> Invocation]
    BY <2>1, <2>2, <2>3
  <2> QED BY <2>4 DEF Handle, TypeOK, Invocation
<1>2. Placed'
  BY DEF Handle, TypeOK, Placed, Idle
<1>3. HolderClaims'
  BY DEF Handle, TypeOK, Placed, HolderClaims, Statuses
<1>4. ClaimStands'
  BY DEF Handle, TypeOK, Placed, HolderClaims, ClaimStands, Working, Idle
<1>5. OverlapNeedsLapse'
  BY DEF Handle, TypeOK, Placed, ClaimStands, OverlapNeedsLapse, Working, Idle
<1> QED BY <1>1, <1>2, <1>3, <1>4, <1>5

\* An expired claim makes its worker lapsed.
LEMMA ExpireInv ==
  ASSUME Inv, NEW e \in Events, Expire(e)
  PROVE  Inv'
<1> USE DEF Inv
<1>1. TypeOK'
  <2>0. ledger[e] \in Row
    BY DEF TypeOK, Row
  <2>1. [ledger[e] EXCEPT !.live = FALSE] \in Row
    BY <2>0 DEF Row
  <2>2. ledger' \in [Events -> Row]
    BY <2>1 DEF Expire, TypeOK, Row
  <2> QED BY <2>2 DEF Expire, TypeOK, Row
<1>2. Placed'
  BY DEF Expire, TypeOK, Placed, Idle
<1>3. HolderClaims'
  BY DEF Expire, TypeOK, Placed, HolderClaims, Statuses
<1>4. ClaimStands'
  BY DEF Expire, TypeOK, Placed, HolderClaims, ClaimStands, Working, Idle
<1>5. OverlapNeedsLapse'
  BY DEF Expire, TypeOK, Placed, ClaimStands, OverlapNeedsLapse, Working, Idle
<1> QED BY <1>1, <1>2, <1>3, <1>4, <1>5

\* The invariant is inductive.
LEMMA NextInv == Inv /\ [Next]_vars => Inv'
<1> SUFFICES ASSUME Inv, [Next]_vars PROVE Inv'
  OBVIOUS
<1>1. CASE UNCHANGED vars
  BY <1>1 DEF vars, Inv, TypeOK, Placed, HolderClaims, ClaimStands, OverlapNeedsLapse, Working
<1> QED BY <1>1, RecordInv, ClaimInv, ClaimLostInv, FinishInv, CrashInv, HandleInv, ExpireInv
        DEF Next

\* The inductive invariant holds for ever.
THEOREM Invariance == Spec => []Inv
<1>1. Init => Inv
  BY InitInv
<1>2. Inv /\ [Next]_vars => Inv'
  BY NextInv
<1> QED BY <1>1, <1>2, PTL DEF Spec

\* The ledger's rows and the invocations stay well formed.
THEOREM TypeCorrect == Spec => []TypeOK
<1>1. Inv => TypeOK
  BY DEF Inv
<1> QED BY <1>1, Invariance, PTL

\* A redelivery never doubles a live handler: two invocations handle one event
\* at once only after a claim has expired under one of them.
THEOREM OverlapCorrect == Spec => []OverlapNeedsLapse
<1>1. Inv => OverlapNeedsLapse
  BY DEF Inv
<1> QED BY <1>1, Invariance, PTL

\* An unexpired claim keeps its event from every other invocation but a stale
\* peer's skip.
THEOREM ClaimCorrect == Spec => []ClaimStands
<1>1. Inv => ClaimStands
  BY DEF Inv
<1> QED BY <1>1, Invariance, PTL

----------------------------------------------------------------------------
LEMMA NextSettled ==
  Inv /\ [Next]_vars =>
    \A e \in Events : ledger[e].status \in {"processed", "skipped"} => ledger'[e] = ledger[e]
<1> SUFFICES ASSUME Inv, [Next]_vars, NEW e \in Events,
                    ledger[e].status \in {"processed", "skipped"}
             PROVE  ledger'[e] = ledger[e]
  OBVIOUS
<1>0. ledger[e].holder = None /\ ledger[e].live = FALSE /\ ledger \in [Events -> Row]
  BY DEF Inv, HolderClaims, TypeOK, Row
<1>1. ASSUME NEW w \in Workers, NEW d \in Events, Deliver(w, d) \/ Duplicate(w, d)
      PROVE  ledger'[e] = ledger[e]
  BY <1>0, <1>1 DEF Deliver, Duplicate, Record, SetStatus
<1>2. ASSUME NEW w \in Workers, Claim(w)
      PROVE  ledger'[e] = ledger[e]
  BY <1>0, <1>2 DEF Claim, Claimable
<1>3. ASSUME NEW w \in Workers, Finish(w)
      PROVE  ledger'[e] = ledger[e]
  <2>1. worker[w].event \in Events /\ worker[w].outcome \in {"ok", "skip", "throw"}
    BY <1>3 DEF Finish, Inv, Placed
  <2>2. CASE UNCHANGED ledger \/ worker[w].event # e
    BY <1>0, <1>3, <2>1, <2>2 DEF Finish, IfHolder, Skip, SetStatus
  <2>3. CASE worker[w].event = e /\ ledger[e].status = "skipped" /\ SetStatus(e, "skipped")
    <3>1. ledger[e] = [status |-> "skipped", holder |-> None, live |-> FALSE]
      BY <1>0, <2>3 DEF Row
    <3> QED BY <1>0, <2>3, <3>1 DEF SetStatus
  <2>4. ASSUME worker[w].event = e
        PROVE  \/ UNCHANGED ledger
               \/ ledger[e].status = "skipped" /\ SetStatus(e, "skipped")
    <3>1. \A s : IfHolder(w, s) => UNCHANGED ledger
      BY <1>0, <2>4 DEF IfHolder
    <3>2. Skip(e) => \/ UNCHANGED ledger
                     \/ ledger[e].status = "skipped" /\ SetStatus(e, "skipped")
      BY DEF Skip
    <3>3. IfHolder(w, "processed") \/ Skip(e) \/ IfHolder(w, "failed")
      BY <1>3, <2>1, <2>4 DEF Finish
    <3> QED BY <3>1, <3>2, <3>3
  <2> QED BY <2>2, <2>3, <2>4
<1>4. ASSUME NEW d \in Events, Expire(d)
      PROVE  ledger'[e] = ledger[e]
  BY <1>0, <1>4 DEF Expire
<1>5. CASE UNCHANGED ledger
  BY <1>5
<1> QED BY <1>1, <1>2, <1>3, <1>4, <1>5 DEF Next, ClaimLost, Crash, Handle, vars

\* Finished work is never re-opened or re-labelled, however late a stale
\* invocation writes.
THEOREM SettledIsFinalCorrect == Spec => SettledIsFinal
<1>1. Inv /\ [Next]_vars =>
        [\A e \in Events : ledger[e].status \in {"processed", "skipped"} =>
           ledger'[e] = ledger[e]]_vars
  BY NextSettled
<1> QED BY <1>1, Invariance, PTL DEF Spec, SettledIsFinal

----------------------------------------------------------------------------
\* The mirrored subscription.


USE MovesAssumption, MirrorBounds, MirrorNull DEF MovesAssumption, MirrorBounds, MirrorNull

Event == [kind: {"subscription", "completed", "open", "won", "lost"}, at: 0..MaxSecond]

\* The latest event of the subscription itself: its status is the one it
\* announced.
IsLast(l) ==
  /\ l \in 1..Len(sent) /\ sent[l].kind = "subscription"
  /\ \A n \in 1..Len(sent) : n > l => sent[n].kind # "subscription"

Types ==
  /\ second \in 0..MaxSecond
  /\ status \in SubscriptionStatuses
  /\ sent \in Seq(Event)
  /\ done \subseteq 1..Len(sent) /\ skipped \subseteq done
  /\ work \in [Handlers -> [pc: {"rest", "resolve", "read", "write"}, event: Nat,
                           seen: SubscriptionStatuses \cup {Null}]]
  /\ row \in [status: SubscriptionStatuses \cup {Null}, at: 0..MaxSecond]

Ordered ==
  /\ \A m, n \in 1..Len(sent) : m <= n => sent[m].at <= sent[n].at
  /\ \A n \in 1..Len(sent) : sent[n].at <= second
  /\ \E l \in 1..Len(sent) : IsLast(l)

\* A handler at work has its event, and one that has read the subscription for
\* the latest change, or since, has read its present status.
WorkFor(w) ==
  LET n == work[w].event IN
  work[w].pc # "rest" =>
    /\ n \in 1..Len(sent)
    /\ work[w].pc = "resolve" => sent[n].kind # "completed"
    /\ work[w].pc \in {"resolve", "read"} => work[w].seen = Null
    /\ work[w].pc \in {"read", "write"} /\ ~Mapped => sent[n].kind = "completed"
    /\ work[w].pc = "write" /\ sent[n].kind \in {"subscription", "completed"} =>
         work[w].seen # Null
    /\ \A l \in 1..Len(sent) :
         IsLast(l) /\ l <= n /\ work[w].pc = "write" /\ work[w].seen # Null
           => work[w].seen = status

WorkOK == \A w \in Handlers : WorkFor(w)

\* A row as recent as the latest change holds the present status, and once that
\* change is handled and not skipped the row is as recent.
RowOK ==
  /\ row.status # Null => \E n \in 1..Len(sent) : row.at = sent[n].at
  /\ \A l \in 1..Len(sent) : IsLast(l) =>
       /\ DistinctSeconds /\ row.status # Null /\ row.at >= sent[l].at => row.status = status
       /\ l \in done \ skipped => row.status # Null /\ row.at >= sent[l].at

\* The completed session is handled by writing the row.
MappedOK ==
  /\ \E c \in 1..Len(sent) : sent[c].kind = "completed"
  /\ \A c \in done : sent[c].kind = "completed" => Mapped

\* When the latest change was skipped and not missed, nobody has read, or will
\* write, anything but the present status.
SkipOK ==
  ~missed => \A l \in skipped : IsLast(l) =>
    /\ Mapped => row.status = status
    /\ \A w \in Handlers : work[w].pc = "write" /\ work[w].seen # Null => work[w].seen = status

MirrorInv == Types /\ Ordered /\ WorkOK /\ RowOK /\ MappedOK /\ SkipOK

\* Events carry the second they were created in.
LEMMA EventTimes ==
  ASSUME NEW s \in Seq(Event)
  PROVE  \A n \in 1..Len(s) : s[n] \in Event /\ s[n].at \in Nat
<1>1. \A n \in 1..Len(s) : s[n] \in Event
  OBVIOUS
<1>2. \A e \in Event : e.at \in Nat
  BY DEF Event
<1> QED BY <1>1, <1>2

\* A subscription that has just been created satisfies the invariant.
LEMMA MirrorInitInv == MirrorInit => MirrorInv
<1> SUFFICES ASSUME MirrorInit PROVE MirrorInv
  OBVIOUS
<1>0. second \in 0..1 /\ second \in 0..MaxSecond
  BY DEF MirrorInit
<1>1. /\ sent = <<[kind |-> "subscription", at |-> 0], [kind |-> "completed", at |-> second]>>
      /\ Len(sent) = 2 /\ done = {} /\ skipped = {}
      /\ sent[1] = [kind |-> "subscription", at |-> 0]
      /\ sent[2] = [kind |-> "completed", at |-> second]
  BY DEF MirrorInit
<1>2. Types
  BY <1>0, <1>1 DEF MirrorInit, Types, Event, SubscriptionStatuses, Resting
<1>3. Ordered
  <2>1. IsLast(1)
    BY <1>1 DEF IsLast
  <2> QED BY <1>0, <1>1, <2>1 DEF Ordered
<1>4. WorkOK /\ RowOK
  BY <1>1 DEF MirrorInit, WorkOK, WorkFor, RowOK, Resting
<1>5. MappedOK /\ SkipOK
  BY <1>1 DEF MappedOK, SkipOK
<1> QED BY <1>2, <1>3, <1>4, <1>5 DEF MirrorInv

\* An event is added at the end, at the present second.
LEMMA CreateEvent ==
  ASSUME MirrorInv, NEW kind \in {"subscription", "completed", "open", "won", "lost"}, Create(kind),
         second' = second
  PROVE  /\ sent' \in Seq(Event) /\ Len(sent') = Len(sent) + 1 /\ Len(sent) \in Nat
         /\ \A n \in 1..Len(sent) : sent'[n] = sent[n]
         /\ sent'[Len(sent')] = [kind |-> kind, at |-> second]
         /\ DistinctSeconds' => DistinctSeconds
         /\ \A m, n \in 1..Len(sent') : m <= n => sent'[m].at <= sent'[n].at
         /\ \A n \in 1..Len(sent') : sent'[n].at <= second'
<1>1. [kind |-> kind, at |-> second] \in Event /\ sent \in Seq(Event)
  BY DEF MirrorInv, Types, Event
<1>2. /\ sent' \in Seq(Event) /\ Len(sent') = Len(sent) + 1 /\ Len(sent) \in Nat
      /\ \A n \in 1..Len(sent) : sent'[n] = sent[n]
      /\ sent'[Len(sent')] = [kind |-> kind, at |-> second]
  BY <1>1 DEF Create
<1>3. DistinctSeconds' => DistinctSeconds
  BY <1>1, <1>2 DEF DistinctSeconds
<1>4. second \in Nat /\ \A n \in 1..Len(sent) : sent[n].at \in Nat
  <2>1. second \in Nat
    BY DEF MirrorInv, Types
  <2> QED BY <1>1, <2>1, EventTimes
<1>5. \A n \in 1..Len(sent') : n \in 1..Len(sent) \/ n = Len(sent')
  BY <1>2
<1>6. \A n \in 1..Len(sent') : sent'[n].at <= second'
  <2> SUFFICES ASSUME NEW n \in 1..Len(sent') PROVE sent'[n].at <= second'
    OBVIOUS
  <2>1. CASE n \in 1..Len(sent)
    BY <2>1, <1>2 DEF MirrorInv, Ordered
  <2>2. CASE n = Len(sent')
    BY <2>2, <1>2, <1>4
  <2> QED BY <2>1, <2>2, <1>5
<1>7. \A m, n \in 1..Len(sent') : m <= n => sent'[m].at <= sent'[n].at
  <2> SUFFICES ASSUME NEW m \in 1..Len(sent'), NEW n \in 1..Len(sent'), m <= n
               PROVE  sent'[m].at <= sent'[n].at
    OBVIOUS
  <2>1. CASE n \in 1..Len(sent)
    <3>1. m \in 1..Len(sent)
      BY <2>1, <1>2
    <3> QED BY <2>1, <3>1, <1>2 DEF MirrorInv, Ordered
  <2>2. CASE n = Len(sent')
    <3>1. sent'[n].at = second /\ second' = second
      BY <2>2, <1>2
    <3> QED BY <3>1, <1>6
  <2> QED BY <2>1, <2>2, <1>5
<1> QED BY <1>2, <1>3, <1>6, <1>7

\* A change at Stripe makes every earlier read out of date, and its event is new.
LEMMA ChangeInv == ASSUME MirrorInv, NEW to \in SubscriptionStatuses, Change(to) PROVE MirrorInv'
<1> DEFINE new == Len(sent')
<1>0. /\ Create("subscription") /\ status' = to
      /\ second' = second /\ done' = done /\ work' = work /\ row' = row
      /\ skipped' = skipped /\ missed' = missed
  BY DEF Change, settled, stored
<1>1. /\ sent' \in Seq(Event) /\ new = Len(sent) + 1 /\ Len(sent) \in Nat
      /\ \A n \in 1..Len(sent) : sent'[n] = sent[n]
      /\ sent'[new] = [kind |-> "subscription", at |-> second]
      /\ \A m, n \in 1..new : m <= n => sent'[m].at <= sent'[n].at
      /\ \A n \in 1..new : sent'[n].at <= second'
  BY <1>0, CreateEvent
<1>2. \A l \in 1..new : IsLast(l)' <=> l = new
  BY <1>1 DEF IsLast
<1>3. Types'
  BY <1>0, <1>1 DEF MirrorInv, Types
<1>7. MappedOK' /\ SkipOK'
  <2>1. /\ done \subseteq 1..Len(sent) /\ skipped \subseteq 1..Len(sent)
        /\ 1..Len(sent) \subseteq 1..new
    BY <1>1 DEF MirrorInv, Types
  <2>2. MappedOK'
    BY <1>0, <1>1, <2>1 DEF MirrorInv, MappedOK, Mapped
  <2>3. \A l \in skipped' : ~IsLast(l)'
    BY <1>0, <1>1, <1>2, <2>1
  <2> QED BY <2>2, <2>3 DEF SkipOK
<1>4. Ordered'
  BY <1>1, <1>2 DEF Ordered
<1>5. WorkOK'
  <2> SUFFICES ASSUME NEW w \in Handlers, work[w].pc # "rest" PROVE WorkFor(w)'
    BY <1>0 DEF WorkOK, WorkFor
  <2>1. work[w].event \in 1..Len(sent) /\ WorkFor(w)
    BY DEF MirrorInv, WorkOK, WorkFor
  <2> QED BY <2>1, <1>0, <1>1, <1>2 DEF WorkFor, Mapped
<1>6. RowOK'
  <2>1. row'.status # Null => \E n \in 1..Len(sent) : row'.at = sent'[n].at
    BY <1>0, <1>1 DEF MirrorInv, RowOK
  <2>2. new \notin done'
    BY <1>0, <1>1 DEF MirrorInv, Types
  <2>3. ASSUME DistinctSeconds', row'.status # Null PROVE ~(row'.at >= sent'[new].at)
    <3>1. PICK n \in 1..Len(sent) : row'.at = sent'[n].at
      BY <2>1, <2>3
    <3>2. sent'[n].at # sent'[new].at
      BY <1>1, <2>3 DEF DistinctSeconds
    <3>3. sent'[n].at <= sent'[new].at /\ sent'[n].at \in Nat /\ sent'[new].at \in Nat
      BY <1>1, EventTimes
    <3> QED BY <3>1, <3>2, <3>3
  <2>4. row'.status # Null => \E n \in 1..new : row'.at = sent'[n].at
    BY <2>1, <1>1
  <2> QED BY <1>2, <2>2, <2>3, <2>4 DEF RowOK
<1> QED BY <1>3, <1>4, <1>5, <1>6, <1>7 DEF MirrorInv

\* A dispute moves no subscription.
LEMMA DisputeInv == ASSUME MirrorInv, NEW to \in {"open", "won", "lost"}, Dispute(to) PROVE MirrorInv'
<1> DEFINE new == Len(sent')
<1>0. /\ Create(to) /\ status' = status
      /\ second' = second /\ done' = done /\ work' = work /\ row' = row
      /\ skipped' = skipped /\ missed' = missed
  BY DEF Dispute, settled, stored
<1>1. /\ sent' \in Seq(Event) /\ new = Len(sent) + 1 /\ Len(sent) \in Nat
      /\ \A n \in 1..Len(sent) : sent'[n] = sent[n]
      /\ sent'[new] = [kind |-> to, at |-> second]
      /\ DistinctSeconds' => DistinctSeconds
      /\ \A m, n \in 1..new : m <= n => sent'[m].at <= sent'[n].at
      /\ \A n \in 1..new : sent'[n].at <= second'
  BY <1>0, CreateEvent
<1>2. \A l \in 1..new : IsLast(l)' <=> l \in 1..Len(sent) /\ IsLast(l)
  BY <1>1 DEF IsLast
<1>3. Types'
  BY <1>0, <1>1 DEF MirrorInv, Types
<1>4. Ordered'
  BY <1>1, <1>2 DEF MirrorInv, Ordered
<1>5. WorkOK'
  <2> SUFFICES ASSUME NEW w \in Handlers, work[w].pc # "rest" PROVE WorkFor(w)'
    BY <1>0 DEF WorkOK, WorkFor
  <2>1. work[w].event \in 1..Len(sent) /\ WorkFor(w)
    BY DEF MirrorInv, WorkOK, WorkFor
  <2> QED BY <2>1, <1>0, <1>1, <1>2 DEF WorkFor, Mapped
<1>6. RowOK'
  BY <1>0, <1>1, <1>2 DEF MirrorInv, RowOK
<1>7. MappedOK' /\ SkipOK'
  BY <1>0, <1>1, <1>2 DEF MirrorInv, Types, MappedOK, SkipOK, Mapped
<1> QED BY <1>3, <1>4, <1>5, <1>6, <1>7 DEF MirrorInv

\* A step that leaves Stripe alone leaves these facts alone.
LEMMA StillOrdered ==
  ASSUME MirrorInv, UNCHANGED <<second, status, sent>>
  PROVE  /\ Ordered' /\ (DistinctSeconds' <=> DistinctSeconds)
         /\ \A l \in 1..Len(sent) : IsLast(l)' <=> IsLast(l)
BY DEF MirrorInv, Ordered, IsLast, DistinctSeconds

\* A step that stores nothing, and after which nobody holds another read than the
\* present status who did not hold it before, misses nothing.
LEMMA StillSkipped ==
  ASSUME MirrorInv, UNCHANGED <<second, status, sent, done, skipped, missed, row>>,
         \A v \in Handlers : work'[v].pc = "write" /\ work'[v].seen # Null =>
           work'[v] = work[v] \/ work'[v].seen = status
  PROVE  MappedOK' /\ SkipOK'
<1>1. skipped \subseteq 1..Len(sent)
  BY DEF MirrorInv, Types
<1>2. MappedOK'
  BY DEF MirrorInv, MappedOK, Mapped
<1>3. SkipOK'
  <2> SUFFICES ASSUME ~missed, NEW l \in skipped, IsLast(l)
               PROVE  /\ Mapped' => row'.status = status'
                      /\ \A v \in Handlers : work'[v].pc = "write" /\ work'[v].seen # Null
                           => work'[v].seen = status'
    BY <1>1, StillOrdered DEF SkipOK
  <2> QED BY DEF MirrorInv, SkipOK, Mapped
<1> QED BY <1>2, <1>3

\* A handler reads the status of the latest change.
LEMMA ReadInv == ASSUME MirrorInv, NEW w \in Handlers, Read(w) PROVE MirrorInv'
<1>0. UNCHANGED <<second, status, sent, done, skipped, missed, row>>
  BY DEF Read, settled, stored
<1>1. /\ \A v \in Handlers \ {w} : work'[v] = work[v]
      /\ work'[w].pc = "write" /\ work'[w].event = work[w].event
      /\ work'[w].seen \in {status, Null}
      /\ sent[work[w].event].kind # "won" => work'[w].seen = status
  BY DEF MirrorInv, Types, Read
<1>2. Types'
  <2>1. work' \in [Handlers -> [pc: {"rest", "resolve", "read", "write"}, event: Nat,
                               seen: SubscriptionStatuses \cup {Null}]]
    <3> DEFINE next == IF sent[work[w].event].kind # "won" \/ row.status \in Live
                       THEN status ELSE Null
    <3>1. next \in SubscriptionStatuses \cup {Null}
      BY DEF MirrorInv, Types
    <3>2. /\ work' = [work EXCEPT ![w].pc = "write", ![w].seen = next]
          /\ work \in [Handlers -> [pc: {"rest", "resolve", "read", "write"}, event: Nat,
                                   seen: SubscriptionStatuses \cup {Null}]]
      BY DEF MirrorInv, Types, Read
    <3> HIDE DEF next
    <3> QED BY <3>1, <3>2
  <2> QED BY <1>0, <2>1 DEF MirrorInv, Types
<1>3. WorkOK'
  <2>1. ASSUME NEW v \in Handlers \ {w} PROVE WorkFor(v)'
    BY <2>1, <1>0, <1>1, StillOrdered DEF MirrorInv, WorkOK, WorkFor, Mapped
  <2>2. /\ work[w].event \in 1..Len(sent) /\ status # Null
        /\ ~Mapped => sent[work[w].event].kind = "completed"
    BY DEF MirrorInv, WorkOK, WorkFor, Read, Types, SubscriptionStatuses
  <2>3. WorkFor(w)'
    BY <1>0, <1>1, <2>2 DEF WorkFor, Mapped
  <2> QED BY <2>1, <2>3 DEF WorkOK
<1>4. RowOK'
  BY <1>0, StillOrdered DEF MirrorInv, RowOK
<1>5. MappedOK' /\ SkipOK'
  BY <1>0, <1>1, StillSkipped
<1> QED BY <1>0, <1>2, <1>3, <1>4, <1>5, StillOrdered DEF MirrorInv

\* The guarded upsert never puts an older event over a newer one.
LEMMA WriteInv == ASSUME MirrorInv, NEW w \in Handlers, Write(w) PROVE MirrorInv'
<1> DEFINE n == work[w].event
<1> DEFINE s == work[w].seen
<1>0. UNCHANGED <<second, status, sent, skipped, missed>> /\ done' = done \cup {n}
  BY DEF Write
<1>1. /\ \A v \in Handlers \ {w} : work'[v] = work[v]
      /\ work'[w] = Resting
  BY DEF MirrorInv, Types, Write
<1>2. /\ n \in 1..Len(sent) /\ work[w].pc = "write" /\ WorkFor(w)
      /\ sent[n] \in Event /\ sent[n].at \in 0..MaxSecond
      /\ \A l \in 1..Len(sent) : sent[l].at \in Nat
      /\ row.at \in Nat /\ Len(sent) \in Nat
  <2>1. n \in 1..Len(sent) /\ work[w].pc = "write" /\ WorkFor(w)
    BY DEF MirrorInv, WorkOK, WorkFor, Write
  <2>2. sent \in Seq(Event) /\ row.at \in Nat /\ Len(sent) \in Nat
    BY DEF MirrorInv, Types
  <2>3. sent[n] \in Event /\ \A l \in 1..Len(sent) : sent[l].at \in Nat
    BY <2>1, <2>2, EventTimes
  <2> QED BY <2>1, <2>2, <2>3 DEF Event
<1>3. \/ row' = row /\ sent[n].kind \notin {"subscription", "completed"}
      \/ s # Null /\ s \in SubscriptionStatuses /\ row' = Upserted(s, sent[n].at)
  <2>1. s \in SubscriptionStatuses \cup {Null}
    BY DEF MirrorInv, Types
  <2>2. CASE sent[n].kind \in {"subscription", "completed", "won"}
    <3>1. WritePair(s, sent[n].at)
      BY <2>2 DEF Write
    <3> QED BY <1>2, <2>1, <2>2, <3>1 DEF WritePair, WorkFor
  <2>3. CASE sent[n].kind \in {"open", "lost"}
    BY <2>3 DEF Write
  <2> QED BY <1>2, <2>2, <2>3 DEF Event
<1>4. row' \in [status: SubscriptionStatuses \cup {Null}, at: 0..MaxSecond]
  BY <1>2, <1>3 DEF MirrorInv, Types, Upserted
<1>5. Types'
  <2>1. work' \in [Handlers -> [pc: {"rest", "resolve", "read", "write"}, event: Nat,
                               seen: SubscriptionStatuses \cup {Null}]]
    BY DEF MirrorInv, Types, Write, Resting
  <2> QED BY <1>0, <1>2, <1>4, <2>1 DEF MirrorInv, Types
<1>8. Mapped => Mapped'
  BY <1>2, <1>3 DEF Mapped, Upserted
<1>6. WorkOK'
  <2>1. ASSUME NEW v \in Handlers \ {w} PROVE WorkFor(v)'
    BY <2>1, <1>0, <1>1, <1>8, StillOrdered DEF MirrorInv, WorkOK, WorkFor
  <2>2. WorkFor(w)'
    BY <1>1 DEF WorkFor, Resting
  <2> QED BY <2>1, <2>2 DEF WorkOK
<1>9. MappedOK' /\ SkipOK'
  <2>1. \/ row' = row /\ sent[n].kind \notin {"subscription", "completed"}
        \/ row' = row /\ Mapped
        \/ row'.status = s /\ s # Null
    BY <1>3 DEF Upserted, Mapped
  <2>2. MappedOK'
    BY <1>0, <1>8, <2>1 DEF MirrorInv, MappedOK, Mapped
  <2>3. SkipOK'
    <3> SUFFICES ASSUME ~missed, NEW l \in skipped, IsLast(l)
                 PROVE  /\ Mapped' => row'.status = status
                        /\ \A v \in Handlers : work'[v].pc = "write" /\ work'[v].seen # Null
                             => work'[v].seen = status
      BY <1>0, StillOrdered DEF SkipOK, MirrorInv, Types
    <3>1. /\ Mapped => row.status = status
          /\ \A v \in Handlers : work[v].pc = "write" /\ work[v].seen # Null
               => work[v].seen = status
      BY DEF MirrorInv, SkipOK
    <3> QED BY <1>1, <1>2, <2>1, <3>1 DEF Mapped, Resting
  <2> QED BY <2>2, <2>3
<1>7. RowOK'
  <2>1. CASE row' = row /\ sent[n].kind \notin {"subscription", "completed"}
    <3>1. \A l \in 1..Len(sent) : IsLast(l) => l # n
      BY <2>1 DEF IsLast
    <3> QED BY <1>0, <2>1, <3>1, StillOrdered DEF MirrorInv, RowOK
  <2>2. CASE s # Null /\ s \in SubscriptionStatuses /\ row' = Upserted(s, sent[n].at)
    <3>0. \/ row'.at = sent[n].at /\ row'.status = s
          \/ row' = row /\ row.status # Null /\ row.at >= sent[n].at
      BY <2>2, <1>2 DEF MirrorInv, Types, Upserted
    <3>1. /\ row'.status # Null
          /\ \/ row'.at = sent[n].at /\ row'.status = s
             \/ row' = row /\ row.status # Null /\ row.at >= sent[n].at
      BY <2>2, <3>0
    <3>2. row.status # Null => row'.at >= row.at
      BY <2>2, <1>2 DEF MirrorInv, Types, Upserted
    <3>3. \E m \in 1..Len(sent) : row'.at = sent[m].at
      BY <3>1, <1>2 DEF MirrorInv, RowOK
    <3>4. ASSUME NEW l \in 1..Len(sent), IsLast(l)
          PROVE  /\ DistinctSeconds /\ row'.at >= sent[l].at => row'.status = status
                 /\ l \in done' \ skipped' => row'.at >= sent[l].at
      <4>0. /\ sent[l].at \in Nat /\ sent[n].at \in Nat /\ row.at \in Nat /\ row'.at \in Nat
            /\ l \in Nat /\ n \in Nat
        BY <1>2, <1>4
      <4>1. ASSUME DistinctSeconds, row'.at >= sent[l].at PROVE row'.status = status
        <5>1. CASE row' = row /\ row.status # Null
          BY <3>4, <4>1, <5>1 DEF MirrorInv, RowOK
        <5>2. CASE row'.at = sent[n].at /\ row'.status = s
          <6>1. l <= n
            <7>1. SUFFICES ASSUME n < l PROVE FALSE
              BY <4>0
            <7>2. sent[n].at <= sent[l].at
              BY <7>1, <1>2 DEF MirrorInv, Ordered
            <7>3. sent[n].at # sent[l].at
              BY <4>1, <7>1, <1>2 DEF DistinctSeconds
            <7> QED BY <4>0, <4>1, <5>2, <7>2, <7>3
          <6> QED BY <5>2, <6>1, <3>4, <2>2, <1>2 DEF WorkFor
        <5> QED BY <3>1, <5>1, <5>2
      <4>2. ASSUME l \in done' \ skipped' PROVE row'.at >= sent[l].at
        <5>1. CASE l = n
          BY <3>1, <4>0, <5>1
        <5>2. CASE l \in done \ skipped
          <6>1. row.status # Null /\ row.at >= sent[l].at
            BY <3>4, <5>2 DEF MirrorInv, RowOK
          <6> QED BY <3>2, <4>0, <6>1
        <5> QED BY <1>0, <4>2, <5>1, <5>2
      <4> QED BY <4>1, <4>2
    <3> QED BY <1>0, <3>1, <3>3, <3>4, StillOrdered DEF RowOK
  <2> QED BY <1>3, <2>1, <2>2
<1> QED BY <1>0, <1>5, <1>6, <1>7, <1>9, StillOrdered DEF MirrorInv

\* A handler starts with nothing read.
LEMMA StartInv == ASSUME MirrorInv, NEW w \in Handlers, NEW n \in Nat, Start(w, n) PROVE MirrorInv'
<1>0. UNCHANGED <<second, status, sent, done, skipped, missed, row>> /\ n \in 1..Len(sent)
  BY DEF Start, MirrorInv, Types, settled, stored
<1>1. /\ \A v \in Handlers \ {w} : work'[v] = work[v]
      /\ work'[w] = [pc |-> FirstStep(n), event |-> n, seen |-> Null]
  BY DEF MirrorInv, Types, Start
<1>2. Types'
  <2>1. work' \in [Handlers -> [pc: {"rest", "resolve", "read", "write"}, event: Nat,
                               seen: SubscriptionStatuses \cup {Null}]]
    BY DEF MirrorInv, Types, Start, FirstStep
  <2> QED BY <1>0, <2>1 DEF MirrorInv, Types
<1>3. WorkOK'
  <2>1. ASSUME NEW v \in Handlers \ {w} PROVE WorkFor(v)'
    BY <2>1, <1>0, <1>1, StillOrdered DEF MirrorInv, WorkOK, WorkFor, Mapped
  <2>2. WorkFor(w)'
    BY <1>0, <1>1, SMTT(30) DEF WorkFor, FirstStep
  <2> QED BY <2>1, <2>2 DEF WorkOK
<1>4. RowOK'
  BY <1>0, StillOrdered DEF MirrorInv, RowOK
<1>5. MappedOK' /\ SkipOK'
  BY <1>0, <1>1, StillSkipped DEF FirstStep
<1> QED BY <1>0, <1>2, <1>3, <1>4, <1>5, StillOrdered DEF MirrorInv

\* A handler that found its organisation has the row to go by.
LEMMA ResolveInv == ASSUME MirrorInv, NEW w \in Handlers, Resolve(w) PROVE MirrorInv'
<1>0. UNCHANGED <<second, status, sent, done, skipped, missed, row>>
  BY DEF Resolve, settled, stored
<1>1. /\ \A v \in Handlers \ {w} : work'[v] = work[v]
      /\ work'[w].pc \in {"read", "write"} /\ work'[w].event = work[w].event
      /\ work'[w].seen = work[w].seen
      /\ sent[work[w].event].kind \in {"subscription", "won"} => work'[w].pc = "read"
  BY DEF MirrorInv, Types, Resolve
<1>2. Types'
  <2>1. work' \in [Handlers -> [pc: {"rest", "resolve", "read", "write"}, event: Nat,
                               seen: SubscriptionStatuses \cup {Null}]]
    BY DEF MirrorInv, Types, Resolve
  <2> QED BY <1>0, <2>1 DEF MirrorInv, Types
<1>3. /\ work[w].event \in 1..Len(sent) /\ work[w].seen = Null
      /\ sent[work[w].event].kind # "completed" /\ Mapped
  BY DEF MirrorInv, WorkOK, WorkFor, Resolve
<1>4. WorkOK'
  <2>1. ASSUME NEW v \in Handlers \ {w} PROVE WorkFor(v)'
    BY <2>1, <1>0, <1>1, StillOrdered DEF MirrorInv, WorkOK, WorkFor, Mapped
  <2>2. WorkFor(w)'
    BY <1>0, <1>1, <1>3 DEF WorkFor, Mapped
  <2> QED BY <2>1, <2>2 DEF WorkOK
<1>5. RowOK'
  BY <1>0, StillOrdered DEF MirrorInv, RowOK
<1>6. MappedOK' /\ SkipOK'
  BY <1>0, <1>1, <1>3, StillSkipped
<1> QED BY <1>0, <1>2, <1>4, <1>5, <1>6, StillOrdered DEF MirrorInv

\* An event skipped while nobody holds a read is made up for by the next read.
LEMMA UnresolvedInv == ASSUME MirrorInv, NEW w \in Handlers, Unresolved(w) PROVE MirrorInv'
<1> DEFINE n == work[w].event
<1>0. /\ UNCHANGED <<second, status, sent, row>> /\ row.status = Null
      /\ done' = done \cup {n} /\ skipped' = skipped \cup {n}
      /\ missed' = (missed \/ Completing)
  BY DEF Unresolved, stored, Mapped
<1>1. /\ \A v \in Handlers \ {w} : work'[v] = work[v]
      /\ work'[w] = Resting
  BY DEF MirrorInv, Types, Unresolved
<1>2. n \in 1..Len(sent) /\ sent[n].kind # "completed"
  BY DEF MirrorInv, WorkOK, WorkFor, Unresolved
<1>3. Types'
  <2>1. work' \in [Handlers -> [pc: {"rest", "resolve", "read", "write"}, event: Nat,
                               seen: SubscriptionStatuses \cup {Null}]]
    BY DEF MirrorInv, Types, Unresolved, Resting
  <2> QED BY <1>0, <1>2, <2>1 DEF MirrorInv, Types
<1>4. WorkOK'
  <2>1. ASSUME NEW v \in Handlers \ {w} PROVE WorkFor(v)'
    BY <2>1, <1>0, <1>1, StillOrdered DEF MirrorInv, WorkOK, WorkFor, Mapped
  <2>2. WorkFor(w)'
    BY <1>1 DEF WorkFor, Resting
  <2> QED BY <2>1, <2>2 DEF WorkOK
<1>5. RowOK'
  BY <1>0, StillOrdered DEF MirrorInv, Types, RowOK
<1>6. MappedOK'
  BY <1>0, <1>2 DEF MirrorInv, MappedOK, Mapped
<1>7. SkipOK'
  <2> SUFFICES ASSUME ~missed' PROVE \A v \in Handlers : work'[v].pc # "write"
    BY <1>0 DEF SkipOK, Mapped
  <2>1. \A v \in Handlers : work[v].pc = "write" => sent[work[v].event].kind = "completed"
    BY <1>0 DEF MirrorInv, WorkOK, WorkFor, Mapped
  <2>2. \A v \in Handlers : work[v].pc # "write"
    BY <1>0, <2>1 DEF Completing
  <2> QED BY <1>1, <2>2 DEF Resting
<1> QED BY <1>0, <1>3, <1>4, <1>5, <1>6, <1>7, StillOrdered DEF MirrorInv

\* A lost invocation has written nothing, and its event is delivered again.
LEMMA LoseInv == ASSUME MirrorInv, NEW w \in Handlers, Lose(w) PROVE MirrorInv'
<1>0. UNCHANGED <<second, status, sent, done, skipped, missed, row>>
  BY DEF Lose, settled, stored
<1>1. /\ \A v \in Handlers \ {w} : work'[v] = work[v]
      /\ work'[w] = Resting
  BY DEF MirrorInv, Types, Lose
<1>2. Types'
  <2>1. work' \in [Handlers -> [pc: {"rest", "resolve", "read", "write"}, event: Nat,
                               seen: SubscriptionStatuses \cup {Null}]]
    BY DEF MirrorInv, Types, Lose, Resting
  <2> QED BY <1>0, <2>1 DEF MirrorInv, Types
<1>3. WorkOK'
  <2>1. ASSUME NEW v \in Handlers \ {w} PROVE WorkFor(v)'
    BY <2>1, <1>0, <1>1, StillOrdered DEF MirrorInv, WorkOK, WorkFor, Mapped
  <2>2. WorkFor(w)'
    BY <1>1 DEF WorkFor, Resting
  <2> QED BY <2>1, <2>2 DEF WorkOK
<1>4. RowOK'
  BY <1>0, StillOrdered DEF MirrorInv, RowOK
<1>5. MappedOK' /\ SkipOK'
  BY <1>0, <1>1, StillSkipped DEF Resting
<1> QED BY <1>0, <1>2, <1>3, <1>4, <1>5, StillOrdered DEF MirrorInv

\* The invariant is inductive.
LEMMA MirrorNextInv == MirrorInv /\ [MirrorNext]_mirrorVars => MirrorInv'
<1> SUFFICES ASSUME MirrorInv, [MirrorNext]_mirrorVars PROVE MirrorInv'
  OBVIOUS
<1>1. ASSUME NEW to \in SubscriptionStatuses, Change(to) PROVE MirrorInv'
  BY <1>1, ChangeInv
<1>2. ASSUME NEW to \in {"open", "won", "lost"}, Dispute(to) PROVE MirrorInv'
  BY <1>2, DisputeInv
<1>3. CASE NextSecond
  <2>1. UNCHANGED <<status, sent, done, skipped, missed, work, row>> /\ second' = second + 1
        /\ second' \in 0..MaxSecond
    BY <1>3 DEF NextSecond, MirrorInv, Types, settled, stored
  <2>2. \A n \in 1..Len(sent) : sent[n].at \in Nat /\ sent[n].at <= second /\ second \in Nat
    BY EventTimes DEF MirrorInv, Types, Ordered
  <2>3. \A n \in 1..Len(sent) : sent'[n].at <= second'
    BY <2>1, <2>2
  <2>4. /\ DistinctSeconds' <=> DistinctSeconds
        /\ \A l \in 1..Len(sent) : IsLast(l)' <=> IsLast(l)
    BY <2>1 DEF DistinctSeconds, IsLast
  <2>5. Ordered'
    BY <2>1, <2>3, <2>4 DEF MirrorInv, Ordered
  <2>6. WorkOK'
    BY <2>1, <2>4 DEF MirrorInv, WorkOK, WorkFor, Mapped
  <2>7. RowOK' /\ MappedOK' /\ SkipOK'
    BY <2>1, <2>4 DEF MirrorInv, Types, RowOK, MappedOK, SkipOK, Mapped
  <2> QED BY <2>1, <2>5, <2>6, <2>7 DEF MirrorInv, Types
<1>4. ASSUME NEW w \in Handlers, NEW n \in 1..MaxEvents, Start(w, n) PROVE MirrorInv'
  BY <1>4, StartInv
<1>5. ASSUME NEW w \in Handlers,
             Resolve(w) \/ Unresolved(w) \/ Read(w) \/ Write(w) \/ Lose(w)
      PROVE  MirrorInv'
  BY <1>5, ResolveInv, UnresolvedInv, ReadInv, WriteInv, LoseInv
<1>6. CASE UNCHANGED mirrorVars
  <2>1. UNCHANGED <<second, status, sent, done, skipped, missed, work, row>>
    BY <1>6 DEF mirrorVars
  <2>2. Types' /\ WorkOK'
    BY <2>1, StillOrdered DEF MirrorInv, Types, WorkOK, WorkFor, Mapped
  <2>3. RowOK' /\ MappedOK' /\ SkipOK'
    BY <2>1, StillOrdered DEF MirrorInv, Types, RowOK, MappedOK, SkipOK, Mapped
  <2> QED BY <2>1, <2>2, <2>3, StillOrdered DEF MirrorInv
<1> QED BY <1>1, <1>2, <1>3, <1>4, <1>5, <1>6 DEF MirrorNext

\* The invariant holds of the mirror.
LEMMA InvHolds == MirrorSpec => []MirrorInv
BY MirrorInitInv, MirrorNextInv, PTL DEF MirrorSpec

\* However deliveries are ordered, repeated or lost and handlers overlap, the
\* row the ordering guard of subscriptions.ts protects ends as the subscription
\* Stripe has, unless two of its events share a second or one was skipped
\* (context.ts) between the completed session's re-read and its batch.
THEOREM RowConvergesCorrect == MirrorSpec => []RowConverges
<1>1. MirrorInv => RowConverges
  <2> SUFFICES ASSUME MirrorInv, Quiet, DistinctSeconds, ~missed PROVE row.status = status
    BY DEF RowConverges
  <2>1. PICK l \in 1..Len(sent) : IsLast(l)
    BY DEF MirrorInv, Ordered
  <2>2. sent \in Seq(Event)
    BY DEF MirrorInv, Types
  <2>3. l \in done /\ Mapped
    BY <2>2 DEF Quiet, MirrorInv, MappedOK
  <2>4. CASE l \in skipped
    BY <2>1, <2>3, <2>4 DEF MirrorInv, SkipOK
  <2>5. CASE l \notin skipped
    BY <2>1, <2>3, <2>5 DEF MirrorInv, RowOK
  <2> QED BY <2>4, <2>5
<1> QED BY <1>1, InvHolds, PTL

----------------------------------------------------------------------------
\* What Stripe has sent tells where the dispute is, and a website whose dispute
\* was seen open stays suspended until the dispute is won.
Disputed ==
  /\ dispute \in {"none", "open", "won", "lost"}
  /\ \A n \in 1..Len(sent) : sent[n].kind = "open" => dispute # "none"
  /\ \A n \in 1..Len(sent) : sent[n].kind \in {"won", "lost"} => dispute = sent[n].kind
  /\ dispute \in {"open", "lost"} => \E n \in 1..Len(sent) : sent[n].kind = "open"
  /\ \A n \in done \ skipped : sent[n].kind = "open" /\ dispute # "won" => suspended

\* Handlers that never overlapped are at work one at a time.
Alone == ~overlapped => \A v, w \in Handlers : work[v] # Resting /\ work[w] # Resting => v = w

\* Once the latest change is handled and there is a row, the entitlement is the one
\* of the present status, and so is what a handler still at work is about to write.
Entitled ==
  ~overlapped /\ dispute = "none" =>
    \A l \in done : IsLast(l) =>
      /\ Mapped => entitlement = decideEntitlement(status)
      /\ \A w \in Handlers : work[w].pc = "write" => work[w].seen = status

Settled == Disputed /\ Alone /\ Entitled

\* Before the first dispute every event is the subscription's or its session's.
LEMMA Undisputed ==
  ASSUME Types, Disputed, dispute = "none"
  PROVE  \A n \in 1..Len(sent) : sent[n].kind \in {"subscription", "completed"}
<1>1. \A n \in 1..Len(sent) : sent[n].kind \in {"subscription", "completed", "open", "won", "lost"}
  BY EventTimes DEF Types, Event
<1> QED BY <1>1 DEF Disputed

\* A move of Stripe's adds an event no handler has seen.
LEMMA StripeSettled ==
  ASSUME MirrorInv, Settled,
         \/ \E to \in SubscriptionStatuses : Change(to)
         \/ \E to \in {"open", "won", "lost"} : Dispute(to)
  PROVE  Settled'
<1>0. /\ UNCHANGED <<done, skipped, work, row, entitlement, suspended, overlapped>>
      /\ done \subseteq 1..Len(sent)
  BY DEF Change, Dispute, MirrorInv, Types, settled, stored
<1>1. Alone'
  BY <1>0 DEF Settled, Alone
<1>2. CASE \E to \in SubscriptionStatuses : Change(to)
  <2>1. PICK to \in SubscriptionStatuses : Change(to)
    BY <1>2
  <2>2. /\ Len(sent') = Len(sent) + 1 /\ Len(sent) \in Nat
        /\ \A n \in 1..Len(sent) : sent'[n] = sent[n]
        /\ sent'[Len(sent')] = [kind |-> "subscription", at |-> second]
        /\ dispute' = dispute
    BY <2>1, CreateEvent DEF Change
  <2>3. Disputed'
    BY <1>0, <2>2 DEF Settled, Disputed
  <2>4. \A l \in done' : ~IsLast(l)'
    BY <1>0, <2>2 DEF IsLast
  <2> QED BY <1>1, <2>3, <2>4 DEF Settled, Entitled
<1>3. CASE \E to \in {"open", "won", "lost"} : Dispute(to)
  <2>1. PICK to \in {"open", "won", "lost"} : Dispute(to)
    BY <1>3
  <2>2. /\ Len(sent') = Len(sent) + 1 /\ Len(sent) \in Nat
        /\ \A n \in 1..Len(sent) : sent'[n] = sent[n]
        /\ sent'[Len(sent')] = [kind |-> to, at |-> second]
        /\ dispute' = to
        /\ <<dispute, to>> \in {<<"none", "open">>, <<"open", "won">>, <<"open", "lost">>}
    BY <2>1, CreateEvent DEF Dispute
  <2>3. Disputed'
    BY <1>0, <2>2 DEF Settled, Disputed
  <2> QED BY <1>1, <2>2, <2>3 DEF Settled, Entitled
<1> QED BY <1>2, <1>3

\* A handler that starts is alone, or has overlapped another.
LEMMA StartSettled ==
  ASSUME MirrorInv, Settled, NEW w \in Handlers, NEW n \in Nat, Start(w, n)
  PROVE  Settled'
<1>0. /\ UNCHANGED <<second, status, dispute, sent, done, skipped, row, entitlement, suspended>>
      /\ n \in 1..Len(sent)
      /\ \A l \in 1..Len(sent) : IsLast(l)' <=> IsLast(l)
  BY StillOrdered DEF Start, MirrorInv, Types, settled, stored
<1>1. /\ \A v \in Handlers \ {w} : work'[v] = work[v]
      /\ work'[w] = [pc |-> FirstStep(n), event |-> n, seen |-> Null]
      /\ ~overlapped' => ~overlapped /\ \A v \in Handlers : work[v] = Resting
  BY DEF MirrorInv, Types, Start
<1>2. Disputed'
  BY <1>0 DEF Settled, Disputed
<1>3. Alone'
  BY <1>1 DEF Alone
<1>4. Entitled'
  <2>1. work'[w].pc # "write"
    BY <1>1 DEF FirstStep
  <2> QED BY <1>0, <1>1, <2>1 DEF Settled, Entitled, Resting, MirrorInv, Types, Mapped
<1> QED BY <1>2, <1>3, <1>4 DEF Settled

\* A handler that found its organisation reads before it writes, a dispute's apart.
LEMMA ResolveSettled ==
  ASSUME MirrorInv, Settled, NEW w \in Handlers, Resolve(w) PROVE Settled'
<1>0. /\ UNCHANGED <<second, status, dispute, sent, done, skipped, row, entitlement, suspended,
                  overlapped>>
      /\ \A l \in 1..Len(sent) : IsLast(l)' <=> IsLast(l)
      /\ done \subseteq 1..Len(sent)
  BY StillOrdered DEF Resolve, MirrorInv, Types, settled, stored
<1>1. /\ \A v \in Handlers \ {w} : work'[v] = work[v]
      /\ work[w] # Resting
      /\ sent[work[w].event].kind = "subscription" => work'[w].pc = "read"
  BY DEF MirrorInv, Types, Resolve, Resting
<1>2. Disputed'
  BY <1>0 DEF Settled, Disputed
<1>3. Alone'
  BY <1>0, <1>1 DEF Settled, Alone
<1>4. Entitled'
  <2>1. work[w].event \in 1..Len(sent) /\ sent[work[w].event].kind # "completed"
    BY DEF MirrorInv, WorkOK, WorkFor, Resolve
  <2>2. dispute = "none" => work'[w].pc = "read"
    BY <1>1, <2>1, Undisputed DEF MirrorInv, Settled
  <2> QED BY <1>0, <1>1, <2>2 DEF Settled, Entitled, Mapped
<1> QED BY <1>2, <1>3, <1>4 DEF Settled

\* A skipped event leaves no row behind, and nobody else at work if it was alone.
LEMMA UnresolvedSettled ==
  ASSUME MirrorInv, Settled, NEW w \in Handlers, Unresolved(w) PROVE Settled'
<1> DEFINE n == work[w].event
<1>0. /\ UNCHANGED <<second, status, dispute, sent, row, entitlement, suspended, overlapped>>
      /\ done' = done \cup {n} /\ skipped' = skipped \cup {n} /\ ~Mapped
  BY DEF Unresolved, stored
<1>1. /\ \A v \in Handlers \ {w} : work'[v] = work[v]
      /\ work'[w] = Resting /\ work[w] # Resting
  BY DEF MirrorInv, Types, Unresolved, Resting
<1>2. Disputed'
  BY <1>0 DEF Settled, Disputed
<1>3. Alone'
  BY <1>0, <1>1 DEF Settled, Alone
<1>4. Entitled'
  <2>1. ~overlapped => \A v \in Handlers : work'[v].pc # "write"
    BY <1>1 DEF Settled, Alone, Resting
  <2> QED BY <1>0, <2>1 DEF Entitled, Mapped
<1> QED BY <1>2, <1>3, <1>4 DEF Settled

\* What is read is the present status.
LEMMA ReadSettled == ASSUME MirrorInv, Settled, NEW w \in Handlers, Read(w) PROVE Settled'
<1>0. /\ UNCHANGED <<second, status, dispute, sent, done, skipped, row, entitlement, suspended,
                  overlapped>>
      /\ \A l \in 1..Len(sent) : IsLast(l)' <=> IsLast(l)
  BY StillOrdered DEF Read, MirrorInv, Types, settled, stored
<1>1. /\ \A v \in Handlers \ {w} : work'[v] = work[v]
      /\ sent[work[w].event].kind # "won" => work'[w].seen = status
      /\ work[w] # Resting
  BY DEF MirrorInv, Types, Read, Resting
<1>2. Disputed'
  BY <1>0 DEF Settled, Disputed
<1>3. Alone'
  BY <1>0, <1>1 DEF Settled, Alone
<1>4. Entitled'
  <2>1. work[w].event \in 1..Len(sent)
    BY DEF MirrorInv, WorkOK, WorkFor, Read
  <2>2. dispute = "none" => work'[w].seen = status
    BY <1>1, <2>1, Undisputed DEF MirrorInv, Settled
  <2> QED BY <1>0, <1>1, <2>2 DEF Settled, Entitled, MirrorInv, Types, Mapped
<1> QED BY <1>2, <1>3, <1>4 DEF Settled

\* A write puts down what was read, and leaves nobody at work if it was alone.
LEMMA WriteSettled == ASSUME MirrorInv, Settled, NEW w \in Handlers, Write(w) PROVE Settled'
<1> DEFINE n == work[w].event
<1>0. /\ UNCHANGED <<second, status, dispute, sent, skipped, overlapped>> /\ done' = done \cup {n}
      /\ \A l \in 1..Len(sent) : IsLast(l)' <=> IsLast(l)
      /\ done \subseteq 1..Len(sent)
  BY StillOrdered DEF Write, MirrorInv, Types
<1>1. /\ \A v \in Handlers \ {w} : work'[v] = work[v]
      /\ work'[w] = Resting /\ work[w] # Resting /\ work[w].pc = "write"
  BY DEF MirrorInv, Types, Write, Resting
<1>2. n \in 1..Len(sent) /\ WorkFor(w) /\ sent[n] \in Event
  <2>1. n \in 1..Len(sent) /\ WorkFor(w)
    BY DEF MirrorInv, WorkOK, WorkFor, Write
  <2> QED BY <2>1, EventTimes DEF MirrorInv, Types
<1>3. Disputed'
  <2>1. sent[n].kind = "open" => suspended'
    BY DEF Write
  <2>2. suspended => suspended' \/ sent[n].kind = "won"
    BY <1>2 DEF Write, Event
  <2>3. sent[n].kind = "won" => dispute = "won"
    BY <1>2 DEF Settled, Disputed
  <2> QED BY <1>0, <2>1, <2>2, <2>3 DEF Settled, Disputed
<1>4. Alone'
  BY <1>0, <1>1 DEF Settled, Alone
<1>5. Entitled'
  <2> SUFFICES ASSUME ~overlapped, dispute = "none", NEW l \in done', IsLast(l)
               PROVE  /\ entitlement' = decideEntitlement(status)
                      /\ \A v \in Handlers : work'[v].pc # "write"
    BY <1>0, <1>2 DEF Entitled, decideEntitlement
  <2>1. \A v \in Handlers : work'[v].pc # "write"
    BY <1>1 DEF Settled, Alone, Resting
  <2>2. sent[n].kind \in {"subscription", "completed"} /\ work[w].seen # Null
    BY <1>1, <1>2, Undisputed DEF MirrorInv, Settled, WorkFor
  <2>3. work[w].seen = status
    BY <1>0, <1>1, <1>2, <2>2 DEF Settled, Entitled, WorkFor
  <2>4. entitlement' = decideEntitlement(work[w].seen)
    BY <2>2 DEF Write, WritePair
  <2> QED BY <2>1, <2>3, <2>4
<1> QED BY <1>3, <1>4, <1>5 DEF Settled

\* A handler that is lost, or time that passes, changes nothing that is stored.
LEMMA OtherSettled ==
  ASSUME MirrorInv, Settled,
         NextSecond \/ UNCHANGED mirrorVars \/ \E w \in Handlers : Lose(w)
  PROVE  Settled'
<1>0. /\ UNCHANGED <<status, dispute, sent, done, skipped, row, entitlement, suspended,
                  overlapped>>
      /\ \A l \in 1..Len(sent) : IsLast(l)' <=> IsLast(l)
      /\ done \subseteq 1..Len(sent)
  BY DEF NextSecond, Lose, mirrorVars, IsLast, MirrorInv, Types, settled, stored
<1>1. \A v \in Handlers : work'[v] = work[v] \/ work'[v] = Resting
  BY DEF NextSecond, Lose, mirrorVars, MirrorInv, Types
<1>2. Disputed'
  BY <1>0 DEF Settled, Disputed
<1>3. Alone'
  BY <1>0, <1>1 DEF Settled, Alone
<1>4. Entitled'
  BY <1>0, <1>1 DEF Settled, Entitled, Resting, Mapped
<1> QED BY <1>2, <1>3, <1>4 DEF Settled

\* The strengthened invariant holds of the mirror.
LEMMA SettledHolds == MirrorSpec => []Settled
<1>1. MirrorInit => Settled
  <2> SUFFICES ASSUME MirrorInit PROVE Settled
    OBVIOUS
  <2>1. /\ sent = <<[kind |-> "subscription", at |-> 0], [kind |-> "completed", at |-> second]>>
        /\ Len(sent) = 2 /\ done = {}
        /\ sent[1].kind = "subscription" /\ sent[2].kind = "completed"
    BY DEF MirrorInit
  <2> QED BY <2>1 DEF MirrorInit, Settled, Disputed, Alone, Entitled
<1>2. MirrorInv /\ Settled /\ [MirrorNext]_mirrorVars => Settled'
  <2> SUFFICES ASSUME MirrorInv, Settled, [MirrorNext]_mirrorVars PROVE Settled'
    OBVIOUS
  <2>1. ASSUME NEW w \in Handlers, NEW n \in 1..MaxEvents, Start(w, n) PROVE Settled'
    BY <2>1, StartSettled
  <2>2. ASSUME NEW w \in Handlers, Resolve(w) \/ Unresolved(w) \/ Read(w) \/ Write(w)
        PROVE  Settled'
    BY <2>2, ResolveSettled, UnresolvedSettled, ReadSettled, WriteSettled
  <2> QED BY <2>1, <2>2, StripeSettled, OtherSettled DEF MirrorNext
<1> QED BY <1>1, <1>2, InvHolds, PTL DEF MirrorSpec

\* A site whose charge is disputed, or was lost, comes to rest suspended: only a
\* won dispute's handler lifts the suspension, and no retry, however late, of any
\* other event does (risk.ts, subscription.ts, invoice.ts); unless the dispute's event
\* was skipped for want of the customer row (context.ts).
THEOREM DisputeSuspendsCorrect == MirrorSpec => []DisputeSuspends
<1>1. MirrorInv /\ Settled => DisputeSuspends
  <2> SUFFICES ASSUME MirrorInv, Settled, Quiet, dispute \in {"open", "lost"},
                      \A n \in skipped : sent[n].kind # "open"
               PROVE  suspended
    BY DEF DisputeSuspends
  <2>1. done = 1..Len(sent)
    BY DEF Quiet, MirrorInv, Types
  <2> QED BY <2>1 DEF Settled, Disputed
<1> QED BY <1>1, InvHolds, SettledHolds, PTL

\* Handlers that never overlapped leave the entitlement the subscription implies,
\* in whatever order the events were delivered: the unguarded write of the pair is
\* then as good as the guarded one of the row (entitlement.ts).
THEOREM EntitlementConvergesCorrect == MirrorSpec => []EntitlementConverges
<1>1. MirrorInv /\ Settled => EntitlementConverges
  <2> SUFFICES ASSUME MirrorInv, Settled, Quiet, ~overlapped, dispute = "none"
               PROVE  entitlement = decideEntitlement(status)
    BY DEF EntitlementConverges
  <2>1. PICK l \in 1..Len(sent) : IsLast(l)
    BY DEF MirrorInv, Ordered
  <2>2. done = 1..Len(sent)
    BY DEF Quiet, MirrorInv, Types
  <2>3. Mapped
    BY <2>2 DEF MirrorInv, MappedOK
  <2> QED BY <2>1, <2>2, <2>3 DEF Settled, Entitled
<1> QED BY <1>1, InvHolds, SettledHolds, PTL

=============================================================================

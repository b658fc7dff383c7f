------------------------------- MODULE Budget -------------------------------
(***************************************************************************)
(* BudgetDO (apps/generator/src/do/BudgetDO.ts): the one object that       *)
(* counts money.  A reservation charges its estimate to the UTC day it is  *)
(* opened on; a settle replaces the estimate by the actual cost on that    *)
(* same day; an alarm force-settles, at estimate, what was never settled.  *)
(*                                                                         *)
(* A Durable Object runs one request at a time, so each handler is one     *)
(* action.  The exception is the await inside armAlarm(): the handler's    *)
(* SQL writes are durable by then, the new alarm is not, and an isolate    *)
(* evicted there leaves the object "torn".  Every handler therefore ends   *)
(* in either Arm or Cut.                                                   *)
(*                                                                         *)
(* Abstracted: micro-USD and milliseconds are small naturals, a UTC day is *)
(* what the calendar DayOf maps an instant to, and the wire responses      *)
(* (respond, budgetMode) are left out: they change no state.               *)
(***************************************************************************)
EXTENDS Integers, FiniteSets, Functions

CONSTANTS
  Jobs,          \* job ids callers reserve for
  Ids,           \* reservation ids crypto.randomUUID() may mint
  Estimates,     \* estimateMicro values callers send
  Actuals,       \* actualMicro values callers send
  SpendCap,      \* DAILY_SPEND_CAP_MICRO
  GenerationCap, \* DAILY_GENERATION_CAP
  TTL,           \* RESERVATION_TTL_MS, in ticks
  Retention,     \* DAY_RETENTION, in days
  MaxNow,        \* bound: the clock stops here, reservations at MaxNow - TTL
  DayOf,         \* the calendar: the UTC day of every instant
  Null           \* SQL NULL, an absent row, getAlarm() = null

Days == {DayOf[t] : t \in 0..MaxNow}

\* One row of the reservations table; it is open while settled is Null.
Reservation == [job: Jobs, estimate: Nat, settled: Nat \cup {Null},
                forced: BOOLEAN, day: Days, expires: Nat]

ASSUME AmountsAssumption == Estimates \subseteq Nat /\ Actuals \subseteq Nat
ASSUME CapAssumption == SpendCap \in Nat /\ GenerationCap \in Nat
ASSUME ClockAssumption ==
  /\ TTL \in Nat \ {0} /\ Retention \in Nat /\ MaxNow \in Nat
  /\ DayOf \in [0..MaxNow -> Nat]
  /\ \A t, u \in 0..MaxNow : t <= u => DayOf[t] <= DayOf[u]
ASSUME NullAssumption == Null \notin Nat /\ Null \notin Reservation

VARIABLES
  now,   \* Date.now()
  spent, \* days.spent_micro per day; a missing row reads as 0
  gens,  \* days.generations per day; likewise
  row,   \* the reservations table; Null where the id names no row
  alarm, \* the object's single alarm
  torn   \* an eviction cut the latest handler at armAlarm()

vars == <<now, spent, gens, row, alarm, torn>>

Rows == {i \in Ids : row[i] # Null}
Open == {i \in Rows : row[i].settled = Null}
Today == DayOf[now]
Cutoff == Today - Retention

AtLeastZero(n) == IF n > 0 THEN n ELSE 0

----------------------------------------------------------------------------
\* armAlarm() over the table a handler leaves: the alarm may only move earlier,
\* unless nothing is open.
Deadlines(table) ==
  {table[i].expires : i \in {k \in Ids : table[k] # Null /\ table[k].settled = Null}}

\* Mutant: the alarm is set for the last deadline.
ArmLast(current) ==
  /\ \/ Deadlines(row') = {} /\ alarm' = Null
     \/ \E at \in Deadlines(row') :
          /\ \A d \in Deadlines(row') : at >= d
          /\ alarm' = IF current = Null \/ current > at THEN at ELSE current
  /\ torn' = FALSE

Arm(current) ==
  /\ \/ Deadlines(row') = {} /\ alarm' = Null
     \/ \E at \in Deadlines(row') :
          /\ \A d \in Deadlines(row') : at <= d
          /\ alarm' = IF current = Null \/ current > at THEN at ELSE current
  /\ torn' = FALSE

\* The isolate is evicted at armAlarm()'s first await.
Cut ==
  /\ alarm' = alarm
  /\ torn' = TRUE

----------------------------------------------------------------------------
HasOpen(j) == \E i \in Open : row[i].job = j

\* reserve(): the job already has an open reservation.
ReserveAgain(j) ==
  /\ HasOpen(j)
  /\ UNCHANGED <<now, spent, gens, row>>
  /\ Arm(alarm)

\* Mutant: the spend ceiling is compared before what is asked for is added.
FitsAnySize(e) == spent[Today] <= SpendCap /\ gens[Today] + 1 <= GenerationCap

Fits(e) == spent[Today] + e <= SpendCap /\ gens[Today] + 1 <= GenerationCap

ReserveRefused(j, e) ==
  /\ ~ HasOpen(j)
  /\ ~ Fits(e)
  /\ UNCHANGED <<now, spent, gens, row>>
  /\ Arm(alarm)

\* The accepted reserve, with the pruneDays() that ends it.
ReserveNew(j, e, i) ==
  /\ ~ HasOpen(j)
  /\ Fits(e)
  /\ i \notin Rows
  /\ now + TTL <= MaxNow
  /\ row' = [k \in Ids |->
       CASE k = i -> [job |-> j, estimate |-> e, settled |-> Null, forced |-> FALSE,
                      day |-> Today, expires |-> now + TTL]
         [] k \in Rows \ Open /\ row[k].day < Cutoff -> Null
         [] OTHER -> row[k]]
  /\ spent' = [d \in Days |-> CASE d = Today -> spent[d] + e
                                [] d < Cutoff -> 0
                                [] OTHER -> spent[d]]
  /\ gens' = [d \in Days |-> CASE d = Today -> gens[d] + 1
                               [] d < Cutoff -> 0
                               [] OTHER -> gens[d]]
  /\ UNCHANGED now
  /\ Arm(alarm) \/ Cut

\* Mutant: a settle moves the counters of the day it happens on.
SettledToday(i) == Today

SettledDay(i) == row[i].day

\* settle(), by reservation id or by job id: both name the same open row.  Every
\* caller counts the generation exactly when it spent something.
Settle(i, a) ==
  /\ i \in Open
  /\ LET d == SettledDay(i) IN
       /\ spent' = [spent EXCEPT ![d] = AtLeastZero(@ - row[i].estimate + a)]
       /\ gens' = [gens EXCEPT ![d] = IF a > 0 THEN @ ELSE AtLeastZero(@ - 1)]
  /\ row' = [row EXCEPT ![i].settled = a]
  /\ UNCHANGED now
  /\ Arm(alarm) \/ Cut

\* settle() of a reservation that is closed or was never opened.
SettleMiss ==
  /\ UNCHANGED <<now, spent, gens, row>>
  /\ Arm(alarm)

\* forceSettleExpired(): the estimate stays charged, the generation counted.
ForceSettled(table) ==
  [i \in Ids |->
     IF table[i] # Null /\ table[i].settled = Null /\ table[i].expires <= now
     THEN [table[i] EXCEPT !.settled = table[i].estimate, !.forced = TRUE]
     ELSE table[i]]

\* Mutant: the handler does not set the next alarm.
AlarmOnce ==
  /\ alarm # Null /\ alarm <= now
  /\ row' = ForceSettled(row)
  /\ UNCHANGED <<now, spent, gens>>
  /\ alarm' = Null /\ torn' = FALSE

\* alarm(): the platform clears the alarm before it runs the handler.
Alarm ==
  /\ alarm # Null /\ alarm <= now
  /\ row' = ForceSettled(row)
  /\ UNCHANGED <<now, spent, gens>>
  /\ Arm(Null)

\* An alarm handler that dies is delivered again.
AlarmCut ==
  /\ alarm # Null /\ alarm <= now
  /\ row' = ForceSettled(row)
  /\ UNCHANGED <<now, spent, gens>>
  /\ Cut

Tick ==
  /\ now < MaxNow
  /\ now' = now + 1
  /\ UNCHANGED <<spent, gens, row, alarm, torn>>

Init ==
  /\ now = 0
  /\ spent = [d \in Days |-> 0]
  /\ gens = [d \in Days |-> 0]
  /\ row = [i \in Ids |-> Null]
  /\ alarm = Null
  /\ torn = FALSE

Next ==
  \/ \E j \in Jobs : ReserveAgain(j)
  \/ \E j \in Jobs, e \in Estimates : ReserveRefused(j, e)
  \/ \E j \in Jobs, e \in Estimates, i \in Ids : ReserveNew(j, e, i)
  \/ \E i \in Ids, a \in Actuals : Settle(i, a)
  \/ SettleMiss
  \/ Alarm
  \/ AlarmCut
  \/ Tick

Spec == Init /\ [][Next]_vars

\* Time passes, and the platform delivers a due alarm until a run completes.
Fairness == WF_vars(Tick) /\ WF_vars(Alarm)

FairSpec == Spec /\ Fairness

----------------------------------------------------------------------------
TypeOK ==
  /\ now \in 0..MaxNow
  /\ spent \in [Days -> Nat]
  /\ gens \in [Days -> Nat]
  /\ row \in [Ids -> Reservation \cup {Null}]
  /\ alarm \in Nat \cup {Null}
  /\ torn \in BOOLEAN

\* What a row still charges to its day.
Charge(r) == IF r.settled = Null THEN r.estimate ELSE r.settled
Overrun(r) == IF r.settled = Null THEN 0 ELSE AtLeastZero(r.settled - r.estimate)
HoldsSlot(r) == r.settled = Null \/ r.forced \/ r.settled > 0

RowsOn(d) == {i \in Rows : row[i].day = d}
Retained == {d \in Days : d >= Cutoff}

\* Replayed dispatches never open a second reservation for a job
\* (uq_reservations_open_job is never hit).
OneOpenPerJob ==
  \A i, k \in Open : row[i].job = row[k].job => i = k

\* The day's counters are exactly the sum of the reservations opened on that
\* day, whatever order settles, forced settles, midnights and prunes came in.
DayAccountsForReservations ==
  \A d \in Retained :
    /\ spent[d] = SumFunction([i \in RowsOn(d) |-> Charge(row[i])])
    /\ gens[d] = Cardinality({i \in RowsOn(d) : HoldsSlot(row[i])})

\* The volume ceiling is never passed.
VolumeWithinCap == \A d \in Days : gens[d] <= GenerationCap

\* The spend ceiling is passed only by runs that cost more than their estimate.
OverspendIsOverrun ==
  \A d \in Retained :
    spent[d] <= SpendCap + SumFunction([i \in RowsOn(d) |-> Overrun(row[i])])

\* Every open reservation has an alarm at or before its deadline, unless the
\* latest handler was cut before it could set one.
AlarmCoversOpen ==
  ~torn => \A i \in Open : alarm # Null /\ alarm <= row[i].expires

\* A settled reservation is never settled again (no double refund), and an open
\* one is never deleted by the prune.
SettledIsFinal ==
  [][\A i \in Rows :
       /\ row[i].settled # Null => row'[i] \in {row[i], Null}
       /\ row[i].settled = Null => row'[i] # Null]_vars

\* A settle after midnight moves the day its reservation was opened on, and
\* never today's counter.
SettleMovesOpeningDay ==
  [][\A i \in Open : row'[i] # Null /\ row'[i].settled # Null =>
       \A d \in Days \ {row[i].day} : spent'[d] = spent[d] /\ gens'[d] = gens[d]]_vars

\* Unless evictions never stop cutting handlers, no reservation holds its
\* estimate for ever.
ReservationsSettle ==
  []<>(~torn) => \A i \in Ids : (i \in Open) ~> (i \notin Open)
=============================================================================

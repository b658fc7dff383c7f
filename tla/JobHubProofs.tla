---------------------------- MODULE JobHubProofs ----------------------------
(***************************************************************************)
(* Theorems about JobHub: the rail advances, the mirror is never           *)
(* forgotten, the purge loses nothing, and the overlapping drains of a     *)
(* subscriber hand its modal every event in order.                         *)
(***************************************************************************)
EXTENDS JobHub, SequenceTheorems, TLAPS

HubType ==
  /\ next \in 1..(Labels + 1) /\ flying \in Nat
  /\ log \in Seq(0..Labels)
  /\ mirrored \in 0..Len(log)
  /\ flush = Null \/ flush \in mirrored..Len(log)
  /\ alarm \in {Null, "soon", "keep"}
  /\ expires \in {"unset", "set", "passed"}

\* Nothing in the log is ahead of the Workflow.
RailOK == RailAdvances /\ \A i \in 1..Len(log) : log[i] <= next

\* A batch at the shard is full, or ends the log, or an alarm will bring the rest.
FlushOK ==
  flush # Null => \/ alarm # Null \/ torn
                  \/ flush - mirrored = Batch \/ flush = Len(log)

\* A finished log sleeps until its day is over, and wakes when nothing can be
\* appended any more.
KeepOK ==
  /\ expires = "set" => alarm = "keep" /\ flush = Null
  /\ expires = "passed" => next > Labels /\ flying = 0
  /\ expires = "passed" /\ flush # Null =>
       flush - mirrored = Batch \/ flush = Len(log)

MirrorOK == UnmirroredHasAlarm /\ FlushOK /\ KeepOK

Inv == HubType /\ RailOK /\ MirrorOK

\* What an append makes of the log.
LEMMA AppendedLog ==
  ASSUME HubType, NEW k \in 0..Labels
  PROVE  /\ Appended(k) \in Seq(0..Labels)
         /\ Len(log) <= Len(Appended(k))
         /\ Appended(k) = log \/ Appended(k) = Append(log, k)
<1>1. log \in Seq(0..Labels)
  BY DEF HubType
<1>2. Append(log, k) \in Seq(0..Labels) /\ Len(Append(log, k)) = Len(log) + 1 /\ Len(log) \in Nat
  BY <1>1
<1>3. Appended(k) = log \/ Appended(k) = Append(log, k)
  BY DEF Appended
<1>4. CASE Appended(k) = log
  BY <1>1, <1>2, <1>4
<1>5. CASE Appended(k) = Append(log, k)
  BY <1>2, <1>5
<1> QED BY <1>3, <1>4, <1>5

\* A keyed append is new only when its label is: what is there is behind it.
LEMMA AppendedRail ==
  ASSUME HubType, RailOK, NEW k \in {0, next}, k \in 0..Labels
  PROVE  /\ \A i \in 1..Len(Appended(k)) : Appended(k)[i] <= next
         /\ \A i, j \in 1..Len(Appended(k)) :
              i < j /\ Appended(k)[i] # 0 /\ Appended(k)[j] # 0
                => Appended(k)[i] < Appended(k)[j]
<1>1. CASE Appended(k) = log
  BY <1>1 DEF RailOK, RailAdvances
<1>2. CASE Appended(k) = Append(log, k) /\ Appended(k) # log
  <2>1. k = 0 \/ \A i \in 1..Len(log) : log[i] # k
    BY <1>2 DEF Appended, Contains
  <2>2. /\ Len(Append(log, k)) = Len(log) + 1
        /\ \A i \in 1..Len(log) : Append(log, k)[i] = log[i]
        /\ Append(log, k)[Len(log) + 1] = k
    BY DEF HubType
  <2>3. \A i \in 1..Len(log) : log[i] \in 0..Labels /\ log[i] <= next /\ (k # 0 => log[i] < next)
    <3>1. \A i \in 1..Len(log) : log[i] \in 0..Labels
      <4>1. log \in Seq(0..Labels)
        BY DEF HubType
      <4> QED BY <4>1, ElementOfSeq
    <3>2. \A i \in 1..Len(log) : log[i] <= next
      BY DEF RailOK
    <3>3. next \in Nat
      BY LabelsAssumption DEF HubType
    <3>4. k # 0 => \A i \in 1..Len(log) : log[i] # next
      BY <2>1
    <3> QED BY <3>1, <3>2, <3>3, <3>4, LabelsAssumption
  <2>4. \A i \in 1..(Len(log) + 1) : i \in 1..Len(log) \/ i = Len(log) + 1
    BY DEF HubType
  <2>5. \A i \in 1..(Len(log) + 1) : Append(log, k)[i] <= next
    BY <2>2, <2>3, <2>4 DEF HubType
  <2>6. ASSUME NEW i \in 1..(Len(log) + 1), NEW j \in 1..(Len(log) + 1), i < j,
               Append(log, k)[i] # 0, Append(log, k)[j] # 0
        PROVE  Append(log, k)[i] < Append(log, k)[j]
    <3>1. i \in 1..Len(log) /\ Append(log, k)[i] = log[i]
      BY <2>2, <2>6 DEF HubType
    <3>2. CASE j \in 1..Len(log)
      BY <3>1, <3>2, <2>2, <2>6 DEF RailOK, RailAdvances
    <3>3. CASE j = Len(log) + 1
      BY <3>1, <3>3, <2>2, <2>3, <2>6
    <3> QED BY <2>4, <3>2, <3>3
  <2> QED BY <1>2, <2>2, <2>5, <2>6
<1> QED BY <1>1, <1>2, AppendedLog

\* The empty log satisfies the invariant.
LEMMA InitInv == Init => Inv
<1> SUFFICES ASSUME Init PROVE Inv
  OBVIOUS
<1>1. Len(log) = 0 /\ log \in Seq(0..Labels)
  BY DEF Init
<1>2. HubType
  BY <1>1, LabelsAssumption DEF Init, HubType
<1> QED BY <1>1, <1>2, HubNull
    DEF Init, Inv, RailOK, RailAdvances, MirrorOK, UnmirroredHasAlarm, FlushOK, KeepOK

\* An append that reaches its alarm.
LEMMA ReceiveInv ==
  ASSUME Inv, NEW k \in {0, next}, k \in 0..Labels, Receive(k),
         next' \in {next, next + 1}, next' \in 1..(Labels + 1), flying' \in Nat,
         expires # "passed"
  PROVE  Inv'
<1>1. /\ log' = Appended(k)
      /\ alarm' \in {"soon", "keep"} /\ (alarm # Null => alarm' = alarm)
      /\ UNCHANGED <<mirrored, flush, expires>>
  BY DEF Receive, Inv, HubType
<1>2. HubType'
  BY <1>1, AppendedLog DEF Inv, HubType
<1>3. RailOK'
  <2>1. \A i \in 1..Len(log') : log'[i] <= next
    BY <1>1, AppendedRail DEF Inv
  <2>2. \A i \in 1..Len(log') : log'[i] <= next'
    <3>1. \A i \in 1..Len(log') : log'[i] \in Nat
      BY <1>2, LabelsAssumption DEF HubType
    <3>2. next \in Nat /\ next' >= next /\ next' \in Nat
      BY LabelsAssumption DEF Inv, HubType
    <3> QED BY <2>1, <3>1, <3>2
  <2>3. RailAdvances'
    BY <1>1, AppendedRail DEF Inv, RailAdvances
  <2> QED BY <2>2, <2>3 DEF RailOK
<1>4. MirrorOK'
  BY <1>1, HubNull DEF Inv, MirrorOK, UnmirroredHasAlarm, FlushOK, KeepOK, HubType
<1> QED BY <1>2, <1>3, <1>4 DEF Inv

\* An eviction, with or without the append it cut.
LEMMA EvictedInv ==
  ASSUME Inv, NEW k \in {0, next}, k \in 0..Labels, NEW rows, Evicted(rows),
         \/ rows = log /\ next' = next /\ torn' = torn
         \/ /\ rows = Appended(k) /\ next <= Labels /\ next' = next + 1
            /\ alarm = Null /\ torn' = (flush = Null),
         UNCHANGED <<mirrored, expires, flying>>
  PROVE  Inv'
<1>1. /\ log' = rows /\ flush' = Null
      /\ alarm' = IF flush = Null THEN alarm ELSE "soon"
  BY DEF Evicted
<1>2. log' \in Seq(0..Labels) /\ Len(log) \in Nat /\ Len(log') \in Nat /\ Len(log) <= Len(log')
  <2>1. log \in Seq(0..Labels)
    BY DEF Inv, HubType
  <2> QED BY <1>1, <2>1, AppendedLog DEF Inv
<1>3. HubType'
  BY <1>1, <1>2, LabelsAssumption DEF Inv, HubType
<1>4. RailOK'
  <2>1. \A i \in 1..Len(log') : log'[i] <= next
    BY <1>1, AppendedRail DEF Inv, RailOK
  <2>2. \A i \in 1..Len(log') : log'[i] <= next'
    <3>1. \A i \in 1..Len(log') : log'[i] \in Nat
      BY <1>2, ElementOfSeq, LabelsAssumption
    <3>2. next \in Nat /\ next' >= next /\ next' \in Nat
      BY LabelsAssumption DEF Inv, HubType
    <3> QED BY <2>1, <3>1, <3>2
  <2>3. RailAdvances'
    BY <1>1, AppendedRail DEF Inv, RailOK, RailAdvances
  <2> QED BY <2>2, <2>3 DEF RailOK
<1>5. MirrorOK'
  <2>1. UnmirroredHasAlarm' /\ FlushOK'
    BY <1>1, HubNull DEF Inv, MirrorOK, UnmirroredHasAlarm, FlushOK
  <2>2. KeepOK'
    <3>1. expires' = "set" => alarm' = "keep" /\ flush' = Null
      BY <1>1 DEF Inv, MirrorOK, KeepOK
    <3>2. expires = "passed" => next > Labels /\ flying = 0
      BY DEF Inv, MirrorOK, KeepOK
    <3>3. expires = "passed" => ~ (next <= Labels)
      BY <3>2, LabelsAssumption DEF Inv, HubType
    <3>4. expires' = "passed" => next' > Labels /\ flying' = 0
      BY <3>2, <3>3
    <3> QED BY <1>1, <3>1, <3>4 DEF KeepOK
  <2> QED BY <2>1, <2>2 DEF MirrorOK
<1> QED BY <1>3, <1>4, <1>5 DEF Inv

\* A batch comes back from the shard, or does not.
LEMMA BatchInv ==
  ASSUME Inv, NEW outcome \in {"done", "more", "failed"}, Conclude(outcome),
         flush # Null, flush' = Null,
         outcome = "done" => flush - mirrored # Batch,
         mirrored' = IF log' = <<>> THEN 0 ELSE IF outcome = "failed" THEN mirrored ELSE flush,
         UNCHANGED <<next, flying, torn>>
  PROVE  Inv' /\ (log' # log => log' = <<>> /\ flush = Len(log))
<1> DEFINE kept == log' = log
           gone == log' = <<>> /\ expires = "passed" /\ outcome = "done"
<1>1. kept \/ gone
  BY DEF Conclude
<1>2. flush \in mirrored..Len(log) /\ mirrored \in 0..Len(log) /\ Len(log) \in Nat
  BY DEF Inv, HubType
<1>3. gone => flush = Len(log)
  BY DEF Inv, MirrorOK, KeepOK
<1>4. alarm' \in {Null, "soon", "keep"} /\ expires' \in {"unset", "set", "passed"}
  BY DEF Conclude, Inv, HubType
<1>5. HubType'
  <2>1. log' \in Seq(0..Labels)
    <3>1. log \in Seq(0..Labels) /\ <<>> \in Seq(0..Labels)
      BY EmptySeq DEF Inv, HubType
    <3> QED BY <1>1, <3>1
  <2>2. mirrored' \in 0..Len(log')
    <3>1. CASE log' = <<>>
      BY <3>1
    <3>2. CASE log' # <<>>
      BY <3>2, <1>1, <1>2
    <3> QED BY <3>1, <3>2
  <2> QED BY <1>4, <2>1, <2>2 DEF Inv, HubType
<1>6. RailOK'
  BY <1>1 DEF Inv, RailOK, RailAdvances
<1>7. MirrorOK'
  <2>1. FlushOK'
    BY DEF FlushOK
  <2>2. KeepOK'
    <3>1. expires # "set"
      BY DEF Inv, MirrorOK, KeepOK
    <3>2. expires' = "set" => alarm' = "keep"
      BY <3>1 DEF Conclude
    <3>3. expires' = "passed" => expires = "passed"
      BY DEF Conclude
    <3> QED BY <3>2, <3>3 DEF Inv, MirrorOK, KeepOK
  <2>3. UnmirroredHasAlarm'
    <3>1. CASE outcome # "done"
      BY <3>1, HubNull DEF Conclude, UnmirroredHasAlarm
    <3>2. CASE outcome = "done" /\ ~ terminal
      <4>1. alarm' = alarm /\ log' = log
        BY <3>2 DEF Conclude
      <4>2. mirrored' = Len(log') \/ alarm # Null \/ torn
        <5>1. CASE flush = Len(log)
          BY <3>2, <4>1, <5>1
        <5>2. CASE flush # Len(log)
          BY <3>2, <5>2 DEF Inv, MirrorOK, FlushOK
        <5> QED BY <5>1, <5>2
      <4> QED BY <4>1, <4>2 DEF UnmirroredHasAlarm
    <3>3. CASE outcome = "done" /\ terminal /\ expires # "passed"
      BY <3>3, HubNull DEF Conclude, UnmirroredHasAlarm
    <3>4. CASE outcome = "done" /\ terminal /\ expires = "passed"
      BY <3>4 DEF Conclude, UnmirroredHasAlarm
    <3> QED BY <3>1, <3>2, <3>3, <3>4
  <2> QED BY <2>1, <2>2, <2>3 DEF MirrorOK
<1>8. log' # log => log' = <<>> /\ flush = Len(log)
  BY <1>1, <1>3
<1> QED BY <1>5, <1>6, <1>7, <1>8 DEF Inv

\* The steps that leave log, mirror and alarm alone.
LEMMA ApartInv ==
  ASSUME Inv, UNCHANGED <<next, log, mirrored, flush, alarm, torn>>,
         flying' \in Nat, expires = "passed" => flying' = flying,
         \/ expires' = expires
         \/ expires = "set" /\ expires' = "passed" /\ next > Labels /\ flying' = 0
  PROVE  Inv'
<1>1. HubType'
  BY DEF Inv, HubType
<1>2. RailOK'
  BY DEF Inv, RailOK, RailAdvances
<1>3. MirrorOK'
  BY DEF Inv, MirrorOK, UnmirroredHasAlarm, FlushOK, KeepOK
<1> QED BY <1>1, <1>2, <1>3 DEF Inv

\* A flush takes the alarm and reads a batch that FlushOK describes.
LEMMA MirrorInv == ASSUME Inv, Mirror PROVE Inv'
<1>1. /\ UNCHANGED <<next, flying, log, mirrored, expires, torn>>
      /\ flush = Null /\ alarm # Null /\ alarm' = Null
      /\ alarm = "soon" \/ expires = "passed"
      /\ flush' = IF mirrored + Batch < Len(log) THEN mirrored + Batch ELSE Len(log)
  BY HubNull DEF Mirror, run
<1>2. Len(log) \in Nat /\ mirrored \in 0..Len(log) /\ Batch \in Nat
  BY LabelsAssumption DEF Inv, HubType
<1>3. flush' \in mirrored..Len(log) /\ (flush' - mirrored = Batch \/ flush' = Len(log))
  BY <1>1, <1>2
<1>4. HubType'
  BY <1>1, <1>3 DEF Inv, HubType
<1>5. RailOK'
  BY <1>1 DEF Inv, RailOK, RailAdvances
<1>6. MirrorOK'
  <2>1. flush' # Null
    BY <1>2, <1>3, HubNull
  <2>2. expires # "set"
    BY <1>1 DEF Inv, MirrorOK, KeepOK
  <2>3. KeepOK'
    BY <1>1, <1>3, <2>2 DEF Inv, MirrorOK, KeepOK
  <2> QED BY <1>1, <1>3, <2>1, <2>3 DEF MirrorOK, UnmirroredHasAlarm, FlushOK
<1> QED BY <1>4, <1>5, <1>6 DEF Inv

\* The invariant is inductive, and a purge is of a log the shard has.
LEMMA NextInv ==
  ASSUME Inv, [Next]_vars
  PROVE  Inv' /\ (log # <<>> /\ log' = <<>> => flush = Len(log))
<1> USE LabelsAssumption
<1>0. next \in 1..(Labels + 1) /\ flying \in Nat
  BY DEF Inv, HubType
<1>1. ASSUME NEW k \in {0, next}, k \in 0..Labels, Receive(k), Inv'
      PROVE  Inv' /\ (log # <<>> /\ log' = <<>> => flush = Len(log))
  <2>1. log \in Seq(0..Labels) /\ log' \in Seq(0..Labels) /\ Len(log) <= Len(log')
    BY <1>1, AppendedLog DEF Receive, Inv, HubType
  <2>2. log # <<>> => log' # <<>>
    BY <2>1
  <2> QED BY <1>1, <2>2
<1>2. ASSUME Inv', log' = log
      PROVE  Inv' /\ (log # <<>> /\ log' = <<>> => flush = Len(log))
  BY <1>2
<1>3. CASE Emit
  <2>1. next \in 0..Labels /\ next \in {0, next} /\ next' \in {next, next + 1} /\ next' \in 1..(Labels + 1)
        /\ flying' = flying
    BY <1>0, <1>3 DEF Emit, Proceed
  <2>2. expires # "passed"
    BY <2>1 DEF Inv, MirrorOK, KeepOK
  <2>3. CASE Receive(next)
    <3>1. Inv'
      BY <1>0, <2>1, <2>2, <2>3, ReceiveInv
    <3> QED BY <1>1, <2>1, <2>3, <3>1
  <2>4. CASE UNCHANGED hub
    <3>1. UNCHANGED <<log, mirrored, flush, alarm, torn, expires>>
      BY <2>4 DEF hub
    <3>2. Inv'
      <4>1. HubType'
        BY <2>1, <3>1, <1>0 DEF Inv, HubType
      <4>2. RailOK'
        <5>1. \A i \in 1..Len(log) : log[i] \in Nat
          BY ElementOfSeq DEF Inv, HubType
        <5> QED BY <1>0, <2>1, <3>1, <5>1 DEF Inv, RailOK, RailAdvances
      <4>3. MirrorOK'
        BY <2>2, <3>1 DEF Inv, MirrorOK, UnmirroredHasAlarm, FlushOK, KeepOK
      <4> QED BY <4>1, <4>2, <4>3 DEF Inv
    <3> QED BY <1>2, <3>1, <3>2
  <2> QED BY <1>3, <2>3, <2>4 DEF Emit
<1>4. CASE EmitCut
  <2>1. /\ next \in 0..Labels /\ next \in {0, next} /\ next <= Labels /\ next' = next + 1
        /\ alarm = Null /\ torn' = (flush = Null) /\ Evicted(Appended(next))
        /\ UNCHANGED <<mirrored, expires, flying>>
    BY <1>0, <1>4 DEF EmitCut
  <2>2. Inv'
    BY <2>1, EvictedInv
  <2>3. log' = Appended(next)
    BY <2>1 DEF Evicted
  <2>4. log \in Seq(0..Labels) /\ log' \in Seq(0..Labels) /\ Len(log) <= Len(log')
    BY <2>1, <2>3, AppendedLog DEF Inv, HubType
  <2>5. log # <<>> => log' # <<>>
    BY <2>4
  <2> QED BY <2>2, <2>5
<1>5. CASE Delta
  <2>1. /\ UNCHANGED <<next, log, mirrored, flush, alarm, torn, expires>>
        /\ flying' = flying + 1 /\ next <= Labels
    BY <1>0, <1>5 DEF Delta, hub
  <2>2. expires # "passed"
    BY <1>0, <2>1 DEF Inv, MirrorOK, KeepOK
  <2>3. Inv'
    BY <1>0, <2>1, <2>2, ApartInv
  <2> QED BY <1>2, <2>1, <2>3
<1>6. CASE Land
  <2>1. 0 \in {0, next} /\ 0 \in 0..Labels /\ Receive(0) /\ next' = next /\ flying' = flying - 1
        /\ flying > 0
    BY <1>6 DEF Land
  <2>2. expires # "passed"
    BY <2>1, <1>0 DEF Inv, MirrorOK, KeepOK
  <2>3. Inv'
    BY <1>0, <2>1, <2>2, ReceiveInv
  <2> QED BY <1>1, <2>1, <2>3
<1>7. CASE CloseSubscribers \/ (\E v \in Viewers : Viewer(v)) \/ UNCHANGED vars
  <2>1. UNCHANGED <<next, flying, log, mirrored, flush, alarm, torn, expires>>
    BY <1>7 DEF CloseSubscribers, Viewer, Open, Take, EndOfStream, Break, Refuse, Poll,
                store, run, hub, vars
  <2>2. Inv'
    BY <1>0, <2>1, ApartInv
  <2> QED BY <1>2, <2>1, <2>2
<1>8. CASE Mirror
  <2>1. Inv' /\ log' = log
    BY <1>8, MirrorInv DEF Mirror
  <2> QED BY <1>2, <2>1
<1>9. CASE Mirrored
  <2>1. AfterBatch(flush - mirrored) \in {"done", "more", "failed"}
        /\ AfterBatch(flush - mirrored) # "failed"
        /\ (AfterBatch(flush - mirrored) = "done" => flush - mirrored # Batch)
    BY DEF AfterBatch
  <2> DEFINE outcome == AfterBatch(flush - mirrored)
  <2>2. /\ Conclude(outcome) /\ flush # Null /\ flush' = Null
        /\ mirrored' = IF log' = <<>> THEN 0 ELSE flush
        /\ UNCHANGED <<next, flying, torn>>
    BY <1>9 DEF Mirrored, run
  <2> HIDE DEF outcome
  <2>3. /\ outcome \in {"done", "more", "failed"} /\ outcome # "failed"
        /\ (outcome = "done" => flush - mirrored # Batch)
    BY <2>1 DEF outcome
  <2>4. Inv' /\ (log' # log => log' = <<>> /\ flush = Len(log))
    BY <2>2, <2>3, BatchInv
  <2> QED BY <2>4
<1>10. CASE MirrorFails
  <2>1. /\ Conclude("failed") /\ flush # Null /\ flush' = Null
        /\ mirrored' = IF log' = <<>> THEN 0 ELSE mirrored
        /\ UNCHANGED <<next, flying, torn>>
    BY <1>10 DEF MirrorFails, run
  <2>2. Inv' /\ (log' # log => log' = <<>> /\ flush = Len(log))
    BY <2>1, BatchInv
  <2> QED BY <2>2
<1>11. CASE DayPasses
  <2>1. /\ UNCHANGED <<next, flying, log, mirrored, flush, alarm, torn>>
        /\ expires = "set" /\ expires' = "passed" /\ next > Labels /\ flying = 0
    BY <1>11 DEF DayPasses, run
  <2>2. Inv'
    BY <1>0, <2>1, ApartInv
  <2> QED BY <1>2, <2>1, <2>2
<1>12. CASE Evict
  <2>1. /\ Evicted(log) /\ UNCHANGED <<next, torn, mirrored, expires, flying>>
        /\ 0 \in {0, next} /\ 0 \in 0..Labels
    BY <1>12 DEF Evict, run
  <2>2. Inv' /\ log' = log
    BY <2>1, EvictedInv DEF Evicted
  <2> QED BY <1>2, <2>2
<1> QED BY <1>3, <1>4, <1>5, <1>6, <1>7, <1>8, <1>9, <1>10, <1>11, <1>12 DEF Next

\* The invariant of append(), alarm() and the eviction between them, for any number
\* of labels, losses and retries and any batch size.
THEOREM InvCorrect == Spec => []Inv
<1>1. Inv /\ [Next]_vars => Inv'
  BY NextInv
<1> QED BY <1>1, InitInv, PTL DEF Spec

\* Whatever is emitted again and whatever is lost, each label is in the log once
\* and in the Workflow's order: append(), for any number of labels, retries and
\* losses.
THEOREM RailCorrect == Spec => []RailAdvances
<1>1. Inv => RailAdvances
  BY DEF Inv, RailOK
<1> QED BY <1>1, InvCorrect, PTL

\* What the mirror lacks, an alarm or a flush will bring: scheduleMirror() and
\* alarm(), for any batch size and any interleaving of appends with the flush.
THEOREM MirrorCorrect == Spec => []UnmirroredHasAlarm
<1>1. Inv => UnmirroredHasAlarm
  BY DEF Inv, MirrorOK
<1> QED BY <1>1, InvCorrect, PTL

\* The object is deleted only when the shard has the whole log.
THEOREM PurgeCorrect == Spec => PurgeLosesNothing
<1>1. Inv /\ [Next]_vars => [log # <<>> /\ log' = <<>> => flush = Len(log)]_vars
  BY NextInv
<1> QED BY <1>1, InvCorrect, PTL DEF Spec, PurgeLosesNothing

----------------------------------------------------------------------------
\* The streams.  The drains of one subscriber take turns: whatever is appended
\* while their writes are outstanding, every write is of the cursor's row or of
\* the next, and the older ones come first.

Logs == Seq(0..Labels)

Writes == [row : Nat, rows : Logs, backlog : BOOLEAN]

Subscribers == [cursor : Nat, closing : BOOLEAN, queue : Seq(Writes)]

Clients ==
  [mode : {"connecting", "live", "polling", "dead", "closed"},
   seen : Nat, lastId : Nat, failures : Nat]

InTurn(cursor, queue) ==
  /\ \A i \in 1..Len(queue) :
       \/ queue[i].row \in {cursor, cursor + 1} /\ queue[i].row > 0
       \/ queue[i].row = 0 /\ i = 1
  /\ \A i, j \in 1..Len(queue) : i < j => queue[i].row <= queue[j].row

StreamOK(c, s) ==
  /\ c \in Clients
  /\ c.lastId = c.seen
  /\ s # Null => s \in Subscribers /\ InTurn(s.cursor, s.queue) /\ s.cursor = c.lastId

Streams ==
  /\ client \in [Viewers -> Clients] /\ conn = [v \in Viewers |-> conn[v]]
  /\ \A v \in Viewers : StreamOK(client[v], conn[v])

\* A write put behind a queue whose rows it does not precede.
LEMMA Behind ==
  ASSUME NEW cursor \in Nat, NEW queue \in Seq(Writes), InTurn(cursor, queue),
         NEW w \in Writes, w.row = cursor + 1
  PROVE  queue \o <<w>> \in Seq(Writes) /\ InTurn(cursor, queue \o <<w>>)
<1> DEFINE q == queue \o <<w>>
<1>1. /\ q \in Seq(Writes) /\ Len(q) = Len(queue) + 1 /\ Len(queue) \in Nat
      /\ \A i \in 1..Len(queue) : q[i] = queue[i]
      /\ q[Len(queue) + 1] = w
  OBVIOUS
<1>2. \A i \in 1..Len(queue) : queue[i] \in Writes
  OBVIOUS
<1>3. ASSUME NEW i \in 1..Len(queue)
      PROVE  queue[i].row \in Nat /\ queue[i].row <= cursor + 1
  <2>1. queue[i].row \in {cursor, cursor + 1} \/ queue[i].row = 0
    BY DEF InTurn
  <2> QED BY <2>1
<1>4. \A i \in 1..Len(q) : i \in 1..Len(queue) \/ i = Len(queue) + 1
  BY <1>1
<1> HIDE DEF q
<1>5. ASSUME NEW i \in 1..Len(q)
      PROVE  \/ q[i].row \in {cursor, cursor + 1} /\ q[i].row > 0
             \/ q[i].row = 0 /\ i = 1
  <2>1. CASE i \in 1..Len(queue)
    BY <1>1, <2>1 DEF InTurn
  <2>2. CASE i = Len(queue) + 1
    BY <1>1, <2>2
  <2> QED BY <1>4, <2>1, <2>2
<1>6. ASSUME NEW i \in 1..Len(q), NEW j \in 1..Len(q), i < j
      PROVE  q[i].row <= q[j].row
  <2>1. i \in 1..Len(queue)
    BY <1>1, <1>6
  <2>2. CASE j \in 1..Len(queue)
    BY <1>1, <1>6, <2>1, <2>2 DEF InTurn
  <2>3. CASE j = Len(queue) + 1
    BY <1>1, <1>3, <2>1, <2>3
  <2> QED BY <1>4, <2>2, <2>3
<1>7. InTurn(cursor, q)
  BY <1>5, <1>6 DEF InTurn
<1> QED BY <1>1, <1>7 DEF q

\* When the head is written, the cursor is at its row, and the rest is in turn.
LEMMA Resolved ==
  ASSUME NEW c \in Subscribers, InTurn(c.cursor, c.queue), c.queue # <<>>
  PROVE  /\ Head(c.queue) \in Writes
         /\ CursorAfter(c, Head(c.queue)) \in {c.cursor, c.cursor + 1}
         /\ Tail(c.queue) \in Seq(Writes)
         /\ InTurn(CursorAfter(c, Head(c.queue)), Tail(c.queue))
<1> DEFINE h == Head(c.queue)
           q == Tail(c.queue)
           cursor == CursorAfter(c, h)
<1>1. c.queue \in Seq(Writes) /\ c.cursor \in Nat
  BY DEF Subscribers
<1>2. /\ h = c.queue[1] /\ h \in Writes /\ 1 \in 1..Len(c.queue) /\ Len(c.queue) \in Nat
      /\ q \in Seq(Writes) /\ Len(q) = Len(c.queue) - 1
      /\ \A i \in 1..Len(q) : q[i] = c.queue[i + 1] /\ i + 1 \in 1..Len(c.queue)
  BY <1>1
<1>3. h.row \in Nat /\ (h.row = 0 \/ h.row \in {c.cursor, c.cursor + 1})
  BY <1>2 DEF InTurn, Writes
<1>4. cursor \in {c.cursor, c.cursor + 1} /\ (h.row # 0 => cursor = h.row)
      /\ (h.row = 0 => cursor = c.cursor)
  BY <1>3 DEF CursorAfter
<1> HIDE DEF cursor, q, h
<1>5. ASSUME NEW i \in 1..Len(q)
      PROVE  q[i].row \in {cursor, cursor + 1} /\ q[i].row > 0
  <2>1. q[i] = c.queue[i + 1] /\ i + 1 \in 1..Len(c.queue) /\ i + 1 # 1 /\ 1 < i + 1
    BY <1>2
  <2>2. q[i].row \in {c.cursor, c.cursor + 1} /\ q[i].row > 0
    BY <2>1 DEF InTurn
  <2>3. h.row <= q[i].row
    BY <1>2, <2>1 DEF InTurn
  <2> QED BY <1>1, <1>3, <1>4, <2>2, <2>3
<1>6. ASSUME NEW i \in 1..Len(q), NEW j \in 1..Len(q), i < j
      PROVE  q[i].row <= q[j].row
  <2>1. i + 1 < j + 1
    BY <1>6
  <2> QED BY <1>2, <1>6, <2>1 DEF InTurn
<1>7. InTurn(cursor, q)
  BY <1>5, <1>6 DEF InTurn
<1> QED BY <1>2, <1>4, <1>7 DEF h, q, cursor

\* The write after h is of the row after the cursor.
LEMMA WritesOn ==
  ASSUME NEW h \in Writes, NEW cursor \in Nat, h.row # 0 => cursor = h.row, log \in Logs
  PROVE  \/ Continues(h, cursor) = <<>>
         \/ \E w \in Writes : Continues(h, cursor) = <<w>> /\ w.row = cursor + 1
<1>1. h.row \in Nat /\ h.rows \in Logs
  BY DEF Writes
<1>2. CASE h.row = 0 /\ cursor < Len(log)
  <2>1. ~ (h.row > 0)
    BY <1>2
  <2>2. Continues(h, cursor) = <<Writing(cursor + 1, log, TRUE)>>
    BY <1>2, <2>1 DEF Continues
  <2>3. Writing(cursor + 1, log, TRUE) \in Writes
    BY DEF Writing, Writes
  <2> QED BY <2>2, <2>3 DEF Writing
<1>3. CASE h.row > 0 /\ h.row < Len(h.rows)
  <2>1. h.row # 0
    BY <1>1, <1>3
  <2> DEFINE w == [h EXCEPT !.row = @ + 1]
  <2>2. Continues(h, cursor) = <<w>>
    BY <1>3, <2>1 DEF Continues
  <2>3. w \in Writes /\ w.row = h.row + 1
    BY DEF Writes
  <2> QED BY <2>1, <2>2, <2>3
<1>4. CASE ~ (h.row = 0 /\ cursor < Len(log)) /\ ~ (h.row > 0 /\ h.row < Len(h.rows))
  BY <1>4 DEF Continues
<1> QED BY <1>2, <1>3, <1>4

\* What a drain writes on is the row after the cursor.
LEMMA ServedInTurn ==
  ASSUME NEW c \in Subscribers, InTurn(c.cursor, c.queue), c.queue # <<>>,
         log \in Logs
  PROVE  /\ Served(c) \in Subscribers
         /\ InTurn(Served(c).cursor, Served(c).queue)
         /\ Served(c).cursor = CursorAfter(c, Head(c.queue))
<1> DEFINE h == Head(c.queue)
           cursor == CursorAfter(c, h)
           on == Continues(h, cursor)
           q == Tail(c.queue)
<1>1. /\ h \in Writes /\ cursor \in {c.cursor, c.cursor + 1} /\ q \in Seq(Writes)
      /\ InTurn(cursor, q)
  BY Resolved
<1>2. c.cursor \in Nat /\ c.closing \in BOOLEAN
  BY DEF Subscribers
<1>3. cursor \in Nat
  BY <1>1, <1>2
<1>4. on = <<>> \/ \E w \in Writes : on = <<w>> /\ w.row = cursor + 1
  <2>1. h.row # 0 => cursor = h.row
    BY DEF CursorAfter
  <2> HIDE DEF h, cursor
  <2> QED BY <1>1, <1>3, <2>1, WritesOn
<1>5. /\ Served(c) = [cursor |-> cursor,
                      closing |-> c.closing \/ (h.backlog /\ on = <<>> /\ terminal),
                      queue |-> q \o (IF c.closing THEN <<>> ELSE on)]
  BY DEF Served
<1>6. (c.closing \/ (h.backlog /\ on = <<>> /\ terminal)) \in BOOLEAN
  OBVIOUS
<1> HIDE DEF h, cursor, on, q
<1>7. ASSUME NEW rest \in {<<>>, on}
      PROVE  q \o rest \in Seq(Writes) /\ InTurn(cursor, q \o rest)
  <2>1. CASE rest = <<>>
    <3>1. q \o <<>> = q
      BY <1>1
    <3> QED BY <1>1, <2>1, <3>1
  <2>2. CASE rest # <<>>
    <3>1. PICK w \in Writes : rest = <<w>> /\ w.row = cursor + 1
      BY <1>4, <2>2
    <3> QED BY <1>1, <1>3, <3>1, Behind
  <2> QED BY <2>1, <2>2
<1>8. /\ q \o (IF c.closing THEN <<>> ELSE on) \in Seq(Writes)
      /\ InTurn(cursor, q \o (IF c.closing THEN <<>> ELSE on))
  BY <1>7
<1>9. Served(c) \in Subscribers
  BY <1>3, <1>5, <1>6, <1>8 DEF Subscribers
<1>10. Served(c).cursor = cursor /\ Served(c).queue = q \o (IF c.closing THEN <<>> ELSE on)
  BY <1>5
<1> QED BY <1>8, <1>9, <1>10 DEF cursor, h

\* A fan-out's drain starts after the cursor, behind what is outstanding.
LEMMA FanOutInTurn ==
  ASSUME NEW rows \in Logs, NEW c \in Subscribers, InTurn(c.cursor, c.queue)
  PROVE  LET d == [c EXCEPT !.queue = @ \o Drains(c, rows)]
         IN  d \in Subscribers /\ InTurn(d.cursor, d.queue) /\ d.cursor = c.cursor
<1>1. c.queue \in Seq(Writes) /\ c.cursor \in Nat
  BY DEF Subscribers
<1>2. c.queue \o Drains(c, rows) \in Seq(Writes) /\ InTurn(c.cursor, c.queue \o Drains(c, rows))
  <2>1. CASE c.cursor < Len(rows)
    <3>1. Drains(c, rows) = <<Writing(c.cursor + 1, rows, FALSE)>>
      BY <2>1 DEF Drains
    <3>2. Writing(c.cursor + 1, rows, FALSE) \in Writes
          /\ Writing(c.cursor + 1, rows, FALSE).row = c.cursor + 1
      BY <1>1 DEF Writing, Writes
    <3> QED BY <1>1, <3>1, <3>2, Behind
  <2>2. CASE ~ (c.cursor < Len(rows))
    <3>1. Drains(c, rows) = <<>>
      BY <2>2 DEF Drains
    <3>2. c.queue \o <<>> = c.queue
      BY <1>1
    <3> QED BY <1>1, <3>1, <3>2
  <2> QED BY <2>1, <2>2
<1> DEFINE queue == c.queue \o Drains(c, rows)
           d == [c EXCEPT !.queue = queue]
<1> HIDE DEF queue
<1>3. d.queue = queue /\ d.cursor = c.cursor
  BY DEF Subscribers
<1>4. queue \in Seq(Writes) /\ InTurn(c.cursor, queue)
  BY <1>2 DEF queue
<1>5. d \in Subscribers
  BY <1>4 DEF Subscribers
<1> QED BY <1>3, <1>4, <1>5 DEF queue

\* A failure leaves what was seen alone.
LEMMA FailedSeen ==
  ASSUME NEW c \in Clients
  PROVE  Failed(c) \in Clients /\ Failed(c).seen = c.seen /\ Failed(c).lastId = c.lastId
<1> DEFINE mode == IF c.failures + 1 >= MaxStreamFailures THEN "polling" ELSE "connecting"
<1>1. Failed(c) = [[c EXCEPT !.failures = @ + 1] EXCEPT !.mode = mode]
  BY DEF Failed, Clients
<1>2. c.failures + 1 \in Nat /\ mode \in {"polling", "connecting"}
  BY DEF Clients
<1> HIDE DEF mode
<1> QED BY <1>1, <1>2 DEF Clients

\* One viewer acts: it is enough to look at that one.
LEMMA OneViewer ==
  ASSUME Streams, NEW v \in Viewers, NEW c, NEW s,
         client' = [client EXCEPT ![v] = c], conn' = [conn EXCEPT ![v] = s],
         StreamOK(c, s), c.seen <= client[v].seen + 1
  PROVE  Streams' /\ \A w \in Viewers : client'[w].seen <= client[w].seen + 1
<1>1. c \in Clients
  BY DEF StreamOK
<1>2. client' \in [Viewers -> Clients] /\ conn' = [w \in Viewers |-> conn'[w]]
  BY <1>1 DEF Streams
<1>3. ASSUME NEW w \in Viewers
      PROVE  StreamOK(client'[w], conn'[w]) /\ client'[w].seen <= client[w].seen + 1
  <2>1. CASE w = v
    <3>1. client'[w] = c /\ conn'[w] = s
      BY <2>1 DEF Streams
    <3> QED BY <2>1, <3>1
  <2>2. CASE w # v
    <3>1. client'[w] = client[w] /\ conn'[w] = conn[w]
      BY <2>2 DEF Streams
    <3>2. client[w].seen \in Nat
      BY DEF Streams, StreamOK, Clients
    <3> QED BY <3>1, <3>2 DEF Streams
  <2> QED BY <2>1, <2>2
<1> QED BY <1>2, <1>3 DEF Streams

\* The object acts on every subscriber, and no client takes anything.
LEMMA AllViewers ==
  ASSUME Streams, client' = [v \in Viewers |-> client'[v]],
         conn' = [v \in Viewers |-> conn'[v]],
         \A v \in Viewers : StreamOK(client'[v], conn'[v]) /\ client'[v].seen = client[v].seen
  PROVE  Streams' /\ \A v \in Viewers : client'[v].seen <= client[v].seen + 1
<1>1. \A v \in Viewers : client'[v] \in Clients
  BY DEF StreamOK
<1>2. client' \in [Viewers -> Clients]
  BY <1>1
<1>3. \A v \in Viewers : client[v].seen \in Nat
  BY DEF Streams, StreamOK, Clients
<1> QED BY <1>2, <1>3 DEF Streams

\* A connection starts with the retry hint, from where the client is.
LEMMA OpenStreams ==
  ASSUME Streams, NEW v \in Viewers, Open(v)
  PROVE  Streams' /\ \A w \in Viewers : client'[w].seen <= client[w].seen + 1
<1> DEFINE old == client[v]
           c == [[client[v] EXCEPT !.mode = "live"] EXCEPT !.failures = 0]
           queue == <<Writing(0, <<>>, TRUE)>>
           s == [cursor |-> client[v].lastId, closing |-> FALSE, queue |-> queue]
<1>1. old \in Clients /\ old.lastId = old.seen /\ old.lastId \in Nat
  BY DEF Streams, StreamOK, Clients
<1>2. c \in Clients /\ c.lastId = old.lastId /\ c.seen = old.seen
  BY <1>1 DEF Clients
<1>3. client' = [client EXCEPT ![v] = c] /\ conn' = [conn EXCEPT ![v] = s]
  BY DEF Open, Streams, Clients
<1>4. queue \in Seq(Writes) /\ Len(queue) = 1 /\ queue[1].row = 0
  <2>1. Writing(0, <<>>, TRUE) \in Writes
    BY DEF Writing, Writes, Logs
  <2> QED BY <2>1 DEF Writing
<1> HIDE DEF old, c, queue
<1>5. s \in Subscribers /\ s.cursor = c.lastId /\ s.queue = queue
  BY <1>1, <1>2, <1>4 DEF Subscribers, old
<1>6. InTurn(s.cursor, s.queue)
  <2>1. InTurn(s.cursor, queue)
    <3> HIDE DEF s
    <3> QED BY <1>4 DEF InTurn
  <2> QED BY <1>5, <2>1
<1>7. StreamOK(c, s)
  BY <1>1, <1>2, <1>5, <1>6 DEF StreamOK
<1>8. c.seen <= client[v].seen + 1
  BY <1>1, <1>2 DEF old
<1> QED BY <1>3, <1>7, <1>8, OneViewer

\* A frame is the one seen last or the next, and the stream goes on after it.
LEMMA TakeStreams ==
  ASSUME Streams, log \in Logs, NEW v \in Viewers, Take(v)
  PROVE  Streams' /\ \A w \in Viewers : client'[w].seen <= client[w].seen + 1
<1> DEFINE old == client[v]
           d == conn[v]
           h == Head(d.queue)
           mode == IF h.rows[h.row] = Labels THEN "closed" ELSE "live"
           taken == [mode |-> mode, seen |-> IF h.row > old.seen THEN h.row ELSE old.seen,
                     lastId |-> h.row, failures |-> 0]
           c == IF h.row = 0 THEN old ELSE taken
           s == IF c.mode = "closed" THEN Null ELSE Served(d)
<1>1. /\ old \in Clients /\ old.lastId = old.seen /\ old.seen \in Nat
      /\ d # Null /\ d.queue # <<>> /\ d \in Subscribers /\ InTurn(d.cursor, d.queue)
      /\ d.cursor = old.seen
  BY DEF Take, Streams, StreamOK, Clients
<1>2. /\ h \in Writes /\ CursorAfter(d, h) \in {d.cursor, d.cursor + 1}
      /\ Served(d) \in Subscribers /\ InTurn(Served(d).cursor, Served(d).queue)
      /\ Served(d).cursor = CursorAfter(d, h)
  BY <1>1, Resolved, ServedInTurn
<1>3. h.row \in Nat
  BY <1>2 DEF Writes
<1>4. h.row # 0 => h.row \in {old.seen, old.seen + 1}
  BY <1>1, <1>2 DEF CursorAfter
<1>5. client' = [client EXCEPT ![v] = c]
  <2>1. CASE h.row = 0
    <3>1. client' = client
      BY <2>1 DEF Take
    <3> QED BY <2>1, <3>1 DEF Streams
  <2>2. CASE h.row # 0
    BY <2>2 DEF Take, Streams
  <2> QED BY <2>1, <2>2
<1>6. conn' = [conn EXCEPT ![v] = s]
  <2>1. client'[v] = c
    BY <1>5 DEF Streams
  <2> HIDE DEF c
  <2> QED BY <2>1 DEF Take
<1>7. c \in Clients /\ c.lastId = c.seen /\ c.seen = CursorAfter(d, h)
  <2>1. CASE h.row = 0
    BY <1>1, <2>1 DEF CursorAfter
  <2>2. CASE h.row # 0
    <3>1. taken \in Clients
      BY <1>1, <1>3 DEF Clients
    <3>2. taken.lastId = h.row /\ taken.seen = h.row
      BY <1>1, <1>4, <2>2
    <3> QED BY <2>2, <3>1, <3>2 DEF CursorAfter
  <2> QED BY <2>1, <2>2
<1> HIDE DEF c, d, h, old
<1>8. StreamOK(c, s)
  BY <1>2, <1>7 DEF StreamOK
<1>9. c.seen <= client[v].seen + 1
  BY <1>1, <1>2, <1>7 DEF old
<1> HIDE DEF s
<1> QED BY <1>5, <1>6, <1>8, <1>9, OneViewer

\* A stream goes, and its viewer's failure is counted.
LEMMA FailedStreams ==
  ASSUME Streams, NEW v \in Viewers,
         client' = [client EXCEPT ![v] = Failed(client[v])],
         conn' = [conn EXCEPT ![v] = Null]
  PROVE  Streams' /\ \A w \in Viewers : client'[w].seen <= client[w].seen + 1
<1>1. client[v] \in Clients /\ client[v].lastId = client[v].seen /\ client[v].seen \in Nat
  BY DEF Streams, StreamOK, Clients
<1> DEFINE c == Failed(client[v])
<1>2. c \in Clients /\ c.seen = client[v].seen /\ c.lastId = client[v].lastId
  BY <1>1, FailedSeen
<1> HIDE DEF c
<1>3. StreamOK(c, Null) /\ c.seen <= client[v].seen + 1
  BY <1>1, <1>2 DEF StreamOK
<1>4. client' = [client EXCEPT ![v] = c]
  BY DEF c
<1> QED BY <1>3, <1>4, OneViewer

\* Only the mode of a viewer changes, and what its failures come to.
LEMMA ModeStreams ==
  ASSUME Streams, NEW v \in Viewers, NEW c \in Clients,
         c.seen = client[v].seen, c.lastId = client[v].lastId,
         client' = [client EXCEPT ![v] = c], conn' = conn
  PROVE  Streams' /\ \A w \in Viewers : client'[w].seen <= client[w].seen + 1
<1>1. StreamOK(client[v], conn[v]) /\ client[v].seen \in Nat
  BY DEF Streams, StreamOK, Clients
<1>2. StreamOK(c, conn[v]) /\ c.seen <= client[v].seen + 1
  BY <1>1 DEF StreamOK
<1>3. conn' = [conn EXCEPT ![v] = conn[v]]
  BY DEF Streams
<1> QED BY <1>2, <1>3, OneViewer

\* One step of one viewer.
LEMMA ViewerStreams ==
  ASSUME Streams, log \in Logs, NEW v \in Viewers, Viewer(v)
  PROVE  Streams' /\ \A w \in Viewers : client'[w].seen <= client[w].seen + 1
<1>1. client[v] \in Clients
  BY DEF Streams
<1>2. CASE Open(v)
  BY <1>2, OpenStreams
<1>3. CASE Take(v)
  BY <1>3, TakeStreams
<1>4. CASE EndOfStream(v) \/ Break(v)
  <2>1. /\ client' = [client EXCEPT ![v] = Failed(client[v])]
        /\ conn' = [conn EXCEPT ![v] = Null]
    BY <1>4 DEF EndOfStream, Break, Streams
  <2> QED BY <2>1, FailedStreams
<1>5. CASE Refuse(v)
  <2> DEFINE f == Failed(client[v])
             c == [f EXCEPT !.mode = IF @ = "polling" THEN "polling" ELSE "dead"]
  <2>1. client' = [client EXCEPT ![v] = c] /\ conn' = conn
    BY <1>5 DEF Refuse, hub, Streams
  <2>2. f \in Clients /\ f.seen = client[v].seen /\ f.lastId = client[v].lastId
    BY <1>1, FailedSeen
  <2> HIDE DEF f
  <2>3. c \in Clients /\ c.seen = f.seen /\ c.lastId = f.lastId
    BY <2>2 DEF Clients
  <2> HIDE DEF c
  <2> QED BY <2>1, <2>2, <2>3, ModeStreams
<1>6. CASE Poll(v)
  <2> DEFINE c == [client[v] EXCEPT !.mode = "closed"]
  <2>1. client' = [client EXCEPT ![v] = c] /\ conn' = conn
    BY <1>6 DEF Poll, hub, Streams
  <2>2. c \in Clients /\ c.seen = client[v].seen /\ c.lastId = client[v].lastId
    BY <1>1 DEF Clients
  <2> HIDE DEF c
  <2> QED BY <2>1, <2>2, ModeStreams
<1> QED BY <1>2, <1>3, <1>4, <1>5, <1>6 DEF Viewer

\* The append's drains join every stream that is not closing.
LEMMA FanOutStreams ==
  ASSUME Streams, log' \in Logs, conn' = FannedOut(log'), client' = client
  PROVE  Streams' /\ \A v \in Viewers : client'[v].seen <= client[v].seen + 1
<1>1. ASSUME NEW v \in Viewers
      PROVE  StreamOK(client'[v], conn'[v]) /\ client'[v].seen = client[v].seen
  <2> DEFINE c == conn[v]
             d == [c EXCEPT !.queue = @ \o Drains(c, log')]
  <2>1. StreamOK(client[v], c)
    BY DEF Streams
  <2>2. CASE c # Null /\ ~ c.closing
    <3>1. conn'[v] = d
      BY <2>2 DEF FannedOut
    <3>2. c \in Subscribers /\ InTurn(c.cursor, c.queue) /\ c.cursor = client[v].lastId
      BY <2>1, <2>2 DEF StreamOK
    <3>3. d \in Subscribers /\ InTurn(d.cursor, d.queue) /\ d.cursor = c.cursor
      BY <3>2, FanOutInTurn
    <3> HIDE DEF d
    <3> QED BY <2>1, <3>1, <3>2, <3>3 DEF StreamOK
  <2>3. CASE ~ (c # Null /\ ~ c.closing)
    <3>1. conn'[v] = c
      BY <2>3 DEF FannedOut
    <3> QED BY <2>1, <3>1
  <2> QED BY <2>2, <2>3
<1>2. client' = [v \in Viewers |-> client'[v]] /\ conn' = [v \in Viewers |-> conn'[v]]
  BY DEF FannedOut, Streams
<1> QED BY <1>1, <1>2, AllViewers

\* Closing the streams leaves what is outstanding outstanding.
LEMMA CloseStreams ==
  ASSUME Streams, CloseSubscribers
  PROVE  Streams' /\ \A v \in Viewers : client'[v].seen <= client[v].seen + 1
<1>1. ASSUME NEW v \in Viewers
      PROVE  StreamOK(client'[v], conn'[v]) /\ client'[v].seen = client[v].seen
  <2> DEFINE c == conn[v]
             d == [c EXCEPT !.closing = TRUE]
  <2>1. StreamOK(client[v], c) /\ client' = client
    BY DEF Streams, CloseSubscribers
  <2>2. CASE c # Null
    <3>1. conn'[v] = d
      BY <2>2 DEF CloseSubscribers
    <3>2. c \in Subscribers /\ InTurn(c.cursor, c.queue) /\ c.cursor = client[v].lastId
      BY <2>1, <2>2 DEF StreamOK
    <3>3. d \in Subscribers /\ d.queue = c.queue /\ d.cursor = c.cursor
      BY <3>2 DEF Subscribers
    <3> HIDE DEF d
    <3> QED BY <2>1, <3>1, <3>2, <3>3 DEF StreamOK
  <2>3. CASE c = Null
    <3>1. conn'[v] = c
      BY <2>3 DEF CloseSubscribers
    <3> QED BY <2>1, <3>1
  <2> QED BY <2>2, <2>3
<1>2. client' = [v \in Viewers |-> client'[v]] /\ conn' = [v \in Viewers |-> conn'[v]]
  BY DEF CloseSubscribers, Streams
<1> QED BY <1>1, <1>2, AllViewers

\* An eviction ends every stream.
LEMMA EvictedStreams ==
  ASSUME Streams, conn' = [v \in Viewers |-> Null], client' = Disconnected
  PROVE  Streams' /\ \A v \in Viewers : client'[v].seen <= client[v].seen + 1
<1>1. ASSUME NEW v \in Viewers
      PROVE  StreamOK(client'[v], conn'[v]) /\ client'[v].seen = client[v].seen
  <2>1. conn'[v] = Null /\ client'[v] \in {client[v], Failed(client[v])}
    BY DEF Disconnected
  <2>2. client[v] \in Clients /\ client[v].lastId = client[v].seen
    BY DEF Streams, StreamOK
  <2>3. /\ Failed(client[v]) \in Clients /\ Failed(client[v]).seen = client[v].seen
        /\ Failed(client[v]).lastId = client[v].lastId
    BY <2>2, FailedSeen
  <2> QED BY <2>1, <2>2, <2>3 DEF StreamOK
<1>2. client' = [v \in Viewers |-> client'[v]] /\ conn' = [v \in Viewers |-> conn'[v]]
  BY DEF Disconnected
<1> QED BY <1>1, <1>2, AllViewers

\* The rest of the object does not look at its streams.
LEMMA ApartStreams ==
  ASSUME Streams, UNCHANGED <<conn, client>>
  PROVE  Streams' /\ \A v \in Viewers : client'[v].seen <= client[v].seen + 1
<1>1. \A v \in Viewers : client[v].seen \in Nat
  BY DEF Streams, StreamOK, Clients
<1> QED BY <1>1 DEF Streams

\* No modal has seen anything at first.
LEMMA InitStreams == Init => Streams
BY DEF Init, Streams, StreamOK, Clients

\* Streams is inductive, and no step skips an event.
LEMMA NextStreams ==
  ASSUME Inv, Inv', Streams, [Next]_vars
  PROVE  Streams' /\ \A v \in Viewers : client'[v].seen <= client[v].seen + 1
<1>1. log \in Logs /\ log' \in Logs
  BY DEF Inv, HubType, Logs
<1>2. CASE Emit \/ Land
  <2>1. client' = client /\ (conn' = FannedOut(log') \/ conn' = conn)
    BY <1>2 DEF Emit, Land, Receive, hub
  <2> QED BY <1>1, <2>1, FanOutStreams, ApartStreams
<1>3. CASE EmitCut \/ Evict
  <2>1. conn' = [v \in Viewers |-> Null] /\ client' = Disconnected
    BY <1>3 DEF EmitCut, Evict, Evicted
  <2> QED BY <2>1, EvictedStreams
<1>4. CASE CloseSubscribers
  BY <1>4, CloseStreams
<1>5. CASE \E v \in Viewers : Viewer(v)
  BY <1>1, <1>5, ViewerStreams
<1>6. CASE Delta \/ Mirror \/ Mirrored \/ MirrorFails \/ DayPasses \/ UNCHANGED vars
  <2>1. UNCHANGED <<conn, client>>
    BY <1>6 DEF Delta, Mirror, Mirrored, MirrorFails, DayPasses, hub, vars
  <2> QED BY <2>1, ApartStreams
<1> QED BY <1>2, <1>3, <1>4, <1>5, <1>6 DEF Next

\* The drains take turns in every reachable state: fanOut(), drain() and the
\* connect's backlog, for any number of viewers, appends, breaks and evictions.
THEOREM StreamsCorrect == Spec => []Streams
<1>1. Inv /\ Inv' /\ Streams /\ [Next]_vars => Streams'
  BY NextStreams
<1> QED BY <1>1, InitStreams, InvCorrect, PTL DEF Spec

\* The browser's resume point is what the modal has seen: no overlap of drains
\* puts an older frame after a newer one.
THEOREM FramesInOrderCorrect == Spec => []FramesInOrder
<1>1. Streams => FramesInOrder
  BY DEF Streams, StreamOK, FramesInOrder
<1> QED BY <1>1, StreamsCorrect, PTL

\* "Nothing can fall between them": no event is ever skipped, whatever backlog,
\* fan-out, breaks, resumes and evictions do to each other.
THEOREM NothingFallsBetweenCorrect == Spec => NothingFallsBetween
<1>1. Inv /\ Inv' /\ Streams /\ [Next]_vars
        => [\A v \in Viewers : client'[v].seen <= client[v].seen + 1]_vars
  BY NextStreams
<1> QED BY <1>1, InvCorrect, StreamsCorrect, PTL DEF Spec, NothingFallsBetween

=============================================================================

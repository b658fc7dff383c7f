-------------------------------- MODULE Quota --------------------------------
(***************************************************************************)
(* QuotaDO: one object per quota subject, with a counter for the current   *)
(* UTC day and, for some subjects, one for all time.  consume() counts a   *)
(* submit unless it denies it; release() gives a count back to the windows *)
(* of the moment it is called in.                                          *)
(*                                                                         *)
(* A cost is always 1; the window of an earlier day is never read again,   *)
(* so a counter holds today's.                                             *)
(***************************************************************************)
EXTENDS Integers

CONSTANTS
  Subjects,  \* quota subjects
  Denying,   \* those whose limit denies: the others escalate
  PerDay,    \* PerDay[s]: the allowance of a day
  Lifetime   \* Lifetime[s]: the allowance of all time, 0 where there is none

ASSUME QuotaAssumption ==
  /\ Denying \subseteq Subjects
  /\ PerDay \in [Subjects -> Nat \ {0}]
  /\ Lifetime \in [Subjects -> Nat]

VARIABLES
  used,  \* per subject: counted today
  life   \* per subject: counted in all, where it has a lifetime allowance

quotaVars == <<used, life>>

QuotaTypeOK == used \in [Subjects -> Nat] /\ life \in [Subjects -> Nat]

QuotaInit == used = [s \in Subjects |-> 0] /\ life = [s \in Subjects |-> 0]

Over(s) ==
  \/ used[s] + 1 > PerDay[s]
  \/ Lifetime[s] # 0 /\ life[s] + 1 > Lifetime[s]

\* A denied consume() counts nothing, an escalated one does.
Denies(s) == s \in Denying /\ Over(s)

Count(s) ==
  /\ used' = [used EXCEPT ![s] = @ + 1]
  /\ life' = [life EXCEPT ![s] = IF Lifetime[s] = 0 THEN @ ELSE @ + 1]

\* Mutant: release() forgets the lifetime window.
ReleaseDay(s) ==
  /\ used' = [used EXCEPT ![s] = IF @ = 0 THEN 0 ELSE @ - 1]
  /\ UNCHANGED life

Release(s) ==
  /\ used' = [used EXCEPT ![s] = IF @ = 0 THEN 0 ELSE @ - 1]
  /\ life' = [life EXCEPT ![s] = IF @ = 0 THEN 0 ELSE @ - 1]

\* The day rolls over: every object counts in a new window.
NewDay == used' = [s \in Subjects |-> 0] /\ UNCHANGED life
=============================================================================

---------------------------- MODULE BudgetProofs ----------------------------
(***************************************************************************)
(* Theorems of Budget, for every set of jobs and reservations, every       *)
(* amount, cap, clock and calendar: the caps and the alarm, and a day's    *)
(* counters as the sums of the reservations opened on it.                  *)
(***************************************************************************)
EXTENDS Budget, FiniteSetTheorems, WellFoundedInduction, TLAPS

----------------------------------------------------------------------------
\* Sums over finite sets.  A sum is a recursive function over the subsets of its
\* set; what it comes to is shown by the smallest subset for which it does not.

\* The element a fold takes from a set.
First(s) == CHOOSE x \in s : TRUE

\* g is the table a sum over the subsets of U builds.
Sums(f, U, g) ==
  g = [s \in SUBSET U |-> IF s = {} THEN 0 ELSE f[First(s)] + g[s \ {First(s)}]]

\* What a fold takes from a set is in it.
LEMMA FirstIsIn == ASSUME NEW s, s # {} PROVE First(s) \in s
BY DEF First

\* If not every subset of a finite set is well, there is a smallest one that is not.
LEMMA Smallest ==
  ASSUME NEW S, IsFiniteSet(S), NEW T, T \subseteq SUBSET S, T # {}
  PROVE  \E x \in T : \A y \in T : y \subseteq x => y = x
<1>1. IsWellFoundedOn(StrictSubsetOrdering(S), SUBSET S)
  BY FS_StrictSubsetOrderingWellFounded, FS_FiniteSubsetsOfFinite
<1>2. PICK x \in T : \A y \in T : ~ (<<y, x>> \in StrictSubsetOrdering(S))
  BY <1>1, WFMin
<1>3. \A y \in T : y \subseteq x /\ y # x => <<y, x>> \in StrictSubsetOrdering(S)
  BY DEF StrictSubsetOrdering
<1>4. \A y \in T : y \subseteq x => y = x
  BY <1>2, <1>3
<1> QED BY <1>4

\* SumFunctionOnSet takes the sum from such a table.
LEMMA SumIsTable ==
  ASSUME NEW f, NEW U
  PROVE  SumFunctionOnSet(f, U) = (CHOOSE g : Sums(f, U, g))[U]
BY DEF SumFunctionOnSet, FoldFunctionOnSet, MapThenFoldSet, Sums, First

\* A table starts at the empty set.
LEMMA TableOfNone ==
  ASSUME NEW f, NEW U, NEW g, Sums(f, U, g)
  PROVE  g[{}] = 0
BY DEF Sums

\* What a table holds for any other set.
LEMMA TableEntry ==
  ASSUME NEW f, NEW U, NEW g, Sums(f, U, g), NEW s \in SUBSET U, s # {}
  PROVE  /\ g[s] = f[First(s)] + g[s \ {First(s)}]
         /\ s \ {First(s)} \in SUBSET U /\ s \ {First(s)} # s
<1> DEFINE next(t) == IF t = {} THEN 0 ELSE f[First(t)] + g[t \ {First(t)}]
<1>1. g = [t \in SUBSET U |-> next(t)]
  BY DEF Sums
<1> HIDE DEF next
<1>2. g[s] = next(s)
  BY <1>1
<1>3. s \ {First(s)} \in SUBSET U /\ s \ {First(s)} # s
  BY FirstIsIn
<1> QED BY <1>2, <1>3 DEF next

\* Two tables agree where both have an entry.
LEMMA TablesAgree ==
  ASSUME NEW f, NEW U, NEW V, IsFiniteSet(U), NEW g, NEW h, Sums(f, U, g), Sums(f, V, h),
         NEW s \in SUBSET U, s \in SUBSET V
  PROVE  g[s] = h[s]
<1> DEFINE T == {t \in SUBSET U : t \in SUBSET V /\ g[t] # h[t]}
<1> SUFFICES ASSUME T # {} PROVE FALSE
  OBVIOUS
<1>1. PICK x \in T : \A y \in T : y \subseteq x => y = x
  <2>1. T \subseteq SUBSET U
    OBVIOUS
  <2> HIDE DEF T
  <2> QED BY <2>1, Smallest
<1>2. x \in SUBSET U /\ x \in SUBSET V /\ g[x] # h[x]
  BY <1>1
<1>3. x # {}
  <2> SUFFICES ASSUME x = {} PROVE FALSE
    OBVIOUS
  <2>1. g[{}] = 0 /\ h[{}] = 0
    BY TableOfNone
  <2> QED BY <1>2, <2>1
<1> DEFINE rest == x \ {First(x)}
<1>4. g[x] = f[First(x)] + g[rest] /\ rest \in SUBSET U
  BY ONLY Sums(f, U, g), <1>2, <1>3, TableEntry
<1>5. h[x] = f[First(x)] + h[rest] /\ rest \in SUBSET V
  BY ONLY Sums(f, V, h), <1>2, <1>3, TableEntry
<1>6. rest \subseteq x /\ rest # x
  BY <1>3, FirstIsIn
<1> HIDE DEF rest
<1>7. g[rest] = h[rest]
  BY <1>1, <1>4, <1>5, <1>6
<1> QED BY <1>2, <1>4, <1>5, <1>7

\* There is a table over every finite set.
LEMMA TableExists ==
  ASSUME NEW f, NEW S, IsFiniteSet(S)
  PROVE  \E g : Sums(f, S, g)
<1> DEFINE T == {U \in SUBSET S : ~ \E g : Sums(f, U, g)}
<1> SUFFICES ASSUME T # {} PROVE FALSE
  OBVIOUS
<1>1. PICK U \in T : \A V \in T : V \subseteq U => V = U
  <2>1. T \subseteq SUBSET S
    OBVIOUS
  <2> HIDE DEF T
  <2> QED BY <2>1, Smallest
<1>2. U \in SUBSET S /\ ~ \E g : Sums(f, U, g)
  BY <1>1
<1>3. ASSUME NEW V \in SUBSET U, V # U
      PROVE  \E g : Sums(f, V, g)
  BY <1>1, <1>2, <1>3
<1> HIDE DEF T
<1> DEFINE table(V) == CHOOSE g : Sums(f, V, g)
           value(s) == IF s = {} THEN 0 ELSE f[First(s)] + table(s \ {First(s)})[s \ {First(s)}]
           k == [s \in SUBSET U |-> value(s)]
           step(s) == IF s = {} THEN 0 ELSE f[First(s)] + k[s \ {First(s)}]
<1>4. \A V \in SUBSET U : V # U => Sums(f, V, table(V))
  BY <1>3
<1>5. \A V \in SUBSET U : IsFiniteSet(V)
  BY <1>2, FS_Subset
<1>6. ASSUME NEW t \in SUBSET U, t # U
      PROVE  value(t) = table(t)[t]
  <2>1. CASE t = {}
    <3>1. table(t)[{}] = 0
      BY <1>4, <1>6, TableOfNone
    <3> QED BY <2>1, <3>1
  <2>2. CASE t # {}
    <3> DEFINE r == t \ {First(t)}
    <3>1. /\ table(t)[t] = f[First(t)] + table(t)[r]
          /\ r \in SUBSET t /\ r # t
      <4>1. Sums(f, t, table(t))
        BY <1>4, <1>6
      <4> HIDE DEF table
      <4> QED BY <2>2, <4>1, TableEntry
    <3>2. r \in SUBSET U /\ r # U /\ r \in SUBSET r
      BY <3>1
    <3> HIDE DEF r
    <3>3. table(t)[r] = table(r)[r]
      <4>1. Sums(f, t, table(t)) /\ Sums(f, r, table(r)) /\ IsFiniteSet(t)
        BY <1>4, <1>5, <1>6, <3>2
      <4> HIDE DEF table
      <4> QED BY <3>1, <3>2, <4>1, TablesAgree
    <3>4. value(t) = f[First(t)] + table(r)[r]
      BY <2>2 DEF r
    <3> QED BY <3>1, <3>3, <3>4
  <2> QED BY <2>1, <2>2
<1>7. ASSUME NEW s \in SUBSET U
      PROVE  value(s) = step(s)
  <2>1. CASE s = {}
    BY <2>1
  <2>2. CASE s # {}
    <3> DEFINE r == s \ {First(s)}
    <3>1. r \in SUBSET U /\ r # U
      BY <2>2, FirstIsIn
    <3>2. value(s) = f[First(s)] + table(r)[r] /\ step(s) = f[First(s)] + k[r]
      BY <2>2
    <3> HIDE DEF r, table, value, step
    <3>3. k[r] = value(r)
      BY <3>1
    <3> QED BY <1>6, <3>1, <3>2, <3>3
  <2> QED BY <2>1, <2>2
<1>8. k = [s \in SUBSET U |-> step(s)]
  <2> HIDE DEF value, step
  <2> QED BY <1>7
<1>9. Sums(f, U, k)
  BY <1>8 DEF Sums
<1> QED BY <1>2, <1>9

\* A sum over a finite set, in the order of the fold.
LEMMA SumInOrder ==
  ASSUME NEW f, NEW S, IsFiniteSet(S)
  PROVE  /\ S = {} => SumFunctionOnSet(f, S) = 0
         /\ S # {} => SumFunctionOnSet(f, S)
                        = f[First(S)] + SumFunctionOnSet(f, S \ {First(S)})
<1> DEFINE table(V) == CHOOSE g : Sums(f, V, g)
           R == S \ {First(S)}
<1>1. Sums(f, S, table(S))
  BY TableExists
<1>2. IsFiniteSet(R)
  BY FS_RemoveElement
<1>3. Sums(f, R, table(R))
  BY <1>2, TableExists
<1>4. SumFunctionOnSet(f, S) = table(S)[S] /\ SumFunctionOnSet(f, R) = table(R)[R]
  BY SumIsTable
<1>5. S \in SUBSET S /\ R \in SUBSET S /\ R \in SUBSET R
  OBVIOUS
<1> HIDE DEF table
<1>6. table(S)[R] = table(R)[R]
  BY <1>1, <1>3, <1>5, TablesAgree
<1>7. S = {} => table(S)[S] = 0
  BY <1>1, TableOfNone
<1>8. S # {} => table(S)[S] = f[First(S)] + table(S)[R]
  <2> SUFFICES ASSUME S # {} PROVE table(S)[S] = f[First(S)] + table(S)[R]
    OBVIOUS
  <2> QED BY <1>1, <1>5, TableEntry
<1> QED BY <1>4, <1>6, <1>7, <1>8

\* A sum of naturals is one.
LEMMA SumIsNat ==
  ASSUME NEW f, NEW S, IsFiniteSet(S), \A x \in S : f[x] \in Nat
  PROVE  SumFunctionOnSet(f, S) \in Nat
<1> DEFINE T == {U \in SUBSET S : SumFunctionOnSet(f, U) \notin Nat}
<1> SUFFICES ASSUME T # {} PROVE FALSE
  OBVIOUS
<1>1. PICK U \in T : \A V \in T : V \subseteq U => V = U
  <2>1. T \subseteq SUBSET S
    OBVIOUS
  <2> HIDE DEF T
  <2> QED BY <2>1, Smallest
<1>2. U \in SUBSET S /\ SumFunctionOnSet(f, U) \notin Nat /\ IsFiniteSet(U)
  BY <1>1, FS_Subset
<1> DEFINE R == U \ {First(U)}
<1>3. U # {} /\ SumFunctionOnSet(f, U) = f[First(U)] + SumFunctionOnSet(f, R)
  <2>1. U # {}
    <3>1. U = {} => SumFunctionOnSet(f, U) = 0
      BY <1>2, SumInOrder
    <3> QED BY <1>2, <3>1
  <2>2. U # {} => SumFunctionOnSet(f, U) = f[First(U)] + SumFunctionOnSet(f, R)
    BY <1>2, SumInOrder
  <2> QED BY <2>1, <2>2
<1>4. First(U) \in U /\ R \in SUBSET S /\ R \subseteq U /\ R # U
  BY <1>2, <1>3, FirstIsIn
<1>5. SumFunctionOnSet(f, R) \in Nat
  BY <1>1, <1>4
<1>6. f[First(U)] \in Nat
  BY <1>2, <1>4
<1> QED BY <1>2, <1>3, <1>5, <1>6

\* The order does not matter: any element can be taken out.
LEMMA SumTakesOut ==
  ASSUME NEW f, NEW S, IsFiniteSet(S), \A x \in S : f[x] \in Nat, NEW e \in S
  PROVE  SumFunctionOnSet(f, S) = f[e] + SumFunctionOnSet(f, S \ {e})
<1> DEFINE sum(U) == SumFunctionOnSet(f, U)
           T == {U \in SUBSET S : \E x \in U : sum(U) # f[x] + sum(U \ {x})}
<1> SUFFICES ASSUME T # {} PROVE FALSE
  OBVIOUS
<1>1. PICK U \in T : \A V \in T : V \subseteq U => V = U
  <2>1. T \subseteq SUBSET S
    OBVIOUS
  <2> HIDE DEF T
  <2> QED BY <2>1, Smallest
<1>2. U \in SUBSET S /\ IsFiniteSet(U)
  BY <1>1, FS_Subset
<1>3. PICK x \in U : sum(U) # f[x] + sum(U \ {x})
  BY <1>1
<1> DEFINE p == First(U)
<1>4. p \in U /\ sum(U) = f[p] + sum(U \ {p})
  BY <1>2, <1>3, SumInOrder, FirstIsIn
<1> HIDE DEF p
<1>5. p # x
  BY <1>3, <1>4
<1>6. \A V \in SUBSET U : V # U => \A y \in V : sum(V) = f[y] + sum(V \ {y})
  BY <1>1, <1>2
<1> HIDE DEF T
<1>7. sum(U \ {p}) = f[x] + sum((U \ {p}) \ {x})
  <2>1. U \ {p} \in SUBSET U /\ U \ {p} # U /\ x \in U \ {p}
    BY <1>3, <1>4, <1>5
  <2> HIDE DEF sum
  <2> QED BY <1>6, <2>1
<1>8. sum(U \ {x}) = f[p] + sum((U \ {x}) \ {p})
  <2>1. U \ {x} \in SUBSET U /\ U \ {x} # U /\ p \in U \ {x}
    BY <1>3, <1>4, <1>5
  <2> HIDE DEF sum
  <2> QED BY <1>6, <2>1
<1> DEFINE W == (U \ {p}) \ {x}
<1>9. (U \ {x}) \ {p} = W
  OBVIOUS
<1>10. sum(W) \in Nat /\ f[p] \in Nat /\ f[x] \in Nat
  <2>1. IsFiniteSet(W) /\ W \subseteq S
    BY <1>2, FS_Subset
  <2>2. sum(W) \in Nat
    BY <2>1, SumIsNat
  <2> QED BY <1>2, <1>3, <1>4, <2>2
<1> HIDE DEF sum, W
<1> QED BY <1>3, <1>4, <1>7, <1>8, <1>9, <1>10 DEF W

\* A sum depends on the values over its set.
LEMMA SumOfSame ==
  ASSUME NEW f, NEW g, NEW S, IsFiniteSet(S), \A x \in S : f[x] = g[x]
  PROVE  SumFunctionOnSet(f, S) = SumFunctionOnSet(g, S)
<1> DEFINE T == {U \in SUBSET S : SumFunctionOnSet(f, U) # SumFunctionOnSet(g, U)}
<1> SUFFICES ASSUME T # {} PROVE FALSE
  OBVIOUS
<1>1. PICK U \in T : \A V \in T : V \subseteq U => V = U
  <2>1. T \subseteq SUBSET S
    OBVIOUS
  <2> HIDE DEF T
  <2> QED BY <2>1, Smallest
<1>2. U \in SUBSET S /\ SumFunctionOnSet(f, U) # SumFunctionOnSet(g, U) /\ IsFiniteSet(U)
  BY <1>1, FS_Subset
<1>3. U # {}
  BY <1>2, SumInOrder
<1> DEFINE R == U \ {First(U)}
<1>4. /\ SumFunctionOnSet(f, U) = f[First(U)] + SumFunctionOnSet(f, R)
      /\ SumFunctionOnSet(g, U) = g[First(U)] + SumFunctionOnSet(g, R)
  BY <1>2, <1>3, SumInOrder
<1>5. First(U) \in U /\ R \in SUBSET S /\ R \subseteq U /\ R # U
  BY <1>2, <1>3, FirstIsIn
<1>6. SumFunctionOnSet(f, R) = SumFunctionOnSet(g, R)
  BY <1>1, <1>5
<1> QED BY <1>2, <1>4, <1>5, <1>6

\* One value of a sum changes.
LEMMA SumChanges ==
  ASSUME NEW f, NEW g, NEW S, IsFiniteSet(S), NEW e \in S,
         \A x \in S : f[x] \in Nat /\ g[x] \in Nat,
         \A x \in S \ {e} : f[x] = g[x]
  PROVE  /\ SumFunctionOnSet(f, S) \in Nat /\ SumFunctionOnSet(f, S) >= f[e]
         /\ SumFunctionOnSet(g, S) = SumFunctionOnSet(f, S) - f[e] + g[e]
<1> DEFINE R == S \ {e}
<1>1. IsFiniteSet(R) /\ R \subseteq S
  BY FS_RemoveElement
<1>2. SumFunctionOnSet(f, R) = SumFunctionOnSet(g, R)
  BY <1>1, SumOfSame
<1>3. SumFunctionOnSet(f, R) \in Nat
  BY <1>1, SumIsNat
<1>4. /\ SumFunctionOnSet(f, S) = f[e] + SumFunctionOnSet(f, R)
      /\ SumFunctionOnSet(g, S) = g[e] + SumFunctionOnSet(g, R)
  BY SumTakesOut
<1>5. f[e] \in Nat /\ g[e] \in Nat
  OBVIOUS
<1> HIDE DEF R
<1> QED BY <1>2, <1>3, <1>4, <1>5

\* A sum gets one more summand.
LEMMA SumGrows ==
  ASSUME NEW f, NEW g, NEW S, IsFiniteSet(S), NEW e, e \notin S,
         \A x \in S : f[x] = g[x], \A x \in S \cup {e} : g[x] \in Nat
  PROVE  SumFunctionOnSet(g, S \cup {e}) = SumFunctionOnSet(f, S) + g[e]
<1> DEFINE B == S \cup {e}
<1>1. IsFiniteSet(B) /\ e \in B /\ B \ {e} = S
  BY FS_AddElement
<1>2. SumFunctionOnSet(g, B) = g[e] + SumFunctionOnSet(g, B \ {e})
  BY <1>1, SumTakesOut
<1>3. SumFunctionOnSet(g, S) = SumFunctionOnSet(f, S)
  BY SumOfSame
<1>4. SumFunctionOnSet(g, S) \in Nat /\ g[e] \in Nat
  BY SumIsNat
<1>5. SumFunctionOnSet(g, B) = g[e] + SumFunctionOnSet(f, S)
  BY <1>1, <1>2, <1>3
<1>6. g[e] + SumFunctionOnSet(f, S) = SumFunctionOnSet(f, S) + g[e]
  BY <1>3, <1>4
<1> HIDE DEF B
<1>7. SumFunctionOnSet(g, B) = SumFunctionOnSet(f, S) + g[e]
  BY <1>5, <1>6
<1> QED BY <1>7 DEF B

----------------------------------------------------------------------------
USE AmountsAssumption, CapAssumption, ClockAssumption, NullAssumption
DEF AmountsAssumption, CapAssumption, ClockAssumption, NullAssumption

\* The UTC day of the current instant is a day of the calendar.
LEMMA TodayIsADay ==
  ASSUME TypeOK
  PROVE  Today \in Days /\ Today \in Nat /\ Days \subseteq Nat
BY DEF TypeOK, Today, Days

\* armAlarm() leaves an instant or nothing in the alarm, whatever it found there.
LEMMA ArmType ==
  ASSUME NEW current \in Nat \cup {Null}, Arm(current),
         row' \in [Ids -> Reservation \cup {Null}]
  PROVE  alarm' \in Nat \cup {Null} /\ torn' \in BOOLEAN
<1>1. Deadlines(row') \subseteq Nat
  BY DEF Deadlines, Reservation
<1> QED BY <1>1 DEF Arm

\* armAlarm() covers every open reservation of the table it was run on.
LEMMA ArmCovers ==
  ASSUME NEW current \in Nat \cup {Null}, Arm(current),
         row' \in [Ids -> Reservation \cup {Null}],
         NEW i \in Ids, row'[i] # Null, row'[i].settled = Null
  PROVE  alarm' # Null /\ alarm' <= row'[i].expires
<1>1. row'[i].expires \in Deadlines(row') /\ Deadlines(row') \subseteq Nat
  BY DEF Deadlines, Reservation
<1> QED BY <1>1 DEF Arm

\* A forced settle keeps every row a row.
LEMMA ForceSettledType ==
  ASSUME row \in [Ids -> Reservation \cup {Null}]
  PROVE  ForceSettled(row) \in [Ids -> Reservation \cup {Null}]
<1> SUFFICES ASSUME NEW i \in Ids, row[i] # Null
             PROVE  [row[i] EXCEPT !.settled = row[i].estimate, !.forced = TRUE] \in Reservation
  BY DEF ForceSettled
<1>1. row[i] \in Reservation
  OBVIOUS
<1> QED BY <1>1 DEF Reservation

----------------------------------------------------------------------------
LEMMA InitTypeOK == Init => TypeOK
<1> SUFFICES ASSUME Init PROVE TypeOK
  OBVIOUS
<1>1. now \in 0..MaxNow
  BY DEF Init
<1>2. spent \in [Days -> Nat]
  BY DEF Init
<1>4. gens \in [Days -> Nat]
  BY DEF Init
<1>3. row \in [Ids -> Reservation \cup {Null}]
  BY DEF Init
<1> QED BY <1>1, <1>2, <1>3,<1>4 DEF Init, TypeOK

\* A refund is floored at zero.
LEMMA FlooredIsNat ==
  ASSUME NEW n \in Int
  PROVE  AtLeastZero(n) \in Nat
BY DEF AtLeastZero

\* The accepted reserve keeps every row a row.
LEMMA ReserveNewType ==
  ASSUME TypeOK, NEW j \in Jobs, NEW e \in Estimates, NEW i \in Ids, ReserveNew(j, e, i)
  PROVE  /\ row' \in [Ids -> Reservation \cup {Null}]
         /\ spent' \in [Days -> Nat] /\ gens' \in [Days -> Nat]
<1>1. Today \in Days
  BY TodayIsADay
<1>2. [job |-> j, estimate |-> e, settled |-> Null, forced |-> FALSE,
       day |-> Today, expires |-> now + TTL] \in Reservation
  BY <1>1 DEF Reservation, TypeOK
<1>3. row' \in [Ids -> Reservation \cup {Null}]
  BY <1>2 DEF ReserveNew, TypeOK
<1>4. spent' \in [Days -> Nat]
  <2> SUFFICES ASSUME NEW d \in Days
               PROVE  /\ spent[d] + e \in Nat /\ 0 \in Nat /\ spent[d] \in Nat
    BY DEF ReserveNew
  <2> QED BY DEF TypeOK
<1>5. gens' \in [Days -> Nat]
  <2> SUFFICES ASSUME NEW d \in Days
               PROVE  /\ gens[d] + 1 \in Nat /\ 0 \in Nat /\ gens[d] \in Nat
    BY DEF ReserveNew
  <2> QED BY DEF TypeOK
<1> QED BY <1>3, <1>4, <1>5

\* A settle keeps every row a row and every counter a natural.
LEMMA SettleType ==
  ASSUME TypeOK, NEW i \in Ids, NEW a \in Actuals, Settle(i, a)
  PROVE  /\ row' \in [Ids -> Reservation \cup {Null}]
         /\ spent' \in [Days -> Nat] /\ gens' \in [Days -> Nat]
<1>1. row[i] \in Reservation
  BY DEF Settle, Open, Rows, TypeOK
<1>2. [row[i] EXCEPT !.settled = a] \in Reservation
  BY <1>1 DEF Reservation
<1>3. row' \in [Ids -> Reservation \cup {Null}]
  BY <1>2 DEF Settle, TypeOK
<1>4. row[i].day \in Days /\ row[i].estimate \in Nat /\ a \in Nat
  BY <1>1 DEF Reservation
<1>5. spent[row[i].day] \in Nat /\ gens[row[i].day] \in Nat
  BY <1>4 DEF TypeOK
<1>6. /\ spent[row[i].day] - row[i].estimate + a \in Int
      /\ gens[row[i].day] - 1 \in Int
  BY <1>4, <1>5
<1>7. /\ AtLeastZero(spent[row[i].day] - row[i].estimate + a) \in Nat
      /\ AtLeastZero(gens[row[i].day] - 1) \in Nat
  BY ONLY <1>6, FlooredIsNat
<1>8. spent' \in [Days -> Nat]
  BY <1>7 DEF Settle, SettledDay, TypeOK
<1>9. gens' \in [Days -> Nat]
  BY <1>5, <1>7 DEF Settle, SettledDay, TypeOK
<1> QED BY <1>3, <1>8, <1>9

\* Every handler leaves well-formed rows and counters.
LEMMA NextTypeOK == TypeOK /\ [Next]_vars => TypeOK'
<1> SUFFICES ASSUME TypeOK, [Next]_vars PROVE TypeOK'
  OBVIOUS
<1>1. ASSUME NEW j \in Jobs, ReserveAgain(j) PROVE TypeOK'
  BY <1>1, ArmType DEF ReserveAgain, TypeOK
<1>2. ASSUME NEW j \in Jobs, NEW e \in Estimates, ReserveRefused(j, e) PROVE TypeOK'
  BY <1>2, ArmType DEF ReserveRefused, TypeOK
<1>3. ASSUME NEW j \in Jobs, NEW e \in Estimates, NEW i \in Ids, ReserveNew(j, e, i)
      PROVE  TypeOK'
  <2>1. /\ row' \in [Ids -> Reservation \cup {Null}]
        /\ spent' \in [Days -> Nat] /\ gens' \in [Days -> Nat]
    BY <1>3, ReserveNewType
  <2>2. alarm' \in Nat \cup {Null} /\ torn' \in BOOLEAN
    BY <1>3, <2>1, ArmType DEF ReserveNew, Cut, TypeOK
  <2> QED BY <1>3, <2>1, <2>2 DEF ReserveNew, TypeOK
<1>4. ASSUME NEW i \in Ids, NEW a \in Actuals, Settle(i, a) PROVE TypeOK'
  <2>1. /\ row' \in [Ids -> Reservation \cup {Null}]
        /\ spent' \in [Days -> Nat] /\ gens' \in [Days -> Nat]
    BY <1>4, SettleType
  <2>2. alarm' \in Nat \cup {Null} /\ torn' \in BOOLEAN
    BY <1>4, <2>1, ArmType DEF Settle, Cut, TypeOK
  <2> QED BY <1>4, <2>1, <2>2 DEF Settle, TypeOK
<1>5. CASE SettleMiss
  BY <1>5, ArmType DEF SettleMiss, TypeOK
<1>6. CASE Alarm
  <2>1. row' \in [Ids -> Reservation \cup {Null}]
    BY <1>6, ForceSettledType DEF Alarm, TypeOK
  <2> QED BY <1>6, <2>1, ArmType DEF Alarm, TypeOK
<1>7. CASE AlarmCut
  <2>1. row' \in [Ids -> Reservation \cup {Null}]
    BY <1>7, ForceSettledType DEF AlarmCut, TypeOK
  <2> QED BY <1>7, <2>1 DEF AlarmCut, Cut, TypeOK
<1>8. CASE Tick
  BY <1>8 DEF Tick, TypeOK
<1>9. CASE UNCHANGED vars
  BY <1>9 DEF vars, TypeOK
<1> QED BY <1>1, <1>2, <1>3, <1>4, <1>5, <1>6, <1>7, <1>8, <1>9 DEF Next

\* Every counter is a natural and every row well formed, for ever: no refund
\* drives a day's counter below zero.
THEOREM TypeCorrect == Spec => []TypeOK
<1>1. Init => TypeOK
  BY InitTypeOK
<1>2. TypeOK /\ [Next]_vars => TypeOK'
  BY NextTypeOK
<1> QED BY <1>1, <1>2, PTL DEF Spec

----------------------------------------------------------------------------
\* The volume ceiling holds in every reachable state: a day's generations rise
\* only in an accepted reserve, which checks the cap against the same counter
\* it charges, however many reservations a settle releases afterwards.
LEMMA NextVolume == TypeOK /\ VolumeWithinCap /\ [Next]_vars => VolumeWithinCap'
<1> SUFFICES ASSUME TypeOK, VolumeWithinCap, [Next]_vars, NEW d \in Days
             PROVE  gens'[d] <= GenerationCap
  BY DEF VolumeWithinCap
<1>0. gens \in [Days -> Nat] /\ gens[d] <= GenerationCap
  BY DEF TypeOK, VolumeWithinCap
<1>1. ASSUME NEW j \in Jobs, NEW e \in Estimates, NEW i \in Ids, ReserveNew(j, e, i)
      PROVE  gens'[d] <= GenerationCap
  <2>1. gens[Today] + 1 <= GenerationCap
    BY <1>1 DEF ReserveNew, Fits
  <2>2. gens'[d] \in {gens[Today] + 1, 0, gens[d]}
    BY <1>1 DEF ReserveNew
  <2> QED BY <1>0, <2>1, <2>2
<1>2. ASSUME NEW i \in Ids, NEW a \in Actuals, Settle(i, a)
      PROVE  gens'[d] <= GenerationCap
  <2>1. gens'[d] \in {gens[d], AtLeastZero(gens[d] - 1)}
    BY <1>2, <1>0 DEF Settle
  <2>2. AtLeastZero(gens[d] - 1) \in 0..gens[d]
    BY <1>0 DEF AtLeastZero
  <2> QED BY <1>0, <2>1, <2>2
<1>3. CASE UNCHANGED gens
  BY <1>0, <1>3
<1>4. \/ \E j \in Jobs, e \in Estimates, i \in Ids : ReserveNew(j, e, i)
      \/ \E i \in Ids, a \in Actuals : Settle(i, a)
      \/ UNCHANGED gens
  BY DEF Next, ReserveAgain, ReserveRefused, SettleMiss, Alarm, AlarmCut, Tick, vars
<1> QED BY <1>1, <1>2, <1>3, <1>4

\* The volume ceiling is never passed.
THEOREM VolumeCorrect == Spec => []VolumeWithinCap
<1>1. Init => VolumeWithinCap
  BY DEF Init, VolumeWithinCap
<1>2. TypeOK /\ VolumeWithinCap /\ [Next]_vars => VolumeWithinCap'
  BY NextVolume
<1> QED BY <1>1, <1>2, TypeCorrect, PTL DEF Spec

----------------------------------------------------------------------------
LEMMA NextOneOpen == TypeOK /\ OneOpenPerJob /\ [Next]_vars => OneOpenPerJob'
<1> SUFFICES ASSUME TypeOK, OneOpenPerJob, [Next]_vars,
                    NEW k \in Ids, NEW l \in Ids,
                    row'[k] # Null, row'[k].settled = Null,
                    row'[l] # Null, row'[l].settled = Null, row'[k].job = row'[l].job
             PROVE  k = l
  BY DEF OneOpenPerJob, Open, Rows
<1>0. ASSUME NEW m \in Ids, row[m] # Null
      PROVE  row[m] \in Reservation /\ row[m].estimate # Null
  BY <1>0 DEF TypeOK, Reservation
<1>1. ASSUME NEW j \in Jobs, NEW e \in Estimates, NEW i \in Ids, ReserveNew(j, e, i)
      PROVE  k = l
  <2>1. \A m \in Ids : row'[m] # Null /\ row'[m].settled = Null =>
          \/ m = i /\ row'[m].job = j
          \/ m # i /\ m \in Open /\ row'[m] = row[m]
    BY <1>1, <1>0 DEF ReserveNew, Open, Rows
  <2>2. \A m \in Open : row[m].job # j
    BY <1>1 DEF ReserveNew, HasOpen
  <2> QED BY <2>1, <2>2 DEF OneOpenPerJob
<1>2. ASSUME NEW i \in Ids, NEW a \in Actuals, Settle(i, a) PROVE k = l
  <2>1. a # Null /\ row[i] \in Reservation
    BY <1>2, <1>0 DEF Settle, Open, Rows
  <2>2. row'[i].settled = a
    BY <1>2, <2>1 DEF Settle, TypeOK, Reservation
  <2>3. \A m \in Ids : m # i => row'[m] = row[m]
    BY <1>2 DEF Settle, TypeOK
  <2> QED BY <2>1, <2>2, <2>3 DEF OneOpenPerJob, Open, Rows
<1>3. CASE Alarm \/ AlarmCut
  <2>1. \A m \in Ids : row'[m] # Null /\ row'[m].settled = Null =>
          m \in Open /\ row'[m] = row[m]
    <3> SUFFICES ASSUME NEW m \in Ids, row'[m] # Null, row'[m].settled = Null
                 PROVE  m \in Open /\ row'[m] = row[m]
      OBVIOUS
    <3>1. row' = ForceSettled(row)
      BY <1>3 DEF Alarm, AlarmCut
    <3>2. row[m] # Null
      BY <3>1 DEF ForceSettled
    <3>3. [row[m] EXCEPT !.settled = row[m].estimate, !.forced = TRUE].settled # Null
      BY <1>0, <3>2 DEF Reservation
    <3> QED BY <3>1, <3>2, <3>3 DEF ForceSettled, Open, Rows
  <2> QED BY <2>1 DEF OneOpenPerJob
<1>4. CASE UNCHANGED row
  BY <1>4 DEF OneOpenPerJob, Open, Rows
<1> QED BY <1>1, <1>2, <1>3, <1>4 DEF Next, ReserveAgain, ReserveRefused, SettleMiss,
                                      Tick, vars

\* A job never has two open reservations, however its dispatch is replayed.
THEOREM OneOpenCorrect == Spec => []OneOpenPerJob
<1>1. Init => OneOpenPerJob
  BY DEF Init, OneOpenPerJob, Open, Rows
<1>2. TypeOK /\ OneOpenPerJob /\ [Next]_vars => OneOpenPerJob'
  BY NextOneOpen
<1> QED BY <1>1, <1>2, TypeCorrect, PTL DEF Spec

----------------------------------------------------------------------------
LEMMA NextAlarmCovers == TypeOK /\ AlarmCoversOpen /\ [Next]_vars => AlarmCoversOpen'
<1> SUFFICES ASSUME TypeOK, AlarmCoversOpen, [Next]_vars, ~torn',
                    NEW i \in Ids, row'[i] # Null, row'[i].settled = Null
             PROVE  alarm' # Null /\ alarm' <= row'[i].expires
  BY DEF AlarmCoversOpen, Open, Rows
<1>0. row' \in [Ids -> Reservation \cup {Null}] /\ alarm \in Nat \cup {Null}
  BY NextTypeOK DEF TypeOK
<1>1. CASE Arm(alarm)
  BY <1>0, <1>1, ArmCovers
<1>2. CASE Arm(Null)
  BY <1>0, <1>2, ArmCovers
<1>3. CASE Cut
  BY <1>3 DEF Cut
<1>4. CASE UNCHANGED <<row, alarm, torn>>
  BY <1>4 DEF AlarmCoversOpen, Open, Rows
<1> QED BY <1>1, <1>2, <1>3, <1>4 DEF Next, ReserveAgain, ReserveRefused, ReserveNew, Settle,
                                      SettleMiss, Alarm, AlarmCut, Tick, vars

\* Whatever order reservations, settles and forced settles come in, the one
\* alarm stands at or before the deadline of every open reservation, unless the
\* latest handler was cut before it could move the alarm.
THEOREM AlarmCorrect == Spec => []AlarmCoversOpen
<1>1. Init => AlarmCoversOpen
  BY DEF Init, AlarmCoversOpen, Open, Rows
<1>2. TypeOK /\ AlarmCoversOpen /\ [Next]_vars => AlarmCoversOpen'
  BY NextAlarmCovers
<1> QED BY <1>1, <1>2, TypeCorrect, PTL DEF Spec

----------------------------------------------------------------------------
\* What one step may do to a reservation that is already in the table.
RowSteps(i) ==
  /\ row[i].settled # Null => row'[i] \in {row[i], Null}
  /\ row[i].settled = Null => row'[i] # Null

\* No step settles a settled row again or deletes an open one.
LEMMA NextSettledIsFinal ==
  TypeOK /\ [Next]_vars => \A i \in Rows : RowSteps(i)
<1> SUFFICES ASSUME TypeOK, [Next]_vars, NEW i \in Ids, row[i] # Null
             PROVE  RowSteps(i)
  BY DEF Rows
<1>0. row[i] \in Reservation
  BY DEF TypeOK
<1>1. ASSUME NEW j \in Jobs, NEW e \in Estimates, NEW k \in Ids, ReserveNew(j, e, k)
      PROVE  RowSteps(i)
  <2>1. k # i
    BY <1>1 DEF ReserveNew, Rows
  <2>2. row'[i] = IF i \in Rows \ Open /\ row[i].day < Cutoff THEN Null ELSE row[i]
    BY <1>1, <2>1 DEF ReserveNew
  <2> QED BY <2>2 DEF RowSteps, Rows, Open
<1>2. ASSUME NEW k \in Ids, NEW a \in Actuals, Settle(k, a)
      PROVE  RowSteps(i)
  <2>1. CASE k = i
    <3>1. row[i].settled = Null
      BY <1>2, <2>1 DEF Settle, Open
    <3>2. row'[i] = [row[i] EXCEPT !.settled = a]
      BY <1>2, <2>1 DEF Settle, TypeOK
    <3>3. [row[i] EXCEPT !.settled = a] \in Reservation
      BY <1>0 DEF Reservation
    <3> QED BY <3>1, <3>2, <3>3 DEF RowSteps
  <2>2. CASE k # i
    BY <1>2, <2>2 DEF Settle, TypeOK, RowSteps
  <2> QED BY <2>1, <2>2
<1>3. CASE row' = ForceSettled(row)
  <2>1. row' \in [Ids -> Reservation \cup {Null}]
    BY <1>3, ForceSettledType DEF TypeOK
  <2>2. [row[i] EXCEPT !.settled = row[i].estimate, !.forced = TRUE] \in Reservation
    BY <1>0 DEF Reservation
  <2> QED BY <1>3, <2>1, <2>2 DEF ForceSettled, RowSteps
<1>4. CASE UNCHANGED row
  BY <1>4 DEF RowSteps
<1> QED BY <1>1, <1>2, <1>3, <1>4 DEF Next, ReserveAgain, ReserveRefused, SettleMiss, Alarm,
                                      AlarmCut, Tick, vars

\* No order of settles, forced settles and prunes settles a reservation twice
\* or deletes one that is still open.
THEOREM SettledIsFinalCorrect == Spec => SettledIsFinal
<1>1. TypeOK /\ [Next]_vars =>
        [\A i \in Rows :
           /\ row[i].settled # Null => row'[i] \in {row[i], Null}
           /\ row[i].settled = Null => row'[i] # Null]_vars
  BY NextSettledIsFinal DEF RowSteps
<1> QED BY <1>1, TypeCorrect, PTL DEF Spec, SettledIsFinal
----------------------------------------------------------------------------
LEMMA NextMovesOpeningDay ==
  ASSUME TypeOK, Next, NEW i \in Open, row'[i] # Null, row'[i].settled # Null,
         NEW d \in Days \ {row[i].day}
  PROVE  spent'[d] = spent[d] /\ gens'[d] = gens[d]
<1>0. i \in Ids /\ row[i] # Null /\ row[i].settled = Null
  BY DEF Open, Rows
<1>1. ASSUME NEW j \in Jobs, NEW e \in Estimates, NEW k \in Ids, ReserveNew(j, e, k)
      PROVE  FALSE
  <2>1. row'[i] = row[i]
    BY <1>0, <1>1 DEF ReserveNew, Rows
  <2> QED BY <1>0, <2>1
<1>2. ASSUME NEW k \in Ids, NEW a \in Actuals, Settle(k, a)
      PROVE  spent'[d] = spent[d] /\ gens'[d] = gens[d]
  <2>1. CASE k = i
    BY <1>2, <2>1 DEF Settle, SettledDay, TypeOK
  <2>2. CASE k # i
    <3>1. row'[i] = row[i]
      BY <1>2, <2>2 DEF Settle, TypeOK
    <3> QED BY <1>0, <3>1
  <2> QED BY <2>1, <2>2
<1>3. CASE UNCHANGED <<spent, gens>>
  BY <1>3
<1> QED BY <1>1, <1>2, <1>3 DEF Next, ReserveAgain, ReserveRefused, SettleMiss, Alarm,
                                AlarmCut, Tick

\* Whenever a reservation is settled, by its caller, late, or by the alarm, no
\* day but the one it was opened on moves.
THEOREM OpeningDayCorrect == Spec => SettleMovesOpeningDay
<1>1. TypeOK /\ [Next]_vars =>
        [\A i \in Open : row'[i] # Null /\ row'[i].settled # Null =>
           \A d \in Days \ {row[i].day} : spent'[d] = spent[d] /\ gens'[d] = gens[d]]_vars
  BY NextMovesOpeningDay
<1> QED BY <1>1, TypeCorrect, PTL DEF Spec, SettleMovesOpeningDay

----------------------------------------------------------------------------
\* The day's account.

\* What the handlers keep of one retained day: the two counters are the sums of
\* its rows, and the ceiling is passed by overruns only.
DayOK(d) ==
  /\ spent[d] = SumFunction([i \in RowsOn(d) |-> Charge(row[i])])
  /\ gens[d] = Cardinality({i \in RowsOn(d) : HoldsSlot(row[i])})
  /\ spent[d] <= SpendCap + SumFunction([i \in RowsOn(d) |-> Overrun(row[i])])

\* The table is finite, and only the alarm marks a row as forced.
Accounts ==
  /\ IsFiniteSet(Rows)
  /\ \A i \in Open : ~ row[i].forced
  /\ \A d \in Retained : DayOK(d)

\* A row charges, overruns and holds what its amounts say.
LEMMA Amounts ==
  ASSUME NEW r \in Reservation
  PROVE  Charge(r) \in Nat /\ Overrun(r) \in Nat
BY DEF Charge, Overrun, AtLeastZero, Reservation

\* A day none of whose rows changes what it charges, and whose counters stay.
LEMMA KeptDay ==
  ASSUME NEW d, DayOK(d), spent'[d] = spent[d], gens'[d] = gens[d], RowsOn(d)' = RowsOn(d),
         \A i \in RowsOn(d) : /\ Charge(row'[i]) = Charge(row[i])
                              /\ Overrun(row'[i]) = Overrun(row[i])
                              /\ HoldsSlot(row'[i]) <=> HoldsSlot(row[i])
  PROVE  DayOK(d)'
<1>1. [i \in RowsOn(d)' |-> Charge(row'[i])] = [i \in RowsOn(d) |-> Charge(row[i])]
  OBVIOUS
<1>2. [i \in RowsOn(d)' |-> Overrun(row'[i])] = [i \in RowsOn(d) |-> Overrun(row[i])]
  OBVIOUS
<1>3. {i \in RowsOn(d)' : HoldsSlot(row'[i])} = {i \in RowsOn(d) : HoldsSlot(row[i])}
  OBVIOUS
<1> QED BY <1>1, <1>2, <1>3 DEF DayOK

\* Days leave the retention window and never come back.
LEMMA WindowMoves ==
  ASSUME TypeOK, now' \in {now, now + 1}, now' \in 0..MaxNow
  PROVE  Retained' \subseteq Retained
<1>1. DayOf[now] <= DayOf[now'] /\ DayOf[now] \in Nat /\ DayOf[now'] \in Nat
  BY DEF TypeOK
<1>2. ASSUME NEW d \in Days, d >= Cutoff'
      PROVE  d >= Cutoff
  <2>1. d \in Nat
    BY TodayIsADay
  <2> QED BY <1>1, <1>2, <2>1 DEF Cutoff, Today
<1> QED BY <1>2 DEF Retained

\* A step that leaves table and counters alone.
LEMMA IdleAccounts ==
  ASSUME TypeOK, Accounts, UNCHANGED <<spent, gens, row>>, now' \in {now, now + 1},
         now' \in 0..MaxNow
  PROVE  Accounts'
<1>1. Rows' = Rows /\ Open' = Open
  BY DEF Rows, Open
<1>2. ASSUME NEW d \in Retained'
      PROVE  DayOK(d)'
  <2>1. d \in Retained
    BY WindowMoves
  <2>2. DayOK(d) /\ RowsOn(d)' = RowsOn(d)
    BY <1>1, <2>1 DEF Accounts, RowsOn
  <2> QED BY <2>2, KeptDay
<1> QED BY <1>1, <1>2 DEF Accounts

\* A forced settle charges the estimate, and keeps the slot.
LEMMA ForcedAccounts ==
  ASSUME TypeOK, Accounts, UNCHANGED <<now, spent, gens>>, row' = ForceSettled(row)
  PROVE  Accounts'
<1>1. row \in [Ids -> Reservation \cup {Null}] /\ row' \in [Ids -> Reservation \cup {Null}]
  BY ForceSettledType DEF TypeOK
<1>2. ASSUME NEW i \in Rows
      PROVE  /\ i \in Rows' /\ row'[i].day = row[i].day
             /\ Charge(row'[i]) = Charge(row[i]) /\ Overrun(row'[i]) = Overrun(row[i])
             /\ HoldsSlot(row'[i]) <=> HoldsSlot(row[i])
             /\ row'[i].settled = Null => row'[i] = row[i]
  <2> DEFINE r == row[i]
             f == [r EXCEPT !.settled = r.estimate, !.forced = TRUE]
  <2>1. r \in Reservation /\ i \in Ids
    BY <1>1 DEF Rows
  <2>2. row'[i] = r \/ (r.settled = Null /\ row'[i] = f)
    BY <2>1 DEF ForceSettled
  <2>3. /\ f \in Reservation /\ f.settled = r.estimate /\ f.forced /\ f.day = r.day
        /\ r.estimate \in Nat /\ f.estimate = r.estimate
    BY <2>1 DEF Reservation
  <2> HIDE DEF r, f
  <2>4. r.settled = Null =>
          /\ Charge(f) = Charge(r) /\ Overrun(f) = Overrun(r)
          /\ HoldsSlot(f) <=> HoldsSlot(r)
    <3>1. r.settled = Null => Charge(f) = Charge(r) /\ Overrun(f) = Overrun(r)
      BY <2>3 DEF Charge, Overrun, AtLeastZero
    <3>2. r.settled = Null => HoldsSlot(f) /\ HoldsSlot(r)
      BY <2>3 DEF HoldsSlot
    <3> QED BY <3>1, <3>2
  <2>5. row'[i] # Null
    BY <2>1, <2>2, <2>3
  <2>6. CASE row'[i] = r
    BY <2>1, <2>5, <2>6 DEF r, Rows
  <2>7. CASE r.settled = Null /\ row'[i] = f
    <3>1. f.settled # Null
      BY <2>3
    <3> QED BY <2>1, <2>3, <2>4, <2>5, <2>7, <3>1 DEF r, Rows
  <2> QED BY <2>2, <2>6, <2>7
<1>3. Rows' = Rows
  <2>1. \A i \in Ids : row[i] = Null => row'[i] = Null
    BY DEF ForceSettled
  <2> QED BY <1>2, <2>1 DEF Rows
<1>4. ASSUME NEW d \in Retained'
      PROVE  DayOK(d)'
  <2>1. d \in Retained
    BY DEF Retained, Cutoff, Today
  <2>2. RowsOn(d)' = RowsOn(d)
    BY <1>2, <1>3 DEF RowsOn
  <2>3. \A i \in RowsOn(d) : i \in Rows
    BY DEF RowsOn
  <2>4. DayOK(d)
    BY <2>1 DEF Accounts
  <2> QED BY <1>2, <2>2, <2>3, <2>4, KeptDay
<1>5. \A i \in Open' : ~ row'[i].forced
  BY <1>2, <1>3 DEF Open, Accounts
<1> QED BY <1>3, <1>4, <1>5 DEF Accounts

\* The row a reserve writes charges its estimate to today.
LEMMA ReservedToday ==
  ASSUME TypeOK, Accounts, NEW j \in Jobs, NEW e \in Estimates, NEW i \in Ids,
         ReserveNew(j, e, i), NEW d, d = Today
  PROVE  DayOK(d)'
<1> DEFINE S == RowsOn(d)
           new == [job |-> j, estimate |-> e, settled |-> Null, forced |-> FALSE,
                   day |-> d, expires |-> now + TTL]
<1>1. d \in Days /\ d \in Nat /\ d \in Retained /\ Cutoff <= d /\ ~ (d < Cutoff)
  <2>1. d \in Days /\ d \in Nat
    BY TodayIsADay
  <2>2. d - Retention \in Int /\ d - Retention <= d /\ d >= d - Retention /\ ~ (d < d - Retention)
    BY <2>1
  <2> QED BY <2>1, <2>2 DEF Retained, Cutoff
<1>2. DayOK(d)
  BY <1>1 DEF Accounts
<1>3. /\ i \notin Rows /\ Fits(e) /\ e \in Nat
      /\ spent'[d] = spent[d] + e /\ gens'[d] = gens[d] + 1
  BY <1>1 DEF ReserveNew
<1>4. new \in Reservation
  BY <1>1 DEF Reservation, TypeOK
<1>5. row'[i] = new
  BY DEF ReserveNew
<1>6. ASSUME NEW k \in S
      PROVE  /\ row'[k] = row[k] /\ row[k] \in Reservation
             /\ k \in Ids /\ k # i
  <2>1. k \in Ids /\ k \in Rows /\ row[k].day = d /\ row[k] # Null
    BY DEF RowsOn, Rows
  <2>2. ~ (d < Cutoff) /\ k # i
    BY <1>1, <1>3, <2>1 DEF Cutoff
  <2>3. row'[k] = row[k]
    BY <2>1, <2>2 DEF ReserveNew
  <2> QED BY <2>1, <2>2, <2>3 DEF TypeOK
<1>7. RowsOn(d)' = S \cup {i}
  <2>1. \A k \in Ids : k # i => row'[k] \in {row[k], Null}
    BY DEF ReserveNew
  <2>2. i \in RowsOn(d)'
    BY <1>3, <1>4, <1>5 DEF RowsOn, Rows
  <2>3. \A k \in S : k \in RowsOn(d)'
    <3>1. \A k \in S : row'[k] # Null /\ row'[k].day = d
      BY <1>6 DEF RowsOn, Rows
    <3> QED BY <1>3, <1>6, <3>1 DEF RowsOn, Rows
  <2>4. \A k \in RowsOn(d)' : k = i \/ k \in S
    BY <1>3, <2>1 DEF RowsOn, Rows
  <2> QED BY <2>2, <2>3, <2>4
<1>8. IsFiniteSet(S) /\ i \notin S
  <2>1. S \subseteq Rows
    BY DEF RowsOn
  <2> QED BY <1>3, <2>1, FS_Subset DEF Accounts
<1> DEFINE B == S \cup {i}
           c == [k \in S |-> Charge(row[k])]
           cc == [k \in B |-> Charge(row'[k])]
           o == [k \in S |-> Overrun(row[k])]
           oo == [k \in B |-> Overrun(row'[k])]
<1> HIDE DEF new
<1>9. /\ \A k \in S : c[k] = cc[k] /\ o[k] = oo[k]
      /\ \A k \in B : cc[k] \in Nat /\ oo[k] \in Nat
  <2>1. \A k \in B : row'[k] \in Reservation
    BY <1>4, <1>5, <1>6
  <2> HIDE DEF S
  <2>2. \A k \in B : cc[k] \in Nat /\ oo[k] \in Nat
    BY <2>1, Amounts
  <2> QED BY <1>6, <2>2
<1>10. cc[i] = e /\ oo[i] = 0
  BY <1>5 DEF Charge, Overrun, new
<1> HIDE DEF S
<1>11. /\ SumFunctionOnSet(cc, B) = SumFunctionOnSet(c, S) + e
       /\ SumFunctionOnSet(oo, B) = SumFunctionOnSet(o, S) + 0
       /\ SumFunctionOnSet(o, S) \in Nat
  <2> HIDE DEF c, cc, o, oo
  <2>1. SumFunctionOnSet(cc, B) = SumFunctionOnSet(c, S) + cc[i]
    BY <1>8, <1>9, SumGrows
  <2>2. SumFunctionOnSet(oo, B) = SumFunctionOnSet(o, S) + oo[i]
    BY <1>8, <1>9, SumGrows
  <2>3. \A k \in S : o[k] \in Nat
    BY <1>9
  <2>4. SumFunctionOnSet(o, S) \in Nat
    BY <1>8, <2>3, SumIsNat
  <2> QED BY <1>10, <2>1, <2>2, <2>4
<1>12. /\ SumFunction(c) = SumFunctionOnSet(c, S) /\ SumFunction(cc) = SumFunctionOnSet(cc, B)
       /\ SumFunction(o) = SumFunctionOnSet(o, S) /\ SumFunction(oo) = SumFunctionOnSet(oo, B)
  BY DEF SumFunction
<1> DEFINE H == {k \in S : HoldsSlot(row[k])}
           HH == {k \in B : HoldsSlot(row'[k])}
<1>13. Cardinality(HH) = Cardinality(H) + 1
  <2>1. HoldsSlot(row'[i])
    BY <1>5 DEF HoldsSlot, new
  <2>2. HH = H \cup {i} /\ i \notin H
    BY <1>6, <1>8, <2>1
  <2>3. IsFiniteSet(H)
    BY <1>8, FS_Subset
  <2> QED BY <2>2, <2>3, FS_AddElement
<1>14. spent[d] = SumFunction(c) /\ gens[d] = Cardinality(H)
  BY <1>2 DEF DayOK, S
<1>15. spent[d] + e <= SpendCap /\ spent[d] \in Nat
  BY <1>1, <1>3 DEF Fits, TypeOK
<1> HIDE DEF c, cc, o, oo, H, HH
<1>16. /\ spent'[d] = SumFunction(cc) /\ gens'[d] = Cardinality(HH)
       /\ spent'[d] <= SpendCap + SumFunction(oo)
  BY <1>3, <1>11, <1>12, <1>13, <1>14, <1>15
<1> QED BY <1>7, <1>16 DEF DayOK, cc, oo, HH, B

\* A reserve leaves the account of every other retained day alone.
LEMMA ReserveAccounts ==
  ASSUME TypeOK, Accounts, NEW j \in Jobs, NEW e \in Estimates, NEW i \in Ids,
         ReserveNew(j, e, i)
  PROVE  Accounts'
<1>1. Retained' = Retained /\ Today' = Today
  BY DEF ReserveNew, Retained, Cutoff, Today
<1>2. i \notin Rows /\ \A k \in Ids : k # i => row'[k] \in {row[k], Null}
  BY DEF ReserveNew
<1>3. ASSUME NEW d \in Retained, d # Today
      PROVE  DayOK(d)'
  <2>1. d \in Days /\ ~ (d < Cutoff) /\ DayOK(d)
    <3>1. d \in Days /\ d \in Nat /\ d >= Cutoff /\ Cutoff \in Int
      BY TodayIsADay DEF Retained, Cutoff
    <3> QED BY <3>1 DEF Accounts
  <2>2. spent'[d] = spent[d] /\ gens'[d] = gens[d]
    BY <1>3, <2>1 DEF ReserveNew
  <2>3. ASSUME NEW k \in RowsOn(d)
        PROVE  k \in RowsOn(d)' /\ row'[k] = row[k]
    <3>1. k \in Ids /\ k \in Rows /\ row[k].day = d /\ row[k] # Null /\ k # i
      BY <1>2 DEF RowsOn, Rows
    <3>2. row'[k] = row[k]
      BY <2>1, <3>1 DEF ReserveNew
    <3> QED BY <3>1, <3>2 DEF RowsOn, Rows
  <2>4. row'[i].day = Today
    BY DEF ReserveNew
  <2>5. RowsOn(d)' = RowsOn(d)
    <3>1. \A k \in RowsOn(d)' : k \in RowsOn(d)
      BY <1>2, <1>3, <2>4 DEF RowsOn, Rows
    <3> QED BY <2>3, <3>1
  <2> QED BY <2>1, <2>2, <2>3, <2>5, KeptDay
<1>4. \A d : d = Today => DayOK(d)'
  BY ReservedToday
<1>5. \A d \in Retained' : DayOK(d)'
  BY <1>1, <1>3, <1>4
<1>6. IsFiniteSet(Rows')
  <2>1. Rows' \subseteq Rows \cup {i}
    BY <1>2 DEF Rows
  <2>2. IsFiniteSet(Rows \cup {i})
    BY FS_AddElement DEF Accounts
  <2> QED BY <2>1, <2>2, FS_Subset
<1>7. \A k \in Open' : ~ row'[k].forced
  <2>1. ~ row'[i].forced
    BY DEF ReserveNew
  <2> QED BY <1>2, <2>1 DEF Open, Rows, Accounts
<1> QED BY <1>5, <1>6, <1>7 DEF Accounts

\* The settled row charges what it cost to the day it was opened on.
LEMMA SettledDayOK ==
  ASSUME TypeOK, Accounts, NEW i \in Ids, NEW a \in Actuals, Settle(i, a),
         NEW d \in Retained, d = row[i].day
  PROVE  DayOK(d)'
<1> DEFINE r == row[i]
           n == [r EXCEPT !.settled = a]
           S == RowsOn(d)
           c == [k \in S |-> Charge(row[k])]
           cc == [k \in S |-> Charge(row'[k])]
           o == [k \in S |-> Overrun(row[k])]
           oo == [k \in S |-> Overrun(row'[k])]
           H == {k \in S : HoldsSlot(row[k])}
           HH == {k \in S : HoldsSlot(row'[k])}
<1>1. /\ r \in Reservation /\ r.settled = Null /\ ~ r.forced /\ i \in Rows /\ a \in Nat
      /\ r.estimate \in Nat /\ d \in Days
  BY DEF Settle, Open, Rows, TypeOK, Accounts, Reservation
<1>2. /\ n \in Reservation /\ n.settled = a /\ n.estimate = r.estimate /\ n.forced = r.forced
      /\ n.day = d
  BY <1>1 DEF Reservation
<1>3. row'[i] = n /\ \A k \in Ids : k # i => row'[k] = row[k]
  BY DEF Settle, TypeOK
<1>4. /\ spent'[d] = AtLeastZero(spent[d] - r.estimate + a)
      /\ gens'[d] = IF a > 0 THEN gens[d] ELSE AtLeastZero(gens[d] - 1)
      /\ spent[d] \in Nat /\ gens[d] \in Nat
  BY <1>1 DEF Settle, SettledDay, TypeOK
<1>5. DayOK(d)
  BY DEF Accounts
<1>6. i \in S /\ \A k \in S : k \in Ids /\ k \in Rows /\ row[k] \in Reservation
  BY <1>1 DEF RowsOn, Rows, TypeOK
<1>7. IsFiniteSet(S)
  <2>1. S \subseteq Rows
    BY DEF RowsOn
  <2> QED BY <2>1, FS_Subset DEF Accounts
<1> HIDE DEF n
<1>8. ASSUME NEW x
      PROVE  (x \in Rows /\ row[x].day = d) <=> (x \in Rows' /\ row'[x].day = d)
  <2>1. n # Null
    BY <1>2
  <2>2. CASE x = i
    BY <1>1, <1>2, <1>3, <2>1, <2>2 DEF Rows
  <2>3. CASE x # i
    BY <1>3, <2>3 DEF Rows
  <2> QED BY <2>2, <2>3
<1>9. /\ Charge(n) = a /\ Charge(r) = r.estimate /\ Overrun(r) = 0
      /\ Overrun(n) = AtLeastZero(a - r.estimate)
      /\ HoldsSlot(r) /\ (HoldsSlot(n) <=> a > 0)
  <2>1. a # Null
    BY <1>1
  <2>2. Charge(n) = a /\ Charge(r) = r.estimate /\ Overrun(r) = 0
        /\ Overrun(n) = AtLeastZero(a - r.estimate)
    BY <1>1, <1>2, <2>1 DEF Charge, Overrun
  <2>3. HoldsSlot(r)
    BY <1>1 DEF HoldsSlot
  <2>4. HoldsSlot(n) <=> a > 0
    BY <1>1, <1>2, <2>1 DEF HoldsSlot
  <2> QED BY <2>2, <2>3, <2>4
<1>10. \A k \in S : k # i => row'[k] = row[k]
  BY <1>3, <1>6
<1>11. \A k \in S : /\ c[k] \in Nat /\ cc[k] \in Nat /\ o[k] \in Nat /\ oo[k] \in Nat
                    /\ k # i => c[k] = cc[k] /\ o[k] = oo[k]
  <2>1. \A k \in S : row[k] \in Reservation /\ row'[k] \in Reservation
    BY <1>2, <1>3, <1>6, <1>10
  <2> HIDE DEF S
  <2>2. \A k \in S : c[k] \in Nat /\ cc[k] \in Nat /\ o[k] \in Nat /\ oo[k] \in Nat
    BY <2>1, Amounts
  <2> QED BY <1>10, <2>2
<1>12. c[i] = r.estimate /\ cc[i] = a /\ o[i] = 0 /\ oo[i] = AtLeastZero(a - r.estimate)
  BY <1>3, <1>6, <1>9
<1>13. spent[d] = SumFunctionOnSet(c, S) /\ gens[d] = Cardinality(H)
       /\ spent[d] <= SpendCap + SumFunctionOnSet(o, S)
  BY <1>5 DEF DayOK, SumFunction
<1>14. Cardinality(H) \in Nat /\ Cardinality(H) > 0
       /\ Cardinality(HH) = IF a > 0 THEN Cardinality(H) ELSE Cardinality(H) - 1
  <2>1. i \in H /\ IsFiniteSet(H)
    BY <1>6, <1>7, <1>9, FS_Subset
  <2>2. Cardinality(H) \in Nat /\ Cardinality(H) # 0
    BY <2>1, FS_CardinalityType, FS_EmptySet
  <2>3. CASE a > 0
    <3>1. HH = H
      BY <1>3, <1>9, <1>10, <2>3
    <3> HIDE DEF H, HH
    <3> QED BY <2>2, <2>3, <3>1
  <2>4. CASE ~ (a > 0)
    <3>1. HH = H \ {i}
      BY <1>3, <1>9, <1>10, <2>4
    <3>2. Cardinality(H \ {i}) = Cardinality(H) - 1
      BY <2>1, FS_RemoveElement
    <3> HIDE DEF H, HH
    <3> QED BY <2>2, <2>4, <3>1, <3>2
  <2> QED BY <2>3, <2>4
<1> HIDE DEF S, c, cc, o, oo, H, HH
<1>15. /\ SumFunctionOnSet(c, S) \in Nat /\ SumFunctionOnSet(c, S) >= c[i]
       /\ SumFunctionOnSet(cc, S) = SumFunctionOnSet(c, S) - c[i] + cc[i]
  BY <1>6, <1>7, <1>11, SumChanges
<1>16. /\ SumFunctionOnSet(o, S) \in Nat
       /\ SumFunctionOnSet(oo, S) = SumFunctionOnSet(o, S) - o[i] + oo[i]
  BY <1>6, <1>7, <1>11, SumChanges
<1>17. spent'[d] = SumFunctionOnSet(cc, S)
  BY <1>1, <1>4, <1>12, <1>13, <1>15 DEF AtLeastZero
<1>18. gens'[d] = Cardinality(HH)
  BY <1>1, <1>4, <1>13, <1>14 DEF AtLeastZero
<1>19. spent'[d] <= SpendCap + SumFunctionOnSet(oo, S)
  BY <1>1, <1>4, <1>12, <1>13, <1>16 DEF AtLeastZero
<1>20. RowsOn(d)' = S
  BY <1>8 DEF RowsOn, S
<1>21. SumFunction(cc) = SumFunctionOnSet(cc, S) /\ SumFunction(oo) = SumFunctionOnSet(oo, S)
  BY DEF SumFunction, cc, oo
<1> QED BY <1>17, <1>18, <1>19, <1>20, <1>21 DEF DayOK, cc, oo, HH

\* A settle leaves the account of every day but its reservation's alone.
LEMMA SettleAccounts ==
  ASSUME TypeOK, Accounts, NEW i \in Ids, NEW a \in Actuals, Settle(i, a)
  PROVE  Accounts'
<1> DEFINE n == [row[i] EXCEPT !.settled = a]
<1>1. /\ Retained' = Retained
      /\ i \in Open /\ row[i] \in Reservation /\ row[i].day \in Days /\ a \in Nat
  BY DEF Settle, Retained, Cutoff, Today, Open, Rows, TypeOK, Reservation
<1>2. n \in Reservation /\ n.settled = a /\ n.day = row[i].day
  BY <1>1 DEF Reservation
<1>3. row'[i] = n /\ \A k \in Ids : k # i => row'[k] = row[k]
  BY DEF Settle, TypeOK
<1> HIDE DEF n
<1>4. n # Null /\ n.settled # Null
  BY <1>1, <1>2
<1>5. Rows' = Rows /\ Open' \subseteq Open /\ \A k \in Open' : k # i /\ row'[k] = row[k]
  BY <1>1, <1>3, <1>4 DEF Rows, Open
<1>6. ASSUME NEW d \in Retained
      PROVE  DayOK(d)'
  <2>1. CASE d = row[i].day
    BY <2>1, SettledDayOK
  <2>2. CASE d # row[i].day
    <3>1. spent'[d] = spent[d] /\ gens'[d] = gens[d]
      BY <2>2 DEF Settle, SettledDay, Retained, TypeOK
    <3>2. \A k \in Rows : k # i => row'[k] = row[k]
      BY <1>3 DEF Rows
    <3>3. row'[i].day = row[i].day
      BY <1>2, <1>3
    <3>4. RowsOn(d)' = RowsOn(d) /\ \A k \in RowsOn(d) : row'[k] = row[k]
      BY <1>5, <2>2, <3>2, <3>3 DEF RowsOn
    <3>5. DayOK(d)
      BY DEF Accounts
    <3> QED BY <3>1, <3>4, <3>5, KeptDay
  <2> QED BY <2>1, <2>2
<1> QED BY <1>1, <1>5, <1>6 DEF Accounts

\* Every handler, the alarm and midnight keep the account.
LEMMA NextAccounts == TypeOK /\ TypeOK' /\ Accounts /\ [Next]_vars => Accounts'
<1> SUFFICES ASSUME TypeOK, TypeOK', Accounts, [Next]_vars PROVE Accounts'
  OBVIOUS
<1>1. now' \in 0..MaxNow
  BY DEF TypeOK
<1>2. CASE \E j \in Jobs, e \in Estimates, i \in Ids : ReserveNew(j, e, i)
  BY <1>2, ReserveAccounts
<1>3. CASE \E i \in Ids, a \in Actuals : Settle(i, a)
  BY <1>3, SettleAccounts
<1>4. CASE row' = ForceSettled(row) /\ UNCHANGED <<now, spent, gens>>
  BY <1>4, ForcedAccounts
<1>5. CASE UNCHANGED <<spent, gens, row>> /\ now' \in {now, now + 1}
  BY <1>1, <1>5, IdleAccounts
<1> QED BY <1>2, <1>3, <1>4, <1>5
        DEF Next, ReserveAgain, ReserveRefused, SettleMiss, Alarm, AlarmCut, Tick, vars

\* Nothing is charged at first.
LEMMA InitAccounts == Init => Accounts
<1> SUFFICES ASSUME Init PROVE Accounts
  OBVIOUS
<1>1. Rows = {}
  BY DEF Init, Rows
<1>2. ASSUME NEW d \in Retained
      PROVE  DayOK(d)
  <2>1. RowsOn(d) = {}
    BY <1>1 DEF RowsOn
  <2> DEFINE c == [i \in RowsOn(d) |-> Charge(row[i])]
             o == [i \in RowsOn(d) |-> Overrun(row[i])]
  <2>2. DOMAIN c = {} /\ DOMAIN o = {}
    BY <2>1
  <2>3. \A f : SumFunctionOnSet(f, {}) = 0
    BY FS_EmptySet, SumInOrder
  <2>4. SumFunction(c) = 0 /\ SumFunction(o) = 0
    <3> HIDE DEF c, o
    <3> QED BY <2>2, <2>3 DEF SumFunction
  <2>5. {i \in RowsOn(d) : HoldsSlot(row[i])} = {}
    BY <2>1
  <2>6. d \in Days
    BY DEF Retained
  <2>7. spent[d] = 0 /\ gens[d] = 0
    BY <2>6 DEF Init
  <2> HIDE DEF c, o
  <2>8. spent[d] = SumFunction(c) /\ spent[d] <= SpendCap + SumFunction(o)
    BY <2>4, <2>7
  <2>9. gens[d] = Cardinality({i \in RowsOn(d) : HoldsSlot(row[i])})
    BY <2>5, <2>7, FS_EmptySet
  <2> QED BY <2>8, <2>9 DEF DayOK, c, o
<1> QED BY <1>1, <1>2, FS_EmptySet DEF Accounts, Open

\* The counters are the table's in every reachable state: reserve(), settle(),
\* forceSettleExpired() and pruneDays(), for any number of reservations.
THEOREM AccountsHold == Spec => []Accounts
<1>1. TypeOK /\ TypeOK' /\ Accounts /\ [Next]_vars => Accounts'
  BY NextAccounts
<1> QED BY <1>1, InitAccounts, TypeCorrect, PTL DEF Spec

\* Whatever order settles, forced settles, midnights and prunes come in, a day's
\* counters are exactly the sum of the reservations opened on it.
THEOREM AccountingCorrect == Spec => []DayAccountsForReservations
<1>1. Accounts => DayAccountsForReservations
  BY DEF Accounts, DayOK, DayAccountsForReservations
<1> QED BY <1>1, AccountsHold, PTL

\* However many runs are reserved at once, a day's spend ceiling is passed by no
\* more than its runs cost above their estimates.
THEOREM OverspendCorrect == Spec => []OverspendIsOverrun
<1>1. Accounts => OverspendIsOverrun
  BY DEF Accounts, DayOK, OverspendIsOverrun
<1> QED BY <1>1, AccountsHold, PTL

=============================================================================

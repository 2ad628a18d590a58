-------------------------- MODULE PolicyRefreshProofs --------------------------
(***************************************************************************)
(* Proofs about PolicyRefresh, for any interval, maximum backoff and       *)
(* staleness, deadlines, pauses and set-backs of the clock.                *)
(***************************************************************************)
EXTENDS PolicyRefresh, DataProofs

LEMMA MaxOfTwo ==
    ASSUME NEW a \in Nat, NEW b \in Nat
    PROVE  Max({a, b}) = IF a >= b THEN a ELSE b
BY DEF Max

LEMMA LeastOfTwo ==
    ASSUME NEW a \in Nat, NEW b \in Nat
    PROVE  Min({a, b}) = IF a <= b THEN a ELSE b
BY DEF Min

LEMMA OneMore ==
    ASSUME NEW n \in Nat, NEW cap \in Nat
    PROVE  /\ Min({n + 1, cap}) \in 0..cap
           /\ Min({n + 1, cap}) <= n + 1
           /\ Min({n + 1, cap}) = n + 1 \/ Min({n + 1, cap}) = cap
BY DEF Min

\* jitter never makes a delay longer, nor negative.
LEMMA JitterShortens ==
    ASSUME NEW d \in Nat \ {0}
    PROVE  Jitter(d) \subseteq 0..d
<1>1. d \div 4 \in Nat /\ d \div 4 <= d
  OBVIOUS
<1>2. Max({d \div 4, 1}) \in Nat /\ Max({d \div 4, 1}) <= d
  BY <1>1, MaxOfTwo
<1> QED BY <1>2 DEF Jitter

\* The next delay is not shorter, and is not past the maximum.
LEMMA BackoffGrows ==
    ASSUME NEW d \in Nat, d <= MaxBackoff
    PROVE  Backoff(d) \in Nat /\ d <= Backoff(d) /\ Backoff(d) <= MaxBackoff
<1>1. MaxBackoff \in Nat /\ 2 * (MaxBackoff \div 2) <= MaxBackoff
  BY RunArguments
<1> QED BY <1>1 DEF Backoff

------------------------------------------------------------------------------
\* A reader that was admitted has an age that its snapshot had when it was
\* fresh, set-backs included, and the time since.
ReaderIsTimely ==
    /\ reader.pc = "admitted" =>
        /\ reader.spent <= Pause
        /\ reader.age < MaxStaleness + MaxSetBack + reader.spent
    /\ reader.pc = "evaluating" =>
        reader.age < MaxStaleness + MaxSetBack + Pause + reader.spent

Inv == TypeOK /\ BackoffIsBounded /\ ReaderIsTimely /\ DecisionAgeIsBounded

LEMMA InitInv == Init => Inv
BY RunArguments
   DEF Init, Inv, TypeOK, BackoffIsBounded, ReaderIsTimely, DecisionAgeIsBounded, NoReader

\* The loop leaves readers alone.
LEMMA RunStep ==
    ASSUME Inv, RefreshSucceeds \/ RefreshFails \/ TimerFires
    PROVE  Inv'
<1> USE RunArguments DEF Inv
<1>1. ReaderIsTimely' /\ DecisionAgeIsBounded'
  BY DEF RefreshSucceeds, RefreshFails, TimerFires, ReaderIsTimely, DecisionAgeIsBounded
<1>2. CASE RefreshSucceeds
  <2>1. age' \in 0..AgeCap
    BY <1>2 DEF RefreshSucceeds, TypeOK
  <2> QED BY <1>1, <1>2, <2>1 DEF RefreshSucceeds, TypeOK, BackoffIsBounded
<1>3. CASE RefreshFails
  <2>1. delay \in Nat \ {0} /\ delay <= MaxBackoff
    BY DEF BackoffIsBounded, TypeOK
  <2>2. left' \in 0..delay
    BY <1>3, <2>1, JitterShortens DEF RefreshFails
  <2>3. delay' \in Nat /\ delay <= delay' /\ delay' <= MaxBackoff
    BY <1>3, <2>1, BackoffGrows DEF RefreshFails
  <2>4. TypeOK'
    BY <1>3, <2>1, <2>2, <2>3 DEF RefreshFails, TypeOK
  <2>5. BackoffIsBounded'
    BY <2>1, <2>2, <2>3 DEF BackoffIsBounded
  <2> QED BY <1>1, <2>4, <2>5
<1>4. CASE TimerFires
  BY <1>1, <1>4 DEF TimerFires, TypeOK, BackoffIsBounded
<1> QED BY <1>2, <1>3, <1>4

LEMMA EvaluateStep ==
    ASSUME Inv, Admit \/ Begin \/ Decide \/ Done
    PROVE  Inv'
<1> USE RunArguments DEF Inv
<1>1. BackoffIsBounded'
  BY DEF Admit, Begin, Decide, Done, BackoffIsBounded
<1>2. CASE Admit
  <2>1. age \in Nat /\ back \in Nat /\ age < MaxStaleness + back /\ back <= MaxSetBack
    BY <1>2 DEF Admit, Ready, TypeOK
  <2> QED BY <1>1, <1>2, <2>1 DEF Admit, TypeOK, ReaderIsTimely, DecisionAgeIsBounded
<1>3. CASE Begin
  <2>1. /\ reader.age \in 0..AgeCap /\ reader.spent \in Nat
        /\ reader.age < MaxStaleness + MaxSetBack + Pause
    BY <1>3 DEF Begin, TypeOK, ReaderIsTimely
  <2>2. /\ reader'.pc = "evaluating" /\ reader'.age = reader.age
        /\ reader'.spent = 0
        /\ reader' \in [pc: {"idle", "admitted", "evaluating", "decided"},
                        age: 0..AgeCap, spent: Nat]
    BY <1>3, <2>1 DEF Begin, TypeOK
  <2>3. TypeOK'
    BY <1>3, <2>2 DEF Begin, TypeOK
  <2> QED BY <1>1, <2>1, <2>2, <2>3 DEF ReaderIsTimely, DecisionAgeIsBounded
<1>4. CASE Decide
  BY <1>1, <1>4 DEF Decide, TypeOK, ReaderIsTimely, DecisionAgeIsBounded
<1>5. CASE Done
  BY <1>1, <1>5 DEF Done, NoReader, TypeOK, ReaderIsTimely, DecisionAgeIsBounded
<1> QED BY <1>2, <1>3, <1>4, <1>5

\* With every tick the age and the time spent grow together, up to AgeCap.
LEMMA TickStep ==
    ASSUME Inv, Tick
    PROVE  Inv'
<1> USE RunArguments DEF Inv
<1>1. age \in Nat /\ reader.age \in Nat /\ reader.spent \in Nat /\ AgeCap \in Nat
  BY DEF TypeOK
<1> DEFINE older == Min({reader.age + 1, AgeCap})
           longer == Min({reader.spent + 1, AgeCap})
<1>2. /\ older \in 0..AgeCap /\ older <= reader.age + 1
      /\ longer \in 0..AgeCap /\ longer <= reader.spent + 1
      /\ longer = reader.spent + 1 \/ longer = AgeCap
  BY ONLY <1>1, OneMore, Zenon
<1>3. age' \in 0..AgeCap
  <2>1. Min({age + 1, AgeCap}) \in 0..AgeCap
    BY ONLY <1>1, OneMore, Zenon
  <2> QED BY <2>1 DEF Tick
<1>4. BackoffIsBounded'
  BY DEF Tick, TypeOK, BackoffIsBounded
<1>5. CASE reader.pc \in {"admitted", "evaluating"}
  <2>1. reader' = [reader EXCEPT !.age = older, !.spent = longer]
    BY <1>5 DEF Tick
  <2>2. older \in 0..AgeCap /\ longer \in Nat
    BY ONLY <1>1, <1>2
  <2>3. reader \in [pc: {"idle", "admitted", "evaluating", "decided"},
                   age: 0..AgeCap, spent: Nat]
    BY DEF TypeOK
  <2> HIDE DEF older, longer
  <2>4. /\ reader'.pc = reader.pc
        /\ reader'.age = older /\ reader'.spent = longer
        /\ reader' \in [pc: {"idle", "admitted", "evaluating", "decided"},
                        age: 0..AgeCap, spent: Nat]
    BY ONLY <2>1, <2>2, <2>3
  <2>5. TypeOK'
    BY <1>3, <2>4 DEF Tick, TypeOK
  <2>6. ReaderIsTimely'
    <3>1. CASE reader.pc = "admitted"
      <4>1. reader.spent < Pause
        BY <1>1, <3>1 DEF Tick, ReaderIsTimely
      <4> QED BY <1>1, <1>2, <2>4, <3>1, <4>1 DEF ReaderIsTimely
    <3>2. CASE reader.pc = "evaluating"
      BY <1>1, <1>2, <2>4, <3>2 DEF ReaderIsTimely
    <3> QED BY <1>5, <3>1, <3>2
  <2>7. DecisionAgeIsBounded'
    BY <1>5, <2>4 DEF DecisionAgeIsBounded
  <2> QED BY <1>4, <2>5, <2>6, <2>7
<1>6. CASE reader.pc \notin {"admitted", "evaluating"}
  <2>1. reader' = reader
    BY <1>6 DEF Tick
  <2>2. TypeOK'
    BY <1>3, <2>1 DEF Tick, TypeOK
  <2> QED BY <1>4, <2>1, <2>2 DEF ReaderIsTimely, DecisionAgeIsBounded
<1> QED BY <1>5, <1>6

LEMMA InvStep ==
    ASSUME Inv, [Next]_vars
    PROVE  Inv'
<1>1. CASE SetBack
  BY <1>1, RunArguments
     DEF SetBack, Inv, TypeOK, BackoffIsBounded, ReaderIsTimely, DecisionAgeIsBounded
<1>2. CASE UNCHANGED vars
  BY <1>2 DEF vars, Inv, TypeOK, BackoffIsBounded, ReaderIsTimely, DecisionAgeIsBounded
<1> QED BY <1>1, <1>2, RunStep, EvaluateStep, TickStep DEF Next

LEMMA InvHolds == Spec => []Inv
BY InitInv, InvStep, PTL DEF Spec

------------------------------------------------------------------------------
(* Theorems.                                                               *)

\* Ages, delays and timers keep their ranges.
THEOREM TypeCorrect == Spec => []TypeOK
<1>1. Inv => TypeOK
  BY DEF Inv
<1> QED BY <1>1, InvHolds, PTL

\* Whatever maximum Run is given, doubling never passes it, the backoff never
\* falls below the interval, and jitter never makes a wait longer.
THEOREM BackoffBounded == Spec => []BackoffIsBounded
<1>1. Inv => BackoffIsBounded
  BY DEF Inv
<1> QED BY <1>1, InvHolds, PTL

\* No decision is later than the maximum staleness by more than the set-back of
\* the clock, the pause before the evaluation and its deadline.
THEOREM DecisionsAreTimely == Spec => []DecisionAgeIsBounded
<1>1. Inv => DecisionAgeIsBounded
  BY DEF Inv
<1> QED BY <1>1, InvHolds, PTL

------------------------------------------------------------------------------
(* The age of a policy that is polled.                                     *)

\* Doubled and Waits are what their equations say.
LEMMA DoubledUnfolds ==
    /\ Doubled[0] = Interval /\ \A k \in Nat : Doubled[k] \in Nat
    /\ \A k \in Nat : Doubled[k + 1] = 2 * Doubled[k]
<1> DEFINE step == [n \in Nat |-> [v \in Nat |-> 2 * v]]
<1>1. Interval \in Nat
  BY RunArguments
<1>2. step \in Steps(Nat) /\ \A n, v \in Nat : step[n][v] = 2 * v
  BY DEF Steps
<1> HIDE DEF step
<1>3. PICK f : Recurs(f, Nat, Interval, step)
  BY <1>1, <1>2, Recursion
<1>4. \A n \in Nat : f[n + 1] = 2 * f[n]
  BY <1>2, <1>3 DEF Recurs
<1>5. f = [k \in Nat |-> IF k = 0 THEN Interval ELSE 2 * f[k - 1]]
  <2>1. ASSUME NEW k \in Nat
        PROVE  f[k] = IF k = 0 THEN Interval ELSE 2 * f[k - 1]
    <3>1. k # 0 => k - 1 \in Nat /\ (k - 1) + 1 = k
      OBVIOUS
    <3>2. k # 0 => f[k] = 2 * f[k - 1]
      BY <1>4, <3>1
    <3> QED BY <1>3, <3>2 DEF Recurs
  <2> QED BY <1>3, <2>1 DEF Recurs
<1>6. Doubled = [k \in Nat |-> IF k = 0 THEN Interval ELSE 2 * Doubled[k - 1]]
  BY <1>5 DEF Doubled
<1>7. Doubled[0] = Interval /\ \A k \in Nat : Doubled[k + 1] = 2 * Doubled[k]
  <2>1. \A k \in Nat : Doubled[k] = IF k = 0 THEN Interval ELSE 2 * Doubled[k - 1]
    BY <1>6
  <2>2. \A k \in Nat : k + 1 \in Nat /\ k + 1 # 0 /\ (k + 1) - 1 = k
    OBVIOUS
  <2> QED BY <2>1, <2>2
<1>8. \A k \in Nat : Doubled[k] \in Nat
  <2> DEFINE T == {k \in Nat : Doubled[k] \in Nat}
  <2>1. 0 \in T /\ \A k \in Nat : k \in T => k + 1 \in T
    BY <1>1, <1>7
  <2> HIDE DEF T
  <2>2. \A k \in Nat : k \in T
    BY <2>1, Induction
  <2> QED BY <2>2 DEF T
<1> QED BY <1>7, <1>8

LEMMA WaitsUnfold ==
    /\ Waits[0] = 0 /\ \A k \in Nat : Waits[k] \in Nat
    /\ \A k \in Nat : Waits[k + 1] = Waits[k] + Min({Doubled[k], MaxBackoff})
<1> DEFINE wait(k) == Min({Doubled[k], MaxBackoff})
           step == [n \in Nat |-> [v \in Nat |-> v + wait(n)]]
<1>1. \A k \in Nat : wait(k) \in Nat
  <2>1. \A k \in Nat : Doubled[k] \in Nat
    BY DoubledUnfolds
  <2> QED BY <2>1, RunArguments, LeastOfTwo
<1> HIDE DEF wait
<1>2. step \in Steps(Nat) /\ \A n, v \in Nat : step[n][v] = v + wait(n)
  BY <1>1 DEF Steps
<1> HIDE DEF step
<1>3. PICK f : Recurs(f, Nat, 0, step)
  BY <1>2, Recursion
<1>4. \A n \in Nat : f[n + 1] = f[n] + wait(n)
  BY <1>2, <1>3 DEF Recurs
<1>5. f = [k \in Nat |-> IF k = 0 THEN 0 ELSE f[k - 1] + wait(k - 1)]
  <2>1. ASSUME NEW k \in Nat
        PROVE  f[k] = IF k = 0 THEN 0 ELSE f[k - 1] + wait(k - 1)
    <3>1. k # 0 => k - 1 \in Nat /\ (k - 1) + 1 = k
      OBVIOUS
    <3>2. k # 0 => f[k] = f[k - 1] + wait(k - 1)
      BY <1>4, <3>1
    <3> QED BY <1>3, <3>2 DEF Recurs
  <2> QED BY <1>3, <2>1 DEF Recurs
<1>6. Waits = [k \in Nat |-> IF k = 0 THEN 0 ELSE Waits[k - 1] + wait(k - 1)]
  BY <1>5 DEF Waits, wait
<1>7. Waits[0] = 0 /\ \A k \in Nat : Waits[k + 1] = Waits[k] + wait(k)
  <2>1. \A k \in Nat : Waits[k] = IF k = 0 THEN 0 ELSE Waits[k - 1] + wait(k - 1)
    BY <1>6
  <2>2. \A k \in Nat : k + 1 \in Nat /\ k + 1 # 0 /\ (k + 1) - 1 = k
    OBVIOUS
  <2> QED BY <2>1, <2>2
<1>8. \A k \in Nat : Waits[k] \in Nat
  <2> DEFINE T == {k \in Nat : Waits[k] \in Nat}
  <2>1. 0 \in T /\ \A k \in Nat : k \in T => k + 1 \in T
    BY <1>1, <1>7
  <2> HIDE DEF T
  <2>2. \A k \in Nat : k \in T
    BY <2>1, Induction
  <2> QED BY <2>2 DEF T
<1> QED BY <1>7, <1>8 DEF wait

\* The delay after k failures, and the longest wait before the refresh that ends
\* them: an interval and a refresh, and a wait and a refresh for each failure.
DelayAfter(k) == Min({Doubled[k], MaxBackoff})

LongestWait(k) == (Interval + FetchTime) + Waits[k] + k * FetchTime

LEMMA DelaysDouble ==
    /\ DelayAfter(0) = Interval
    /\ \A k \in Nat : DelayAfter(k) \in Nat /\ Backoff(DelayAfter(k)) = DelayAfter(k + 1)
<1>1. DelayAfter(0) = Interval
  BY DoubledUnfolds, RunArguments, LeastOfTwo DEF DelayAfter
<1>2. ASSUME NEW k \in Nat
      PROVE  DelayAfter(k) \in Nat /\ Backoff(DelayAfter(k)) = DelayAfter(k + 1)
  <2> DEFINE d == Doubled[k]
  <2>1. d \in Nat /\ 2 * d \in Nat /\ Doubled[k + 1] = 2 * d /\ MaxBackoff \in Nat
    BY DoubledUnfolds, RunArguments
  <2> HIDE DEF d
  <2>2. /\ DelayAfter(k) = IF d <= MaxBackoff THEN d ELSE MaxBackoff
        /\ DelayAfter(k + 1) = IF 2 * d <= MaxBackoff THEN 2 * d ELSE MaxBackoff
    BY <2>1, LeastOfTwo DEF DelayAfter, d
  <2> QED BY <2>1, <2>2 DEF Backoff
<1> QED BY <1>1, <1>2

LEMMA LongestWaitGrows ==
    /\ LongestWait(0) = Interval + FetchTime
    /\ \A k \in Nat :
        /\ LongestWait(k) \in Nat
        /\ LongestWait(k + 1) = LongestWait(k) + DelayAfter(k) + FetchTime
<1>1. Interval \in Nat /\ FetchTime \in Nat
  BY RunArguments
<1>2. LongestWait(0) = Interval + FetchTime
  BY <1>1, WaitsUnfold DEF LongestWait
<1>3. ASSUME NEW k \in Nat
      PROVE  /\ LongestWait(k) \in Nat
             /\ LongestWait(k + 1) = LongestWait(k) + DelayAfter(k) + FetchTime
  <2>1. /\ Waits[k] \in Nat /\ DelayAfter(k) \in Nat
        /\ Waits[k + 1] = Waits[k] + DelayAfter(k)
    BY WaitsUnfold, DelaysDouble DEF DelayAfter
  <2>2. k * FetchTime \in Nat /\ (k + 1) * FetchTime = k * FetchTime + FetchTime
    BY <1>1
  <2> QED BY <1>1, <2>1, <2>2 DEF LongestWait
<1> QED BY <1>2, <1>3

\* The inductive invariant: the age and what is left of the wait, or of the
\* refresh, stay together within the longest wait of so many failures.
AgeInv ==
    /\ delay = DelayAfter(failures)
    /\ loop = "fetching" => left <= FetchTime
    /\ age < AgeCap =>
        age + left <= LongestWait(failures) + (IF loop = "fetching" THEN FetchTime ELSE 0)

LEMMA AgeTypes ==
    ASSUME Inv
    PROVE  /\ failures \in Nat /\ age \in Nat /\ left \in Nat /\ delay \in Nat \ {0}
           /\ Interval \in Nat /\ FetchTime \in Nat /\ AgeCap \in Nat
           /\ LongestWait(failures) \in Nat
           /\ loop \in {"fetching", "waiting"}
<1>1. failures \in Nat /\ age \in Nat /\ left \in Nat /\ delay \in Nat \ {0}
  BY RunArguments DEF Inv, TypeOK, BackoffIsBounded
<1> QED BY <1>1, RunArguments, LongestWaitGrows DEF Inv, TypeOK

LEMMA InitAge == Init => AgeInv
<1> SUFFICES ASSUME Init
             PROVE  AgeInv
  OBVIOUS
<1>1. AgeCap \in Nat /\ FetchTime \in Nat
  BY RunArguments
<1> QED BY <1>1, DelaysDouble DEF Init, AgeInv

LEMMA SucceedsAge ==
    ASSUME Inv, AgeInv, RefreshSucceeds
    PROVE  AgeInv'
<1>1. /\ loop' = "waiting" /\ left' = Interval /\ delay' = Interval /\ failures' = 0
      /\ age' \in 0..(FetchTime - left)
  BY DEF RefreshSucceeds
<1>2. age' + left' <= LongestWait(failures')
  BY <1>1, AgeTypes, LongestWaitGrows
<1> QED BY <1>1, <1>2, DelaysDouble, AgeTypes, LongestWaitGrows DEF AgeInv

LEMMA FailsAge ==
    ASSUME Inv, AgeInv, RefreshFails
    PROVE  AgeInv'
<1>1. /\ loop = "fetching" /\ loop' = "waiting" /\ left' \in Jitter(delay)
      /\ delay' = Backoff(delay) /\ failures' = failures + 1 /\ age' = age
  BY DEF RefreshFails
<1>2. left' \in 0..delay
  BY <1>1, AgeTypes, JitterShortens
<1>3. delay' = DelayAfter(failures')
  BY <1>1, AgeTypes, DelaysDouble DEF AgeInv
<1>4. LongestWait(failures') = LongestWait(failures) + delay + FetchTime
  BY <1>1, AgeTypes, LongestWaitGrows DEF AgeInv
<1>5. age' < AgeCap => age' + left' <= LongestWait(failures')
  BY <1>1, <1>2, <1>4, AgeTypes DEF AgeInv
<1>6. LongestWait(failures') \in Nat
  BY <1>4, AgeTypes
<1> QED BY <1>1, <1>3, <1>5, <1>6, AgeTypes DEF AgeInv

LEMMA AgeStep ==
    ASSUME Inv, AgeInv, [Next]_vars
    PROVE  AgeInv'
<1>1. CASE TimerFires
  <2>1. /\ loop = "waiting" /\ left = 0 /\ loop' = "fetching" /\ left' = FetchTime
        /\ UNCHANGED <<delay, failures, age>>
    BY <1>1 DEF TimerFires
  <2> QED BY <2>1, AgeTypes DEF AgeInv, DelayAfter, LongestWait
<1>2. CASE Tick
  <2>1. left > 0 /\ left' = left - 1 /\ age' = Min({age + 1, AgeCap})
        /\ UNCHANGED <<loop, delay, failures>>
    BY <1>2 DEF Tick
  <2>2. age' < AgeCap => age' = age + 1 /\ age < AgeCap
    BY <2>1, AgeTypes, LeastOfTwo
  <2>3. LongestWait(failures)' = LongestWait(failures) /\ DelayAfter(failures)' = DelayAfter(failures)
    BY <2>1 DEF LongestWait, DelayAfter
  <2> QED BY <2>1, <2>2, <2>3, AgeTypes DEF AgeInv
<1>3. CASE Admit \/ Begin \/ Decide \/ Done \/ SetBack \/ UNCHANGED vars
  <2>1. UNCHANGED <<loop, left, delay, failures, age>>
    BY <1>3 DEF Admit, Begin, Decide, Done, SetBack, vars
  <2> QED BY <2>1 DEF AgeInv, LongestWait, DelayAfter
<1> QED BY <1>1, <1>2, <1>3, SucceedsAge, FailsAge DEF Next

\* Polling bounds the age of the policy by the failures since the last success,
\* for any interval, maximum and number of failures.
THEOREM PollingKeepsFresh == Spec => []PollingBoundsAge
<1>1. ASSUME Inv, AgeInv
      PROVE  PollingBoundsAge
  <2>1. LongestWait(failures) + FetchTime = AgeBound
    <3>1. failures * FetchTime \in Nat /\ (failures + 2) * FetchTime = failures * FetchTime + FetchTime + FetchTime
      BY AgeTypes, <1>1
    <3>2. Waits[failures] \in Nat
      BY AgeTypes, <1>1, WaitsUnfold
    <3> QED BY <3>1, <3>2, AgeTypes, <1>1 DEF LongestWait, AgeBound
  <2> QED BY <2>1, <1>1, AgeTypes DEF AgeInv, PollingBoundsAge
<1>2. Spec => []AgeInv
  BY InitAge, AgeStep, InvHolds, PTL DEF Spec
<1> QED BY <1>1, <1>2, InvHolds, PTL
==============================================================================

----------------------------- MODULE PolicyRefresh -----------------------------
(***************************************************************************)
(* The timing of the policy lifecycle: Manager.Run polls a source with     *)
(* bounded exponential backoff and jitter, Manager.Status calls a snapshot *)
(* stale when its last refresh is too old, and Manager.Evaluate checks     *)
(* that before it starts an evaluation with a deadline of its own.         *)
(*                                                                         *)
(* Time is counted in ticks since the events that matter; ages stop at     *)
(* AgeCap, which stands for "long ago" and for "never refreshed".  What a  *)
(* refresh does to disk and memory is PolicyManager's subject: here it     *)
(* succeeds or fails.                                                      *)
(***************************************************************************)
EXTENDS Naturals, FiniteSetsExt

CONSTANTS
    Interval, MaxBackoff,   \* arguments of Run
    MaxStaleness,           \* of the Manager
    EvaluationTimeout,      \* deadline of one evaluation
    FetchTime,              \* deadline of one refresh
    Pause,                  \* ticks the scheduler may put between check and use
    MaxFailures,            \* bound: refreshes that fail in a row
    MaxSetBack,             \* bound: ticks the wall clock is set back meanwhile
    AgeCap                  \* bound: ages are not counted beyond it

\* Run refuses other arguments with invalid_refresh.
ASSUME RunArguments ==
    /\ Interval \in Nat \ {0}
    /\ MaxBackoff \in Nat /\ MaxBackoff >= Interval
    /\ MaxStaleness \in Nat \ {0}
    /\ AgeCap \in Nat /\ AgeCap >= FetchTime
    /\ AgeCap > MaxStaleness + EvaluationTimeout + Pause + MaxSetBack
    /\ MaxSetBack \in Nat /\ MaxFailures \in Nat
    /\ FetchTime \in Nat /\ Pause \in Nat /\ EvaluationTimeout \in Nat

VARIABLES
    loop,       \* what Run does: "fetching" or "waiting" for its timer
    left,       \* ticks until the fetch deadline or the timer
    delay,      \* Run's backoff
    failures,   \* refreshes that failed since the last success
    age,        \* ticks since the active snapshot's RefreshedAt
    back,       \* ticks the wall clock has been set back since then
    reader      \* one evaluation: where it is, its snapshot's age, its own time

vars == <<loop, left, delay, failures, age, back, reader>>

NoReader == [pc |-> "idle", age |-> 0, spent |-> 0]

TypeOK ==
    /\ loop \in {"fetching", "waiting"}
    /\ left \in 0..(FetchTime + MaxBackoff)
    /\ delay \in Nat
    /\ failures \in 0..MaxFailures
    /\ age \in 0..AgeCap
    /\ back \in 0..MaxSetBack
    /\ reader \in [pc: {"idle", "admitted", "evaluating", "decided"},
                   age: 0..AgeCap, spent: Nat]

Init ==
    /\ loop = "fetching"
    /\ left = FetchTime
    /\ delay = Interval
    /\ failures = 0
    /\ age = AgeCap
    /\ back = 0
    /\ reader = NoReader

------------------------------------------------------------------------------
(* Run.                                                                    *)

\* jitter takes up to a quarter off, and nothing off a delay under four.
Jitter(d) == {d - n : n \in 0..(Max({d \div 4, 1}) - 1)}

\* Mutant of Backoff: no maximum.
BackoffUncapped(d) == 2 * d

\* Mutant of Backoff: the maximum is tested before doubling only.
BackoffLate(d) == IF d >= MaxBackoff THEN MaxBackoff ELSE 2 * d

\* Doubled, and never past the maximum.
Backoff(d) == IF d > MaxBackoff \div 2 THEN MaxBackoff ELSE 2 * d

\* Mutant of RefreshSucceeds: the backoff of earlier failures is kept.
RefreshKeepsDelay ==
    /\ loop = "fetching"
    /\ loop' = "waiting"
    /\ left' = Interval
    /\ failures' = 0
    /\ age' \in 0..(FetchTime - left)
    /\ back' \in 0..back
    /\ UNCHANGED <<delay, reader>>

\* Mutant of RefreshSucceeds: RefreshedAt is not renewed.
RefreshKeepsAge ==
    /\ loop = "fetching"
    /\ loop' = "waiting"
    /\ left' = Interval
    /\ delay' = Interval
    /\ failures' = 0
    /\ UNCHANGED <<age, back, reader>>

\* RefreshedAt is the time of the answer, somewhere within the refresh; the
\* clock may have been set back after that.
RefreshSucceeds ==
    /\ loop = "fetching"
    /\ loop' = "waiting"
    /\ left' = Interval
    /\ delay' = Interval
    /\ failures' = 0
    /\ age' \in 0..(FetchTime - left)
    /\ back' \in 0..back
    /\ UNCHANGED reader

RefreshFails ==
    /\ loop = "fetching" /\ failures < MaxFailures
    /\ loop' = "waiting"
    /\ left' \in Jitter(delay)
    /\ delay' = Backoff(delay)
    /\ failures' = failures + 1
    /\ UNCHANGED <<age, back, reader>>

TimerFires ==
    /\ loop = "waiting" /\ left = 0
    /\ loop' = "fetching"
    /\ left' = FetchTime
    /\ UNCHANGED <<delay, failures, age, back, reader>>

------------------------------------------------------------------------------
(* Evaluate.                                                               *)

\* RefreshedAt is a wall clock time: a clock that was set back shows a shorter
\* time since then, and a negative one is refused.
Ready == age >= back /\ age - back < MaxStaleness

Admit ==
    /\ reader.pc = "idle" /\ Ready
    /\ reader' = [pc |-> "admitted", age |-> age, spent |-> 0]
    /\ UNCHANGED <<loop, left, delay, failures, age, back>>

\* Explain starts its own deadline.
Begin ==
    /\ reader.pc = "admitted"
    /\ reader' = [reader EXCEPT !.pc = "evaluating", !.spent = 0]
    /\ UNCHANGED <<loop, left, delay, failures, age, back>>

\* Mutant of Decide: the deadline is not looked at before returning.
DecideWhenever ==
    /\ reader.pc = "evaluating"
    /\ reader' = [reader EXCEPT !.pc = "decided"]
    /\ UNCHANGED <<loop, left, delay, failures, age, back>>

\* The deadline is looked at once more before the decision is returned.
Decide ==
    /\ reader.pc = "evaluating" /\ reader.spent <= EvaluationTimeout
    /\ reader' = [reader EXCEPT !.pc = "decided"]
    /\ UNCHANGED <<loop, left, delay, failures, age, back>>

\* The caller has its decision, or the deadline error.
Done ==
    /\ \/ reader.pc = "decided"
       \/ reader.pc = "evaluating"
    /\ reader' = NoReader
    /\ UNCHANGED <<loop, left, delay, failures, age, back>>

------------------------------------------------------------------------------
\* A timer or a deadline that is due is served before time goes on; an admitted
\* reader is paused no longer than Pause.
Tick ==
    /\ left > 0
    /\ ~(reader.pc = "admitted" /\ reader.spent >= Pause)
    /\ left' = left - 1
    /\ age' = Min({age + 1, AgeCap})
    /\ reader' = IF reader.pc \in {"admitted", "evaluating"}
                 THEN [reader EXCEPT !.age = Min({@ + 1, AgeCap}),
                                     !.spent = Min({@ + 1, AgeCap})]
                 ELSE reader
    /\ UNCHANGED <<loop, delay, failures, back>>

SetBack ==
    /\ back < MaxSetBack
    /\ back' = back + 1
    /\ UNCHANGED <<loop, left, delay, failures, age, reader>>

Next ==
    \/ RefreshSucceeds \/ RefreshFails \/ TimerFires
    \/ Admit \/ Begin \/ Decide \/ Done
    \/ Tick \/ SetBack

Spec == Init /\ [][Next]_vars

\* Time passes, timers fire, a refresh ends, and a source that recovers at the
\* latest after MaxFailures failures answers.
Fairness ==
    /\ WF_vars(Tick) /\ WF_vars(TimerFires)
    /\ WF_vars(Begin) /\ WF_vars(Done)
    /\ WF_vars(RefreshSucceeds \/ RefreshFails)

FairSpec == Spec /\ Fairness

------------------------------------------------------------------------------
(* Properties.                                                             *)

\* The backoff stays between the interval and its maximum, also when the
\* maximum is no power of two times the interval, and every wait is within a
\* quarter of it (manager.go:288-313).
BackoffIsBounded ==
    /\ Interval <= delay /\ delay <= MaxBackoff
    /\ loop = "waiting" => left <= delay

\* How old a snapshot may be after so many failures in a row: the interval, the
\* waits after each failure, doubled and capped, and the refreshes around them.
Doubled[k \in Nat] == IF k = 0 THEN Interval ELSE 2 * Doubled[k - 1]
Waits[k \in Nat] ==
    IF k = 0 THEN 0 ELSE Waits[k - 1] + Min({Doubled[k - 1], MaxBackoff})
AgeBound == Interval + Waits[failures] + (failures + 2) * FetchTime

\* Polling keeps a policy fresh: its age is bounded by the failures since the
\* last success alone, because a success resets the backoff.
PollingBoundsAge == age < AgeCap => age <= AgeBound

\* "Cached decisions stop at maxStaleness" (manager.go:276): the age is compared
\* before the evaluation and not again when the decision is returned, so a
\* decision may be late, by less than one scheduling pause and one deadline.  A
\* clock that is set back makes it late by as much again, not more: what was
\* true of the time of the refresh is never taken for fresh for ever.
DecisionAgeIsBounded ==
    reader.pc = "decided" =>
        reader.age < MaxStaleness + MaxSetBack + Pause + EvaluationTimeout

\* Whatever failed before, the policy becomes fresh again, also when the clock
\* was set back to before the last refresh: the next poll renews the time.
BecomesReady == []<>Ready
==============================================================================

---------------------------- MODULE ShrinkBisect ----------------------------
(***************************************************************************)
(* shrink_u256_bisect of crates/invariant-fuzzer/src/shrink.rs: binary     *)
(* search for the smallest value that still violates, on unsigned words    *)
(* whose arithmetic saturates.                                             *)
(***************************************************************************)
EXTENDS Integers

CONSTANTS
    MaxWord,          \* U256::MAX
    StartSatisfies    \* whether callers only start from a value that violates

ASSUME WordAssumption == MaxWord \in Nat
ASSUME StartAssumption == StartSatisfies \in BOOLEAN

VARIABLES
    satisfying,    \* the values the predicate answers true for
    start, min,    \* the arguments
    lo, hi, best,
    running        \* the while loop has not been left

vars == <<satisfying, start, min, lo, hi, best, running>>

Words == 0 .. MaxWord

SaturatingSub1(x) == IF x = 0 THEN 0 ELSE x - 1
SaturatingAdd1(x) == IF x = MaxWord THEN MaxWord ELSE x + 1

\* lo + ((hi - lo) >> 1)
Mid == lo + ((hi - lo) \div 2)

TypeOK ==
    /\ satisfying \in SUBSET Words
    /\ start \in Words /\ min \in Words
    /\ lo \in Words /\ hi \in Words /\ best \in Words
    /\ running \in BOOLEAN

Init ==
    /\ satisfying \in SUBSET Words
    /\ start \in Words
    /\ StartSatisfies => start \in satisfying
    /\ min \in Words
    /\ lo = min
    /\ hi = start
    /\ best = start
    /\ running = TRUE

-----------------------------------------------------------------------------
\* Mutant of Leave: the loop runs while lo < hi.
LeaveEarly ==
    /\ running
    /\ lo >= hi
    /\ running' = FALSE
    /\ UNCHANGED <<satisfying, start, min, lo, hi, best>>

\* The loop condition is false.
Leave ==
    /\ running
    /\ lo > hi
    /\ running' = FALSE
    /\ UNCHANGED <<satisfying, start, min, lo, hi, best>>

LowerTo(word) ==
    /\ running
    /\ lo <= hi
    /\ Mid \in satisfying
    /\ best' = Mid
    /\ hi' = word
    /\ UNCHANGED <<satisfying, start, min, lo, running>>

\* Mutants of Lower: no break at zero, where hi saturates or goes below it.
LowerSaturating == LowerTo(SaturatingSub1(Mid))
LowerUnchecked  == LowerTo(Mid - 1)

\* The predicate holds: search below, or break when there is no below.
Lower ==
    /\ running
    /\ lo <= hi
    /\ Mid \in satisfying
    /\ best' = Mid
    /\ \/ Mid = 0 /\ running' = FALSE /\ UNCHANGED hi
       \/ Mid # 0 /\ hi' = SaturatingSub1(Mid) /\ UNCHANGED running
    /\ UNCHANGED <<satisfying, start, min, lo>>

\* Mutant of Raise: the refused value is recorded.
RaiseBest ==
    /\ running
    /\ lo <= hi
    /\ Mid \notin satisfying
    /\ lo' = SaturatingAdd1(Mid)
    /\ best' = Mid
    /\ UNCHANGED <<satisfying, start, min, hi, running>>

\* Mutant of Raise: the value after the refused one is passed over.
RaiseByTwo ==
    /\ running
    /\ lo <= hi
    /\ Mid \notin satisfying
    /\ lo' = SaturatingAdd1(SaturatingAdd1(Mid))
    /\ UNCHANGED <<satisfying, start, min, hi, best, running>>

Raise ==
    /\ running
    /\ lo <= hi
    /\ Mid \notin satisfying
    /\ lo' = SaturatingAdd1(Mid)
    /\ UNCHANGED <<satisfying, start, min, hi, best, running>>

Step == Leave \/ Lower \/ Raise

Spec == Init /\ [][Step]_vars

\* The loop runs on; the predicate is assumed to return.
FairSpec == Spec /\ WF_vars(Step)

-----------------------------------------------------------------------------
(* Properties *)

\* Whatever the predicate, the best value seen violates and lies between the
\* bounds that were asked for.  (shrink.rs, shrink_u256_bisect)
BestViolates ==
    (start \in satisfying /\ min <= start) => best \in satisfying /\ best \in min .. start

\* Whatever the predicate, the result cannot be decreased by one: the value
\* below it was tried and did not violate, or is out of range.  (shrink.rs,
\* shrink_u256_bisect)
NoDecrement ==
    (~running /\ start \in satisfying /\ min <= start)
        => best = min \/ best - 1 \notin satisfying

\* "The function returns the smallest value in [min, start] that continues to
\* satisfy it", for the monotonic predicates it is made for.  (shrink.rs:275)
Monotonic == \A v \in satisfying : \A w \in Words : v <= w => w \in satisfying

SmallestWhenMonotonic ==
    (~running /\ Monotonic /\ start \in satisfying)
        => \A v \in satisfying : v \in min .. start => best <= v

\* The search ends, at the edges of the word too.  (shrink.rs:275, "The
\* function returns")
Returns == <>(~running)
=============================================================================

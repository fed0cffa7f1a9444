------------------------- MODULE ShrinkBisectProofs -------------------------
(***************************************************************************)
(* Theorems about the binary search, for words of every width and every    *)
(* predicate.                                                              *)
(***************************************************************************)
EXTENDS ShrinkBisect, TLAPS

\* The search closes in on best from both sides: what is just below lo was
\* refused, and best is just above hi once anything was accepted.
Closing ==
    (start \in satisfying /\ min <= start) =>
        /\ best \in satisfying
        /\ min <= lo /\ lo <= best /\ best <= start
        /\ lo = min \/ lo - 1 \notin satisfying
        /\ running => best = hi + 1 \/ (best = hi /\ hi = start)
        /\ ~running => best = lo \/ best = 0

IInv == TypeOK /\ Closing

LEMMA MidBetween ==
    ASSUME TypeOK, lo <= hi
    PROVE  Mid \in Words /\ lo <= Mid /\ Mid <= hi
BY WordAssumption DEF TypeOK, Words, Mid

LEMMA InitEstablishes == Init => IInv
BY WordAssumption DEF Init, IInv, TypeOK, Closing, Words

LEMMA StepKeeps == IInv /\ [Step]_vars => IInv'
<1> SUFFICES ASSUME IInv, [Step]_vars PROVE IInv'
  OBVIOUS
<1> USE WordAssumption DEF IInv, TypeOK, Words
<1>1. CASE Leave
  <2>1. TypeOK'
    BY <1>1 DEF Leave
  <2>2. /\ lo > hi /\ running /\ running' = FALSE
        /\ UNCHANGED <<satisfying, start, min, lo, hi, best>>
    BY <1>1 DEF Leave
  <2>3. (start \in satisfying /\ min <= start) => best = lo
    BY <2>2 DEF Closing
  <2>4. Closing'
    BY <2>2, <2>3 DEF Closing
  <2> QED BY <2>1, <2>4
<1>2. CASE Lower
  <2> DEFINE m == Mid
  <2>1. m \in 0 .. MaxWord /\ lo <= m /\ m <= hi
    BY <1>2, MidBetween DEF Lower
  <2>2. m \in satisfying /\ best' = m /\ running /\ UNCHANGED <<satisfying, start, min, lo>>
    BY <1>2 DEF Lower
  <2>3. CASE m = 0 /\ running' = FALSE /\ hi' = hi
    <3> HIDE DEF m
    <3>1. TypeOK'
      BY <2>1, <2>2, <2>3
    <3>2. Closing'
      BY <2>1, <2>2, <2>3 DEF Closing
    <3> QED BY <3>1, <3>2
  <2>4. CASE m # 0 /\ hi' = m - 1 /\ running' = running
    <3> HIDE DEF m
    <3>1. TypeOK'
      BY <2>1, <2>2, <2>4
    <3>2. Closing'
      BY <2>1, <2>2, <2>4 DEF Closing
    <3> QED BY <3>1, <3>2
  <2> QED BY <1>2, <2>3, <2>4 DEF Lower, SaturatingSub1
<1>3. CASE Raise
  <2> DEFINE m == Mid
  <2>1. m \in 0 .. MaxWord /\ lo <= m /\ m <= hi
    BY <1>3, MidBetween DEF Raise
  <2>2. m \notin satisfying /\ running /\ UNCHANGED <<satisfying, start, min, hi, best, running>>
    BY <1>3 DEF Raise
  <2>3. lo' = IF m = MaxWord THEN MaxWord ELSE m + 1
    BY <1>3 DEF Raise, SaturatingAdd1
  <2> HIDE DEF m
  <2>4. TypeOK'
    BY <2>1, <2>2, <2>3
  <2>5. Closing'
    <3>1. SUFFICES ASSUME start \in satisfying, min <= start
                   PROVE  /\ min <= lo' /\ lo' <= best
                          /\ lo' - 1 \notin satisfying
      BY <2>2 DEF Closing
    <3>2. m < best
      BY <2>1, <2>2, <3>1 DEF Closing
    <3> QED BY <2>1, <2>2, <2>3, <3>1, <3>2 DEF Closing
  <2> QED BY <2>4, <2>5
<1>4. CASE UNCHANGED vars
  BY <1>4 DEF vars, Closing
<1> QED BY <1>1, <1>2, <1>3, <1>4 DEF Step

LEMMA Invariance == Spec => []IInv
BY InitEstablishes, StepKeeps, PTL DEF Spec

\* Bounds and best stay words: nothing leaves them at either end.
THEOREM Typing == Spec => []TypeOK
BY Invariance, PTL DEF IInv

\* The value returned violates and respects the bounds.
THEOREM BestAlwaysViolates == Spec => []BestViolates
<1>1. IInv => BestViolates
  BY WordAssumption DEF IInv, Closing, BestViolates, TypeOK, Words
<1> QED BY Invariance, <1>1, PTL

\* For every predicate the result cannot be decreased by one.
THEOREM LocallyMinimal == Spec => []NoDecrement
<1>1. IInv => NoDecrement
  BY WordAssumption DEF IInv, Closing, NoDecrement, TypeOK, Words
<1> QED BY Invariance, <1>1, PTL

\* For a monotonic one it is the smallest value of the range that violates.
THEOREM FindsSmallest == Spec => []SmallestWhenMonotonic
<1>1. ASSUME IInv, ~running, Monotonic, start \in satisfying,
             NEW v \in satisfying, v \in min .. start
      PROVE  best <= v
  <2>1. best = min \/ best - 1 \notin satisfying
    BY <1>1, WordAssumption DEF IInv, Closing, TypeOK, Words
  <2>2. best - 1 \notin satisfying => ~(v <= best - 1)
    BY <1>1, WordAssumption DEF IInv, TypeOK, Words, Monotonic
  <2> QED BY <1>1, <2>1, <2>2, WordAssumption DEF IInv, TypeOK, Words
<1>2. IInv => SmallestWhenMonotonic
  BY <1>1 DEF SmallestWhenMonotonic
<1> QED BY Invariance, <1>2, PTL

-----------------------------------------------------------------------------
(* How long it takes *)

\* The values between the two ends.
Width == hi - lo + 1

\* Every question that leaves the loop running halves the values between the
\* ends, at both ends of the word, where a bound that saturates would leave
\* them as they were: a word of w bits takes at most w + 1 questions.
\* (shrink.rs, shrink_u256_bisect, called with a value that violates)
THEOREM EveryQuestionHalves ==
    Spec => [][(start \in satisfying /\ min <= start /\ running')
                  => 2 * Width' <= Width]_vars
<1>1. ASSUME IInv, Step, start \in satisfying, min <= start, running'
      PROVE  2 * Width' <= Width
  <2>1. lo \in Nat /\ hi \in Nat /\ MaxWord \in Nat /\ best \in Nat /\ best <= MaxWord
    BY <1>1, WordAssumption DEF IInv, TypeOK, Words
  <2>2. CASE Lower
    <3>1. lo <= hi /\ lo' = lo
      BY <2>2 DEF Lower
    <3>2. Mid # 0 /\ hi' = Mid - 1
      BY <1>1, <2>2 DEF Lower, SaturatingSub1
    <3> QED BY <2>1, <3>1, <3>2 DEF Width, Mid
  <2>3. CASE Raise
    <3>1. lo <= hi /\ hi' = hi
      BY <2>3 DEF Raise
    <3>2. Mid \in Nat /\ Mid <= hi
      BY <2>1, <3>1 DEF Mid
    <3>3. Mid < best
      <4>1. running /\ Mid \notin satisfying
        BY <2>3 DEF Raise
      <4>2. best = hi + 1 \/ best = hi
        BY <1>1, <4>1 DEF IInv, Closing
      <4>3. best \in satisfying
        BY <1>1 DEF IInv, Closing
      <4>4. Mid # best
        BY <4>1, <4>3
      <4> QED BY <2>1, <3>2, <4>2, <4>4
    <3>4. Mid # MaxWord
      BY <2>1, <3>2, <3>3
    <3>5. lo' = Mid + 1
      BY <2>3, <3>4 DEF Raise, SaturatingAdd1
    <3> QED BY <2>1, <3>1, <3>5 DEF Width, Mid
  <2> QED BY <1>1, <2>2, <2>3 DEF Step, Leave
<1> QED BY Invariance, <1>1, PTL DEF Spec
=============================================================================

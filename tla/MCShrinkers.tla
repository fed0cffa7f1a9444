----------------------------- MODULE MCShrinkers -----------------------------
(***************************************************************************)
(* One call of a shrinker of shrink.rs that stands alone: shrink_sequence, *)
(* of ShrinkSequence, or shrink_u256_bisect, of ShrinkBisect.  The         *)
(* variables of the one that is not called are those of a call that has    *)
(* returned.                                                               *)
(***************************************************************************)
EXTENDS ShrinkItems, ShrinkBisect

VARIABLES violating, minimized, cursor    \* of shrink_sequence

Deletion == INSTANCE ShrinkSequence

sequenceVars == <<violating, minimized, cursor>>

\* The variables of ShrinkBisect are vars.
BisectCalled ==
    /\ Init
    /\ violating = {Positions} /\ minimized = Positions /\ cursor = Len + 1

SequenceCalled ==
    /\ Deletion!Init
    /\ satisfying = {0}
    /\ start = 0 /\ min = 0 /\ lo = 0 /\ hi = 0 /\ best = 0 /\ running = FALSE

BisectStep   == Step /\ UNCHANGED sequenceVars
SequenceStep == Deletion!Next /\ UNCHANGED vars

CallSpec ==
    /\ BisectCalled \/ SequenceCalled
    /\ [][BisectStep \/ SequenceStep]_<<vars, sequenceVars>>
    /\ WF_<<vars, sequenceVars>>(BisectStep)

\* The invariants of ShrinkSequence, of its variables.
HoldsFailingSequence == Deletion!HoldsFailingSequence

MinimalWhenMonotone == Deletion!MinimalWhenMonotone
=============================================================================

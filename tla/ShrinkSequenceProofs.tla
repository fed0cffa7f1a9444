------------------------ MODULE ShrinkSequenceProofs ------------------------
(***************************************************************************)
(* Theorems about the deletion pass, for sequences of every length and     *)
(* every predicate.                                                        *)
(***************************************************************************)
EXTENDS ShrinkSequence, TLAPS

\* The items the pass has kept cannot go.  The cursor never returns to them;
\* a monotone predicate still refuses to drop them once others are gone.
KeptAreNeeded ==
    Monotone => \A p \in minimized : p < cursor => minimized \ {p} \notin violating

IInv == TypeOK /\ HoldsFailingSequence /\ KeptAreNeeded

LEMMA InitEstablishes == Init => IInv
<1> SUFFICES ASSUME Init PROVE IInv
  OBVIOUS
<1>1. /\ violating \in SUBSET Candidates /\ Positions \in violating
      /\ minimized = Positions /\ cursor = 1
  BY DEF Init
<1>2. TypeOK
  BY <1>1, LenAssumption DEF TypeOK, Candidates
<1>3. HoldsFailingSequence
  BY <1>1 DEF HoldsFailingSequence, Positions
<1>4. KeptAreNeeded
  BY <1>1, LenAssumption DEF KeptAreNeeded, Positions
<1> QED BY <1>2, <1>3, <1>4 DEF IInv

LEMMA DropKeeps == ASSUME IInv, Drop PROVE IInv'
<1> USE LenAssumption DEF IInv, TypeOK, Drop, Done, Candidate, Positions
<1>1. TypeOK'
  BY DEF Candidates
<1>2. HoldsFailingSequence'
  BY DEF HoldsFailingSequence
<1>3. ASSUME Monotone', NEW p \in minimized', p < cursor'
      PROVE  minimized' \ {p} \notin violating'
  <2>1. p \in minimized /\ p # cursor /\ p < cursor
    BY <1>3 DEF Candidates
  <2>2. minimized \ {p} \notin violating
    BY <1>3, <2>1 DEF KeptAreNeeded, Monotone
  <2>3. minimized' \ {p} \subseteq minimized \ {p} /\ minimized \ {p} \in Candidates
    BY DEF Candidates
  <2> QED BY <1>3, <2>2, <2>3 DEF Monotone
<1> QED BY <1>1, <1>2, <1>3 DEF KeptAreNeeded

LEMMA KeepKeeps == ASSUME IInv, Keep PROVE IInv'
<1> USE LenAssumption DEF IInv, TypeOK, Keep, Done, Candidate, Positions
<1>1. TypeOK'
  OBVIOUS
<1>2. HoldsFailingSequence'
  BY DEF HoldsFailingSequence
<1>3. ASSUME Monotone', NEW p \in minimized', p < cursor'
      PROVE  minimized' \ {p} \notin violating'
  <2>1. CASE p = cursor
    BY <2>1
  <2>2. CASE p < cursor
    BY <1>3, <2>2 DEF KeptAreNeeded, Monotone
  <2> QED BY <1>3, <2>1, <2>2 DEF Candidates
<1> QED BY <1>1, <1>2, <1>3 DEF KeptAreNeeded

LEMMA Invariance == Spec => []IInv
<1>1. IInv /\ UNCHANGED vars => IInv'
  BY DEF IInv, TypeOK, HoldsFailingSequence, KeptAreNeeded, Monotone, vars
<1>2. IInv /\ [Next]_vars => IInv'
  BY <1>1, DropKeeps, KeepKeeps DEF Next
<1> QED BY InitEstablishes, <1>2, PTL DEF Spec

\* The cursor stays in the sequence, or one past it.
THEOREM Typing == Spec => []TypeOK
BY Invariance, PTL DEF IInv

\* The pass never loses the failure it was given.
THEOREM AlwaysFailing == Spec => []HoldsFailingSequence
BY Invariance, PTL DEF IInv

\* For a monotone predicate one pass gives a minimal failing sequence.
THEOREM OnePassMinimizes == Spec => []MinimalWhenMonotone
<1>1. ASSUME IInv, Done, Monotone, NEW c \in violating, c \subseteq minimized
      PROVE  c = minimized
  <2>1. SUFFICES ASSUME NEW p \in minimized, p \notin c
                 PROVE  FALSE
    BY <1>1
  <2>2. p < cursor
    BY <1>1, LenAssumption DEF IInv, TypeOK, Candidates, Positions, Done
  <2>3. c \subseteq minimized \ {p} /\ minimized \ {p} \in Candidates
    BY <1>1, <2>1 DEF IInv, TypeOK, Candidates
  <2> QED BY <1>1, <2>2, <2>3 DEF IInv, KeptAreNeeded, Monotone
<1>2. IInv => MinimalWhenMonotone
  BY <1>1 DEF MinimalWhenMonotone
<1> QED BY Invariance, <1>2, PTL
=============================================================================

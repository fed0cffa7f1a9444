--------------------------- MODULE ShrinkSequence ---------------------------
(***************************************************************************)
(* shrink_sequence of crates/invariant-fuzzer/src/shrink.rs: one pass over *)
(* a failing sequence that drops every item the violation can do without.  *)
(*                                                                         *)
(* A candidate is the set of the positions of the original sequence it     *)
(* keeps.  The cursor is given as a position too: what the pass has not    *)
(* reached is still there, so the item after the one it is at is the next  *)
(* position, whether that one was dropped or kept; the code's index is the *)
(* number of kept positions before it.                                     *)
(***************************************************************************)
EXTENDS ShrinkItems

VARIABLES
    violating,   \* the candidates the predicate answers true for
    minimized,   \* the positions kept so far
    cursor       \* the position tried next

vars == <<violating, minimized, cursor>>

Candidates == SUBSET Positions

TypeOK ==
    /\ violating \in SUBSET Candidates
    /\ minimized \in Candidates
    /\ cursor \in 1 .. (Len + 1)

\* The caller has a failing sequence and a deterministic predicate.
Init ==
    /\ violating \in {V \in SUBSET Candidates : Positions \in V}
    /\ minimized = Positions
    /\ cursor = 1

Done == cursor > Len

-----------------------------------------------------------------------------
Candidate == minimized \ {cursor}

\* Mutant of Drop: the predicate is not asked.
DropUnasked ==
    /\ ~Done
    /\ minimized' = Candidate
    /\ cursor' = cursor + 1
    /\ UNCHANGED violating

\* Mutant of Drop: the index moves on although the items after it moved up.
DropAndSkip ==
    /\ ~Done
    /\ Candidate \in violating
    /\ minimized' = Candidate
    /\ cursor' = IF cursor = Len THEN Len + 1 ELSE cursor + 2
    /\ UNCHANGED violating

Drop ==
    /\ ~Done
    /\ Candidate \in violating
    /\ minimized' = Candidate
    /\ cursor' = cursor + 1
    /\ UNCHANGED violating

Keep ==
    /\ ~Done
    /\ Candidate \notin violating
    /\ cursor' = cursor + 1
    /\ UNCHANGED <<violating, minimized>>

Next == Drop \/ Keep

Spec == Init /\ [][Next]_vars

-----------------------------------------------------------------------------
(* Properties *)

\* Whatever the predicate, the sequence held at any time fails, and what the
\* pass has not reached is untouched.  (shrink.rs, shrink_sequence)
HoldsFailingSequence ==
    /\ minimized \in violating
    /\ cursor .. Len \subseteq minimized

\* The predicates a greedy pass is made for: a sequence that contains a
\* failing one fails.
Monotone == \A c \in violating : \A d \in Candidates : c \subseteq d => d \in violating

\* No proper part of the result of a monotone predicate fails: one pass is
\* enough, although an item is not tried again after later ones went.
\* (shrink.rs, shrink_sequence)
MinimalWhenMonotone ==
    (Done /\ Monotone) => \A c \in violating : c \subseteq minimized => c = minimized
=============================================================================

----------------------------- MODULE ShrinkSimTx -----------------------------
(***************************************************************************)
(* shrink_simtx_sequence of crates/invariant-fuzzer/src/shrink.rs: the     *)
(* deletion pass of ShrinkSequence, then, for each transaction that is     *)
(* left, the search of ShrinkBisect over its value, and the summary of     *)
(* what was removed and changed.                                           *)
(*                                                                         *)
(* The predicate re-runs a candidate on the EVM.  It is unknown and need   *)
(* not be monotonic, but gives one candidate one answer: its answers are   *)
(* chosen when they are first asked for and remembered.                    *)
(***************************************************************************)
EXTENDS Integers, ShrinkItems

CONSTANT MaxWord     \* U256::MAX

ASSUME WordAssumption == MaxWord \in Nat

VARIABLES
    original,                  \* position -> SimTxInput.value of the original sequence
    bisect_value, min_value,   \* ShrinkOptions
    allowed,                   \* restrict_to_original_indices, all positions for None
    accepted, rejected,        \* candidates the predicate answered true, false for
    pass,                      \* "delete", "items", "bisect" or "done"
    minimized, cursor,         \* of the deletion pass
    value,                     \* position -> its value now
    item,                      \* the position the second pass is at
    lo, hi, best, running,     \* of the search in progress
    value_changes              \* of the summary

options    == <<original, bisect_value, min_value, allowed>>
oracle     == <<accepted, rejected>>
deletion   == <<minimized, cursor>>
search     == <<lo, hi, best, running>>
second     == <<value, item, value_changes>>
vars       == <<options, oracle, pass, deletion, second, search>>

Words      == 0 .. MaxWord
Candidates == UNION {[kept -> Words] : kept \in SUBSET Positions}
Changes    == [original_index : Positions, before : Words, after : Words]

Part(f, kept) == [p \in kept |-> f[p]]

\* The sequence as it stands, and with the value of one transaction replaced.
Current         == Part(value, minimized)
RewriteAmount(v) == [Current EXCEPT ![item] = v]

Deletion == INSTANCE ShrinkSequence WITH
    violating <- {kept \in SUBSET Positions : Part(original, kept) \in accepted}

Search == INSTANCE ShrinkBisect WITH
    StartSatisfies <- TRUE,
    satisfying     <- {v \in Words : RewriteAmount(v) \in accepted},
    start          <- value[item],
    min            <- min_value

TypeOK ==
    /\ original \in [Positions -> Words] /\ value \in [Positions -> Words]
    /\ bisect_value \in BOOLEAN /\ min_value \in Words /\ allowed \in SUBSET Positions
    /\ accepted \in SUBSET Candidates /\ rejected \in SUBSET Candidates
    /\ pass \in {"delete", "items", "bisect", "done"}
    /\ minimized \in SUBSET Positions /\ cursor \in 1 .. (Len + 1)
    /\ item \in 1 .. (Len + 1)
    /\ lo \in Words /\ hi \in Words /\ best \in Words /\ running \in BOOLEAN
    /\ value_changes \in SUBSET Changes

Init ==
    /\ original \in [Positions -> Words]
    /\ bisect_value \in BOOLEAN
    /\ min_value \in Words
    /\ allowed \in SUBSET Positions
    /\ accepted = {original}
    /\ rejected = {}
    /\ pass = "delete"
    /\ minimized = Positions /\ cursor = 1
    /\ value = original
    /\ item = 1
    /\ lo = 0 /\ hi = 0 /\ best = 0 /\ running = FALSE
    /\ value_changes = {}

-----------------------------------------------------------------------------
(* The predicate *)

\* The candidate a pass wants an answer for: none between two searches.
Asked ==
    IF pass = "delete" /\ ~Deletion!Done
    THEN {Part(original, Deletion!Candidate)}
    ELSE IF pass = "bisect" /\ running /\ lo <= hi
         THEN {RewriteAmount(Search!Mid)}
         ELSE {}

Answered == Asked \subseteq accepted \cup rejected

Violates ==
    /\ ~Answered
    /\ \/ accepted' = accepted \cup Asked /\ UNCHANGED rejected
       \/ rejected' = rejected \cup Asked /\ UNCHANGED accepted
    /\ UNCHANGED <<options, pass, deletion, second, search>>

-----------------------------------------------------------------------------
(* First pass *)

DeleteStep ==
    /\ pass = "delete" /\ Answered
    /\ UNCHANGED <<options, oracle, pass, second, search>>
    /\ Deletion!Next

\* Mutant of DeletionDone: the last transaction is not tried.
DeletionDoneEarly ==
    /\ pass = "delete" /\ cursor >= Len
    /\ pass' = IF bisect_value THEN "items" ELSE "done"
    /\ UNCHANGED <<options, oracle, deletion, second, search>>

DeletionDone ==
    /\ pass = "delete" /\ Deletion!Done
    /\ pass' = IF bisect_value THEN "items" ELSE "done"
    /\ UNCHANGED <<options, oracle, deletion, second, search>>

-----------------------------------------------------------------------------
(* Second pass: for each transaction of the result of the first *)

Skipped == item \notin minimized \/ item \notin allowed \/ value[item] <= min_value

SkipItem ==
    /\ pass = "items" /\ item <= Len
    /\ Skipped
    /\ item' = item + 1
    /\ UNCHANGED <<options, oracle, pass, deletion, value, value_changes, search>>

StartSearch ==
    /\ pass = "items" /\ item <= Len
    /\ ~Skipped
    /\ lo' = min_value
    /\ hi' = value[item]
    /\ best' = value[item]
    /\ running' = TRUE
    /\ pass' = "bisect"
    /\ UNCHANGED <<options, oracle, deletion, second>>

SearchStep ==
    /\ pass = "bisect" /\ running /\ Answered
    /\ UNCHANGED <<options, oracle, pass, deletion, second>>
    /\ Search!Step

\* The value found is written back, and reported if it is another one.
WriteBack(p, found, before, nextItem) ==
    /\ pass = "bisect" /\ ~running
    /\ value' = [value EXCEPT ![p] = found]
    /\ value_changes' =
          IF best # value[item]
          THEN value_changes \cup {[original_index |-> item, before |-> before,
                                    after |-> best]}
          ELSE value_changes
    /\ item' = nextItem
    /\ pass' = "items"
    /\ UNCHANGED <<options, oracle, deletion, search>>

\* Mutants of SearchDone: the upper end of the search is written back; the
\* value goes to the next transaction; the change is reported after it was
\* made; the item is searched once more.
WriteBackHi    == WriteBack(item, hi, value[item], item + 1)
WriteBackAhead == WriteBack(IF item < Len THEN item + 1 ELSE item, best, value[item], item + 1)
ReportAfter    == WriteBack(item, best, best, item + 1)
SearchSameItem == WriteBack(item, best, value[item], item)

SearchDone == WriteBack(item, best, value[item], item + 1)

ItemsDone ==
    /\ pass = "items" /\ item > Len
    /\ pass' = "done"
    /\ UNCHANGED <<options, oracle, deletion, second, search>>

\* SequenceShrinkResult.diff.removed_original_indices
RemovedIndices == Positions \ minimized

-----------------------------------------------------------------------------
Next ==
    \/ Violates
    \/ DeleteStep \/ DeletionDone
    \/ SkipItem \/ StartSearch \/ SearchStep \/ SearchDone \/ ItemsDone

Spec     == Init /\ [][Next]_vars
FairSpec == Spec /\ WF_vars(Next)

-----------------------------------------------------------------------------
(* Properties *)

\* c is a part of d with values no larger.
Smaller(c, d) == DOMAIN c \subseteq DOMAIN d /\ \A p \in DOMAIN c : c[p] <= d[p]

\* The sequence held is at every time one the predicate was asked about and
\* accepted, through both passes and the writing back of each search's best.
\* (shrink.rs, shrink_simtx_sequence)
CurrentViolates == Current \in accepted

\* The result is minimal in both directions: each transaction left, and each
\* decrement of a value that was searched, has a rejected candidate that is at
\* least as large as the result without it, although later searches went on
\* to change other values.  (shrink.rs, shrink_simtx_sequence)
RuledOut(c) == \E r \in rejected : Smaller(c, r)

ResultMinimal ==
    pass = "done" =>
        \A p \in minimized :
            /\ RuledOut(Part(value, minimized \ {p}))
            /\ (bisect_value /\ p \in allowed /\ value[p] > min_value)
                  => RuledOut([Current EXCEPT ![p] = value[p] - 1])

\* The summary tells the whole difference to the original sequence, in the
\* indices of the original: with what was removed taken out and the changes
\* applied, the original is the result; values outside the restriction are
\* the original ones and none goes below the minimum it was above.
\* (shrink.rs, ShrinkDiffSummary)
SummaryAccurate ==
    pass = "done" =>
        /\ Positions \ RemovedIndices = DOMAIN Current
        /\ value_changes = {[original_index |-> p, before |-> original[p], after |-> value[p]] :
                               p \in {q \in minimized : value[q] # original[q]}}
        /\ \A p \in Positions : value[p] # original[p] =>
              p \in allowed /\ value[p] \in min_value .. (original[p] - 1)

\* The sequence only ever gets smaller.  (shrink.rs, shrink_simtx_sequence)
OnlyShrinks == [][Smaller(Current', Current)]_vars

\* Shrinking ends, the largest word included, when the original violates.
\* (shrink.rs, shrink_u256_bisect's loop)
ShrinkingEnds == <>(pass = "done")
=============================================================================

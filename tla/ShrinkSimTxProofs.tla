-------------------------- MODULE ShrinkSimTxProofs --------------------------
(***************************************************************************)
(* Proofs about ShrinkSimTx, for sequences and words of every size and for *)
(* every predicate.                                                        *)
(***************************************************************************)
EXTENDS ShrinkSimTx, TLAPS

-----------------------------------------------------------------------------
(* The inductive invariant *)

\* The deletion pass: what it has not reached is there, and nothing else
\* happens before it is through.
Deleting ==
    /\ \A p \in Positions : p >= cursor => p \in minimized
    /\ IF pass = "delete" THEN item = 1 ELSE cursor = Len + 1

\* The values: only the transactions the second pass has left behind have
\* another one, within the options.
ValuesKept ==
    \A p \in Positions :
        /\ value[p] <= original[p]
        /\ p >= item => value[p] = original[p]
        /\ value[p] # original[p] => p \in minimized /\ p \in allowed /\ min_value <= value[p]

ChangesReported ==
    value_changes = {[original_index |-> p, before |-> original[p], after |-> value[p]] :
                        p \in {q \in minimized : value[q] # original[q]}}

\* The search in progress, of ShrinkBisect: best was accepted, and what is
\* just below lo was rejected.
Searching ==
    pass = "bisect" =>
        /\ item \in minimized /\ item \in allowed /\ min_value < value[item]
        /\ min_value <= lo /\ lo <= best /\ best <= value[item]
        /\ RewriteAmount(best) \in accepted
        /\ lo = min_value \/ RewriteAmount(lo - 1) \in rejected
        /\ running => best = hi + 1 \/ (best = hi /\ hi = value[item])
        /\ ~running => best = lo \/ best = 0

\* What is ruled out so far: each transaction the first pass kept, each
\* decrement the second pass left behind.
Ruled(R, c) == \E r \in R : Smaller(c, r)

NeededSoFar ==
    \A p \in minimized : p < cursor => Ruled(rejected, Part(value, minimized \ {p}))

SmallSoFar ==
    \A p \in minimized : (p < item /\ p \in allowed /\ value[p] > min_value)
        => Ruled(rejected, [Current EXCEPT ![p] = value[p] - 1])

Inv ==
    /\ TypeOK /\ CurrentViolates /\ Deleting
    /\ ValuesKept /\ ChangesReported /\ Searching
    /\ NeededSoFar /\ SmallSoFar
    /\ (pass = "done" /\ bisect_value) => item = Len + 1

-----------------------------------------------------------------------------
(* Candidates *)

LEMMA WordFacts == /\ \A w : w \in Words <=> w \in Nat /\ w <= MaxWord
                   /\ \A p : p \in Positions <=> p \in Nat /\ 1 <= p /\ p <= Len
  BY LenAssumption, WordAssumption DEF Words, Positions

LEMMA CandidateFacts ==
    ASSUME NEW c \in Candidates
    PROVE  DOMAIN c \subseteq Positions /\ \A p \in DOMAIN c : c[p] \in Nat
  BY WordFacts DEF Candidates

LEMMA PartOf ==
    ASSUME NEW f \in [Positions -> Words], NEW kept \in SUBSET Positions
    PROVE  /\ Part(f, kept) \in Candidates
           /\ \A p \in kept, v \in Words : [Part(f, kept) EXCEPT ![p] = v] \in Candidates
  <1>1. Part(f, kept) \in [kept -> Words]
    BY DEF Part
  <1>2. \A p \in kept, v \in Words : [Part(f, kept) EXCEPT ![p] = v] \in [kept -> Words]
    BY <1>1
  <1>. QED BY <1>1, <1>2 DEF Candidates

\* What is smaller than a candidate that was ruled out is ruled out.
LEMMA SmallerRuled ==
    ASSUME NEW R \in SUBSET Candidates, NEW R2, R \subseteq R2,
           NEW c \in Candidates, NEW d \in Candidates, Smaller(c, d), Ruled(R, d)
    PROVE  Ruled(R2, c)
  <1>1. PICK r \in R : Smaller(d, r)
    BY DEF Ruled
  <1>2. Smaller(c, r)
    BY <1>1, CandidateFacts DEF Smaller
  <1>. QED BY <1>1, <1>2 DEF Ruled

\* Fewer transactions with smaller values are a smaller candidate.
LEMMA PartSmaller ==
    ASSUME NEW f \in [Positions -> Words], NEW g \in [Positions -> Words],
           NEW S \in SUBSET Positions, NEW T \in SUBSET Positions,
           S \subseteq T, \A p \in S : f[p] <= g[p]
    PROVE  Smaller(Part(f, S), Part(g, T))
  BY DEF Smaller, Part

LEMMA InitInv == Init => Inv
  <1>. SUFFICES ASSUME Init PROVE Inv
    OBVIOUS
  <1>1. original \in Candidates
    BY DEF Init, Candidates
  <1>2. TypeOK
    <2>1. 0 \in Words /\ 1 \in 1 .. (Len + 1)
      BY LenAssumption, WordAssumption DEF Words
    <2>2. value_changes \in SUBSET Changes /\ accepted \in SUBSET Candidates
          /\ rejected \in SUBSET Candidates
      BY <1>1 DEF Init
    <2>. QED BY <2>1, <2>2 DEF Init, TypeOK
  <1>3. CurrentViolates
    BY DEF Init, CurrentViolates, Current, Part
  <1>4. ValuesKept
    BY WordFacts DEF Init, ValuesKept
  <1>5. Deleting /\ ChangesReported /\ Searching
    BY DEF Init, Deleting, ChangesReported, Searching
  <1>6. NeededSoFar /\ SmallSoFar
    BY WordFacts DEF Init, NeededSoFar, SmallSoFar
  <1>. QED BY <1>2, <1>3, <1>4, <1>5, <1>6 DEF Init, Inv

-----------------------------------------------------------------------------
(* The predicate *)

\* The middle of a range of words is a word of the range.
LEMMA MidFacts ==
    ASSUME TypeOK, lo <= hi
    PROVE  Search!Mid \in Words /\ lo <= Search!Mid /\ Search!Mid <= hi
  <1>1. lo \in Nat /\ hi \in Nat /\ hi <= MaxWord
    BY WordFacts DEF TypeOK
  <1>. QED BY <1>1, LenAssumption, WordAssumption DEF Search!Mid, Words

LEMMA AskedFacts ==
    ASSUME TypeOK, Searching PROVE Asked \subseteq Candidates
  <1>1. Part(original, Deletion!Candidate) \in Candidates
    BY PartOf DEF TypeOK, Deletion!Candidate
  <1>2. ASSUME pass = "bisect", lo <= hi, item \in minimized
        PROVE  RewriteAmount(Search!Mid) \in Candidates
    <2>1. Search!Mid \in Words
      BY <1>2, MidFacts
    <2>. QED BY <1>2, <2>1, PartOf DEF TypeOK, RewriteAmount, Current
  <1>3. pass = "bisect" => item \in minimized
    BY DEF Searching
  <1>. QED BY <1>1, <1>2, <1>3 DEF Asked

LEMMA ViolatesInv == Inv /\ Violates => Inv'
  <1>. SUFFICES ASSUME Inv, Violates PROVE Inv'
    OBVIOUS
  <1>1. /\ accepted' \in SUBSET Candidates /\ rejected' \in SUBSET Candidates
        /\ accepted \subseteq accepted' /\ rejected \subseteq rejected'
    BY AskedFacts DEF Inv, TypeOK, Violates
  <1>2. /\ UNCHANGED <<original, bisect_value, min_value, allowed, pass, minimized, cursor,
                       value, item, value_changes, lo, hi, best, running>>
    BY DEF Violates, options, deletion, second, search
  <1>3. TypeOK'
    BY <1>1, <1>2 DEF Inv, TypeOK
  <1>4. Current' = Current /\ \A v : RewriteAmount(v)' = RewriteAmount(v)
    BY <1>2 DEF Current, RewriteAmount
  <1>5. CurrentViolates'
    BY <1>1, <1>4 DEF Inv, CurrentViolates
  <1>6. Deleting' /\ ValuesKept' /\ ChangesReported'
    BY <1>2 DEF Inv, Deleting, ValuesKept, ChangesReported
  <1>7. Searching'
    BY <1>1, <1>2 DEF Inv, Searching, RewriteAmount, Current
  <1>8. NeededSoFar' /\ SmallSoFar'
    BY <1>1, <1>2, <1>4 DEF Inv, NeededSoFar, SmallSoFar, Ruled
  <1>. QED BY <1>2, <1>3, <1>5, <1>6, <1>7, <1>8 DEF Inv

-----------------------------------------------------------------------------
(* First pass *)

LEMMA DeleteStepInv == Inv /\ DeleteStep => Inv'
  <1>. SUFFICES ASSUME Inv, DeleteStep PROVE Inv'
    OBVIOUS
  <1>1. /\ pass = "delete" /\ Answered /\ cursor <= Len
        /\ cursor' = cursor + 1
        /\ UNCHANGED <<original, bisect_value, min_value, allowed, accepted, rejected, pass,
                       value, item, value_changes, lo, hi, best, running>>
        /\ \/ minimized' = minimized \ {cursor} /\ Part(original, minimized \ {cursor}) \in accepted
           \/ minimized' = minimized /\ Part(original, minimized \ {cursor}) \notin accepted
    <2>1. cursor \in 1 .. (Len + 1)
      BY DEF Inv, TypeOK
    <2>2. /\ pass = "delete" /\ Answered /\ Deletion!Next
          /\ UNCHANGED <<original, bisect_value, min_value, allowed, accepted, rejected, pass,
                         value, item, value_changes, lo, hi, best, running>>
      BY DEF DeleteStep, options, oracle, second, search
    <2>3. ~(cursor > Len) /\ cursor' = cursor + 1
      BY <2>2 DEF Deletion!Next, Deletion!Drop, Deletion!Keep, Deletion!Done
    <2>4. minimized \ {cursor} \in SUBSET Positions
      BY DEF Inv, TypeOK
    <2>5. \/ minimized' = minimized \ {cursor} /\ Part(original, minimized \ {cursor}) \in accepted
          \/ minimized' = minimized /\ Part(original, minimized \ {cursor}) \notin accepted
      BY <2>2, <2>4 DEF Deletion!Next, Deletion!Drop, Deletion!Keep, Deletion!Candidate
    <2>. QED BY <2>1, <2>2, <2>3, <2>5, LenAssumption, WordAssumption
  <1>2. cursor \in Positions /\ cursor \in Nat /\ item = 1 /\ minimized \in SUBSET Positions
        /\ minimized' \in SUBSET minimized /\ cursor + 1 \in 1 .. (Len + 1)
    BY <1>1, WordFacts, LenAssumption, WordAssumption DEF Inv, TypeOK, Deleting
  <1>3. value = original
    <2>1. \A p \in Positions : value[p] = original[p]
      BY <1>2, WordFacts DEF Inv, ValuesKept
    <2>. QED BY <2>1 DEF Inv, TypeOK
  <1>4. TypeOK'
    BY <1>1, <1>2 DEF Inv, TypeOK
  <1>5. CurrentViolates'
    BY <1>1, <1>3 DEF Inv, CurrentViolates, Current
  <1>6. Deleting'
    <2>1. ASSUME NEW p \in Positions, p >= cursor + 1 PROVE p \in minimized'
      <3>1. p # cursor /\ p >= cursor
        BY <1>2, <2>1, WordFacts
      <3>. QED BY <1>1, <3>1 DEF Inv, Deleting
    <2>. QED BY <1>1, <1>2, <2>1 DEF Deleting
  <1>7. ValuesKept' /\ ChangesReported' /\ Searching'
    <2>1. value' = original' /\ item' = 1 /\ pass' = "delete"
      BY <1>1, <1>2, <1>3
    <2>2. value_changes = {}
      BY <1>3 DEF Inv, ChangesReported
    <2>3. ValuesKept'
      BY <1>1, <1>2, <1>3 DEF Inv, ValuesKept
    <2>. QED BY <1>1, <2>1, <2>2, <2>3 DEF ChangesReported, Searching
  <1>8. NeededSoFar'
    <2>1. ASSUME NEW p \in minimized', p < cursor + 1
          PROVE  Ruled(rejected, Part(value, minimized' \ {p}))
      <3>. p \in Positions /\ p \in minimized
        BY <1>2
      <3>1. CASE p = cursor
        <4>1. minimized' = minimized /\ Part(original, minimized \ {cursor}) \notin accepted
          BY <1>1, <3>1
        <4>2. Part(original, minimized \ {cursor}) \in rejected
          <5>1. ~Deletion!Done
            BY <1>1, <1>2, LenAssumption, WordAssumption DEF Deletion!Done
          <5>2. Part(original, minimized \ {cursor}) \in Asked
            BY <1>1, <5>1 DEF Asked, Deletion!Candidate
          <5>. QED BY <1>1, <4>1, <5>2 DEF Answered
        <4>3. Smaller(Part(value, minimized \ {p}), Part(original, minimized \ {cursor}))
          BY <1>2, <1>3, <3>1, PartSmaller, WordFacts DEF Inv, TypeOK
        <4>. QED BY <4>1, <4>2, <4>3 DEF Ruled
      <3>2. CASE p # cursor
        <4>1. p < cursor
          BY <1>2, <2>1, <3>2, WordFacts
        <4>2. Ruled(rejected, Part(value, minimized \ {p}))
          BY <4>1 DEF Inv, NeededSoFar
        <4>3. Smaller(Part(value, minimized' \ {p}), Part(value, minimized \ {p}))
          BY <1>2, PartSmaller, WordFacts DEF Inv, TypeOK
        <4>4. /\ Part(value, minimized' \ {p}) \in Candidates
              /\ Part(value, minimized \ {p}) \in Candidates
          BY <1>2, PartOf DEF Inv, TypeOK
        <4>. QED BY <4>2, <4>3, <4>4, SmallerRuled DEF Inv, TypeOK
      <3>. QED BY <3>1, <3>2
    <2>. QED BY <1>1, <2>1 DEF NeededSoFar
  <1>9. SmallSoFar'
    BY <1>1, <1>2, WordFacts DEF SmallSoFar
  <1>. QED BY <1>1, <1>4, <1>5, <1>6, <1>7, <1>8, <1>9 DEF Inv

LEMMA DeletionDoneInv == Inv /\ DeletionDone => Inv'
  <1>. SUFFICES ASSUME Inv, DeletionDone PROVE Inv'
    OBVIOUS
  <1>1. /\ pass = "delete" /\ cursor > Len
        /\ pass' = IF bisect_value THEN "items" ELSE "done"
        /\ UNCHANGED <<original, bisect_value, min_value, allowed, accepted, rejected,
                       minimized, cursor, value, item, value_changes, lo, hi, best, running>>
    BY DEF DeletionDone, Deletion!Done, options, oracle, deletion, second, search
  <1>2. cursor = Len + 1
    BY <1>1, LenAssumption, WordAssumption DEF Inv, TypeOK
  <1>3. TypeOK'
    BY <1>1 DEF Inv, TypeOK
  <1>4. CurrentViolates' /\ Deleting' /\ ValuesKept' /\ ChangesReported' /\ Searching'
    BY <1>1, <1>2 DEF Inv, CurrentViolates, Current, Deleting, ValuesKept, ChangesReported,
                      Searching
  <1>5. NeededSoFar' /\ SmallSoFar'
    BY <1>1 DEF Inv, NeededSoFar, SmallSoFar, Ruled, Current
  <1>. QED BY <1>1, <1>3, <1>4, <1>5 DEF Inv

-----------------------------------------------------------------------------
(* Second pass *)

LEMMA SkipItemInv == Inv /\ SkipItem => Inv'
  <1>. SUFFICES ASSUME Inv, SkipItem PROVE Inv'
    OBVIOUS
  <1>1. /\ pass = "items" /\ item <= Len /\ Skipped
        /\ item' = item + 1
        /\ UNCHANGED <<original, bisect_value, min_value, allowed, accepted, rejected, pass,
                       minimized, cursor, value, value_changes, lo, hi, best, running>>
    BY DEF SkipItem, options, oracle, deletion, search
  <1>2. item \in Nat /\ item + 1 \in 1 .. (Len + 1) /\ minimized \in SUBSET Positions
    BY <1>1, LenAssumption, WordAssumption DEF Inv, TypeOK
  <1>3. TypeOK'
    BY <1>1, <1>2 DEF Inv, TypeOK
  <1>4. CurrentViolates' /\ Deleting' /\ ChangesReported' /\ Searching' /\ NeededSoFar'
    BY <1>1 DEF Inv, CurrentViolates, Current, Deleting, ChangesReported, Searching,
                NeededSoFar, Ruled
  <1>5. ValuesKept'
    <2>1. \A p \in Positions : p >= item + 1 => p >= item
      BY <1>2, WordFacts
    <2>. QED BY <1>1, <2>1 DEF Inv, ValuesKept
  <1>6. SmallSoFar'
    <2>1. ASSUME NEW p \in minimized, p < item + 1, p \in allowed, value[p] > min_value
          PROVE  Ruled(rejected, [Current EXCEPT ![p] = value[p] - 1])
      <3>1. p # item
        <4>1. value[p] \in Nat /\ min_value \in Nat
          BY <1>2, WordFacts DEF Inv, TypeOK
        <4>. QED BY <1>1, <2>1, <4>1 DEF Skipped
      <3>2. p < item
        BY <1>2, <2>1, <3>1, WordFacts
      <3>. QED BY <2>1, <3>2 DEF Inv, SmallSoFar
    <2>. QED BY <1>1, <2>1 DEF SmallSoFar, Ruled, Current
  <1>. QED BY <1>1, <1>3, <1>4, <1>5, <1>6 DEF Inv

LEMMA StartSearchInv == Inv /\ StartSearch => Inv'
  <1>. SUFFICES ASSUME Inv, StartSearch PROVE Inv'
    OBVIOUS
  <1>1. /\ pass = "items" /\ item <= Len /\ ~Skipped /\ pass' = "bisect"
        /\ lo' = min_value /\ hi' = value[item] /\ best' = value[item] /\ running' = TRUE
        /\ UNCHANGED <<original, bisect_value, min_value, allowed, accepted, rejected,
                       minimized, cursor, value, item, value_changes>>
    BY DEF StartSearch, options, oracle, deletion, second
  <1>2. /\ item \in Positions /\ item \in minimized /\ item \in allowed
        /\ value[item] \in Words /\ min_value \in Words /\ min_value < value[item]
    BY <1>1, WordFacts DEF Inv, TypeOK, Skipped
  <1>3. TypeOK'
    BY <1>1, <1>2 DEF Inv, TypeOK
  <1>4. CurrentViolates' /\ Deleting' /\ ValuesKept' /\ ChangesReported'
        /\ NeededSoFar' /\ SmallSoFar'
    BY <1>1 DEF Inv, CurrentViolates, Current, Deleting, ValuesKept, ChangesReported,
                NeededSoFar, SmallSoFar, Ruled
  <1>5. RewriteAmount(value[item]) = Current
    BY <1>2 DEF RewriteAmount, Current, Part
  <1>6. RewriteAmount(best)' \in accepted'
    <2>1. RewriteAmount(best)' = RewriteAmount(value[item])
      BY <1>1 DEF RewriteAmount, Current
    <2>. QED BY <1>1, <1>5, <2>1 DEF Inv, CurrentViolates
  <1>7. Searching'
    BY <1>1, <1>2, <1>6, WordFacts DEF Searching
  <1>. QED BY <1>1, <1>3, <1>4, <1>7 DEF Inv

LEMMA SearchStepInv == Inv /\ SearchStep => Inv'
  <1>. SUFFICES ASSUME Inv, SearchStep PROVE Inv'
    OBVIOUS
  <1>. DEFINE m == Search!Mid
  <1>1. /\ pass = "bisect" /\ running /\ Answered /\ Search!Step
        /\ UNCHANGED <<original, bisect_value, min_value, allowed, accepted, rejected, pass,
                       minimized, cursor, value, item, value_changes>>
    BY DEF SearchStep, options, oracle, deletion, second
  <1>2. /\ item \in minimized /\ item \in allowed /\ min_value < value[item]
        /\ min_value <= lo /\ lo <= best /\ best <= value[item]
        /\ RewriteAmount(best) \in accepted
        /\ lo = min_value \/ RewriteAmount(lo - 1) \in rejected
        /\ best = hi + 1 \/ (best = hi /\ hi = value[item])
    BY <1>1 DEF Inv, Searching
  <1>3. /\ lo \in Nat /\ hi \in Nat /\ best \in Nat /\ min_value \in Nat /\ value[item] \in Nat
        /\ lo <= MaxWord /\ hi <= MaxWord /\ best <= MaxWord /\ value[item] <= MaxWord
        /\ item \in Positions
    BY <1>2, WordFacts DEF Inv, TypeOK
  <1>4. /\ \/ lo > hi /\ running' = FALSE /\ UNCHANGED <<lo, hi, best>>
           \/ /\ lo <= hi /\ RewriteAmount(m) \in accepted /\ best' = m /\ lo' = lo
              /\ \/ m = 0 /\ running' = FALSE /\ hi' = hi
                 \/ m # 0 /\ hi' = m - 1 /\ running' = running
           \/ /\ lo <= hi /\ RewriteAmount(m) \notin accepted
              /\ lo' = (IF m = MaxWord THEN MaxWord ELSE m + 1)
              /\ UNCHANGED <<hi, best, running>>
    <2>1. lo <= hi => m \in Words
      BY MidFacts DEF Inv
    <2>. QED BY <1>1, <2>1 DEF Search!Step, Search!Leave, Search!Lower, Search!Raise,
                               Search!SaturatingSub1, Search!SaturatingAdd1
  <1>5. lo <= hi => m \in Nat /\ lo <= m /\ m <= hi /\ m <= MaxWord
    BY MidFacts, WordFacts DEF Inv
  <1>6. lo <= hi => RewriteAmount(m) \in accepted \cup rejected
    BY <1>1 DEF Answered, Asked
  <1>. HIDE DEF m
  <1>7. /\ lo' \in Nat /\ hi' \in Nat /\ best' \in Nat
        /\ lo' <= MaxWord /\ hi' <= MaxWord /\ best' <= MaxWord /\ running' \in BOOLEAN
    <2>1. CASE lo > hi /\ running' = FALSE /\ UNCHANGED <<lo, hi, best>>
      BY <1>3, <2>1
    <2>2. CASE /\ lo <= hi /\ best' = m /\ lo' = lo
               /\ \/ m = 0 /\ running' = FALSE /\ hi' = hi
                  \/ m # 0 /\ hi' = m - 1 /\ running' = running
      <3>1. running' \in BOOLEAN
        BY <1>1, <2>2
      <3>2. hi' \in Nat /\ hi' <= MaxWord
        <4>1. CASE m = 0
          BY <1>3, <2>2, <4>1
        <4>2. CASE m # 0
          BY <1>5, <2>2, <4>2, LenAssumption, WordAssumption
        <4>. QED BY <4>1, <4>2
      <3>. QED BY <1>3, <1>5, <2>2, <3>1, <3>2
    <2>3. CASE /\ lo <= hi /\ lo' = (IF m = MaxWord THEN MaxWord ELSE m + 1)
               /\ UNCHANGED <<hi, best, running>>
      <3>1. lo' \in Nat /\ lo' <= MaxWord
        BY <1>5, <2>3, LenAssumption, WordAssumption
      <3>. QED BY <1>1, <1>3, <2>3, <3>1
    <2>. QED BY <1>4, <2>1, <2>2, <2>3
  <1>8. TypeOK'
    BY <1>1, <1>7, WordFacts DEF Inv, TypeOK
  <1>9. \A v : RewriteAmount(v)' = RewriteAmount(v')
    BY <1>1 DEF RewriteAmount, Current
  <1>10. min_value <= lo' /\ lo' <= best' /\ best' <= value[item]
    <2>1. CASE lo > hi /\ UNCHANGED <<lo, hi, best>>
      BY <1>2, <2>1
    <2>2. CASE lo <= hi /\ best' = m /\ lo' = lo
      BY <1>2, <1>3, <1>5, <2>2
    <2>3. CASE /\ lo <= hi /\ RewriteAmount(m) \notin accepted
               /\ lo' = (IF m = MaxWord THEN MaxWord ELSE m + 1) /\ best' = best
      <3>1. m # best
        BY <1>2, <2>3
      <3>2. m < best
        BY <1>2, <1>3, <1>5, <2>3, <3>1
      <3>. QED BY <1>2, <1>3, <1>5, <2>3, <3>2
    <2>. QED BY <1>4, <2>1, <2>2, <2>3
  <1>11. /\ RewriteAmount(best') \in accepted
         /\ lo' = min_value \/ RewriteAmount(lo' - 1) \in rejected
    <2>1. CASE UNCHANGED <<lo, best>>
      BY <1>2, <2>1
    <2>2. CASE RewriteAmount(m) \in accepted /\ best' = m /\ lo' = lo
      BY <1>2, <2>2
    <2>3. CASE /\ lo <= hi /\ RewriteAmount(m) \notin accepted
               /\ lo' = (IF m = MaxWord THEN MaxWord ELSE m + 1) /\ best' = best
      <3>1. m # best
        BY <1>2, <2>3
      <3>2. m < MaxWord
        <4>1. m < best
          BY <1>2, <1>3, <1>5, <2>3, <3>1
        <4>. QED BY <1>3, <1>5, <2>3, <4>1, LenAssumption, WordAssumption
      <3>3. lo' - 1 = m
        BY <1>5, <2>3, <3>2
      <3>. QED BY <1>2, <1>6, <2>3, <3>3
    <2>. QED BY <1>4, <2>1, <2>2, <2>3
  <1>12. /\ running' => best' = hi' + 1 \/ (best' = hi' /\ hi' = value[item])
         /\ ~running' => best' = lo' \/ best' = 0
    <2>1. CASE lo > hi /\ running' = FALSE /\ UNCHANGED <<lo, hi, best>>
      BY <1>2, <1>3, <2>1
    <2>2. CASE lo <= hi /\ best' = m /\ m = 0 /\ running' = FALSE
      BY <2>2
    <2>3. CASE lo <= hi /\ best' = m /\ m # 0 /\ hi' = m - 1 /\ running' = running
      BY <1>1, <1>5, <2>3
    <2>4. CASE UNCHANGED <<hi, best, running>>
      BY <1>1, <1>2, <2>4
    <2>. QED BY <1>4, <2>1, <2>2, <2>3, <2>4
  <1>13. Searching'
    BY <1>1, <1>2, <1>9, <1>10, <1>11, <1>12 DEF Searching
  <1>14. CurrentViolates' /\ Deleting' /\ ValuesKept' /\ ChangesReported'
         /\ NeededSoFar' /\ SmallSoFar'
    BY <1>1 DEF Inv, CurrentViolates, Current, Deleting, ValuesKept, ChangesReported,
                NeededSoFar, SmallSoFar, Ruled
  <1>. QED BY <1>1, <1>8, <1>13, <1>14 DEF Inv

\* A sequence with one value replaced by a smaller one is smaller.
LEMMA ReplacedSmaller ==
    ASSUME NEW f \in [Positions -> Words], NEW S \in SUBSET Positions,
           NEW p \in S, NEW v \in Words, v <= f[p]
    PROVE  Smaller([Part(f, S) EXCEPT ![p] = v], Part(f, S))
  BY WordFacts DEF Smaller, Part

LEMMA SearchDoneInv == Inv /\ SearchDone => Inv'
  <1>. SUFFICES ASSUME Inv, SearchDone PROVE Inv'
    OBVIOUS
  <1>1. /\ pass = "bisect" /\ ~running
        /\ value' = [value EXCEPT ![item] = best]
        /\ value_changes' =
              IF best # value[item]
              THEN value_changes \cup {[original_index |-> item, before |-> value[item],
                                        after |-> best]}
              ELSE value_changes
        /\ item' = item + 1 /\ pass' = "items"
        /\ UNCHANGED <<original, bisect_value, min_value, allowed, accepted, rejected,
                       minimized, cursor, lo, hi, best, running>>
    BY DEF SearchDone, WriteBack, options, oracle, deletion, search
  <1>2. /\ item \in minimized /\ item \in allowed /\ min_value < value[item]
        /\ min_value <= lo /\ lo <= best /\ best <= value[item]
        /\ RewriteAmount(best) \in accepted
        /\ lo = min_value \/ RewriteAmount(lo - 1) \in rejected
        /\ best = lo \/ best = 0
    BY <1>1 DEF Inv, Searching
  <1>3. /\ item \in Positions /\ best \in Words /\ lo \in Words /\ min_value \in Words
        /\ minimized \in SUBSET Positions /\ value \in [Positions -> Words]
        /\ original \in [Positions -> Words] /\ accepted \in SUBSET Candidates
        /\ rejected \in SUBSET Candidates /\ value_changes \in SUBSET Changes
    BY <1>2 DEF Inv, TypeOK
  <1>4. value' \in [Positions -> Words] /\ value'[item] = best
        /\ \A p \in Positions : p # item => value'[p] = value[p]
    BY <1>1, <1>3
  <1>5. \A p \in Positions : value'[p] <= value[p]
    BY <1>2, <1>3, <1>4, WordFacts
  <1>6. value[item] = original[item]
    BY <1>3, WordFacts DEF Inv, ValuesKept
  <1>7. TypeOK'
    <2>1. item + 1 \in 1 .. (Len + 1)
      BY <1>3, WordFacts, LenAssumption, WordAssumption
    <2>2. [original_index |-> item, before |-> value[item], after |-> best] \in Changes
      BY <1>3 DEF Changes
    <2>3. value_changes' \in SUBSET Changes
      BY <1>1, <1>3, <2>2
    <2>. QED BY <1>1, <1>4, <2>1, <2>3 DEF Inv, TypeOK
  <1>8. Current' = RewriteAmount(best)
    BY <1>1, <1>2, <1>3, <1>4 DEF Current, RewriteAmount, Part
  <1>9. CurrentViolates'
    BY <1>1, <1>2, <1>8 DEF CurrentViolates
  <1>10. Deleting' /\ Searching'
    BY <1>1 DEF Inv, Deleting, Searching
  <1>11. ValuesKept'
    <2>1. ASSUME NEW p \in Positions
          PROVE  /\ value'[p] <= original[p]
                 /\ p >= item + 1 => value'[p] = original[p]
                 /\ value'[p] # original[p] =>
                       p \in minimized /\ p \in allowed /\ min_value <= value'[p]
      <3>1. CASE p = item
        <4>1. /\ value'[p] = best /\ best <= original[p] /\ min_value <= best
              /\ p \in minimized /\ p \in allowed
          BY <1>2, <1>3, <1>4, <1>6, <3>1, WordFacts
        <4>2. ~(p >= item + 1)
          BY <1>3, <3>1, WordFacts
        <4>. QED BY <4>1, <4>2
      <3>2. CASE p # item
        <4>1. value'[p] = value[p]
          BY <1>4, <3>2
        <4>2. p >= item + 1 => p >= item
          BY <1>3, WordFacts
        <4>. QED BY <4>1, <4>2 DEF Inv, ValuesKept
      <3>. QED BY <3>1, <3>2
    <2>. QED BY <1>1, <2>1 DEF ValuesKept
  <1>12. ChangesReported'
    <2>. DEFINE told(p)  == [original_index |-> p, before |-> original[p], after |-> value[p]]
                told2(p) == [original_index |-> p, before |-> original[p], after |-> value'[p]]
                changed  == {q \in minimized : value[q] # original[q]}
                changed2 == {q \in minimized : value'[q] # original[q]}
    <2>1. value_changes = {told(p) : p \in changed}
      BY DEF Inv, ChangesReported
    <2>2. item \notin changed /\ \A p \in changed : told2(p) = told(p) /\ p \in Positions
      BY <1>3, <1>4, <1>6
    <2>3. CASE best = value[item]
      <3>1. changed2 = changed
        BY <1>3, <1>4, <1>6, <2>3
      <3>2. {told2(p) : p \in changed2} = {told(p) : p \in changed}
        BY <2>2, <3>1
      <3>. QED BY <1>1, <2>1, <2>3, <3>2 DEF ChangesReported
    <2>4. CASE best # value[item]
      <3>1. changed2 = changed \cup {item}
        BY <1>2, <1>3, <1>4, <1>6, <2>4
      <3>2. told2(item) = [original_index |-> item, before |-> value[item], after |-> best]
        BY <1>4, <1>6
      <3>3. {told2(p) : p \in changed2} = {told(p) : p \in changed} \cup {told2(item)}
        BY <2>2, <3>1
      <3>. QED BY <1>1, <2>1, <2>4, <3>2, <3>3 DEF ChangesReported
    <2>. QED BY <2>3, <2>4
  <1>13. NeededSoFar'
    <2>1. ASSUME NEW p \in minimized, p < cursor
          PROVE  Ruled(rejected, Part(value', minimized \ {p}))
      <3>1. Ruled(rejected, Part(value, minimized \ {p}))
        BY <2>1 DEF Inv, NeededSoFar
      <3>2. minimized \ {p} \in SUBSET Positions /\ \A q \in minimized \ {p} : value'[q] <= value[q]
        BY <1>3, <1>5
      <3>3. Smaller(Part(value', minimized \ {p}), Part(value, minimized \ {p}))
        BY <1>3, <1>4, <3>2, PartSmaller
      <3>4. Part(value', minimized \ {p}) \in Candidates /\ Part(value, minimized \ {p}) \in Candidates
        BY <1>3, <1>4, <3>2, PartOf
      <3>. QED BY <1>3, <3>1, <3>3, <3>4, SmallerRuled
    <2>. QED BY <1>1, <2>1 DEF NeededSoFar
  <1>14. SmallSoFar'
    <2>1. ASSUME NEW p \in minimized, p < item + 1, p \in allowed, value'[p] > min_value
          PROVE  Ruled(rejected, [Current' EXCEPT ![p] = value'[p] - 1])
      <3>1. /\ p \in Positions /\ value'[p] - 1 \in Words
            /\ value'[p] \in Nat /\ value[p] \in Nat
        <4>1. p \in Positions /\ value'[p] \in Words /\ value[p] \in Words
          BY <1>3, <1>4
        <4>2. value'[p] \in Nat /\ value'[p] <= MaxWord /\ min_value \in Nat /\ value[p] \in Nat
          BY <1>3, <4>1, WordFacts
        <4>3. value'[p] - 1 \in Nat /\ value'[p] - 1 <= MaxWord
          BY <2>1, <4>2, LenAssumption, WordAssumption
        <4>. QED BY <4>1, <4>2, <4>3, WordFacts
      <3>2. CASE p = item
        <4>1. best = lo /\ lo # min_value
          BY <1>2, <1>3, <1>4, <2>1, <3>2, WordFacts
        <4>2. RewriteAmount(best - 1) \in rejected
          BY <1>2, <4>1
        <4>3. [Current' EXCEPT ![p] = value'[p] - 1] = RewriteAmount(best - 1)
          BY <1>4, <1>8, <3>2 DEF RewriteAmount, Current, Part
        <4>4. Smaller(RewriteAmount(best - 1), RewriteAmount(best - 1))
          BY <1>3, <4>2, CandidateFacts DEF Smaller
        <4>. QED BY <4>2, <4>3, <4>4 DEF Ruled
      <3>3. CASE p # item
        <4>1. p < item /\ value'[p] = value[p]
          BY <1>3, <1>4, <2>1, <3>1, <3>3, WordFacts
        <4>2. Ruled(rejected, [Current EXCEPT ![p] = value[p] - 1])
          BY <2>1, <4>1 DEF Inv, SmallSoFar
        <4>3. Current \in [minimized -> Words] /\ Current' \in [minimized -> Words]
              /\ \A q \in minimized : Current'[q] <= Current[q]
          BY <1>1, <1>3, <1>4, <1>5 DEF Current, Part
        <4>4. Smaller([Current' EXCEPT ![p] = value'[p] - 1], [Current EXCEPT ![p] = value[p] - 1])
          BY <3>1, <4>1, <4>3, WordFacts DEF Smaller
        <4>5. /\ [Current' EXCEPT ![p] = value'[p] - 1] \in Candidates
              /\ [Current EXCEPT ![p] = value[p] - 1] \in Candidates
          BY <1>3, <3>1, <4>1, <4>3 DEF Candidates
        <4>. QED BY <1>3, <4>2, <4>4, <4>5, SmallerRuled
      <3>. QED BY <3>2, <3>3
    <2>. QED BY <1>1, <2>1 DEF SmallSoFar
  <1>. QED BY <1>1, <1>7, <1>9, <1>10, <1>11, <1>12, <1>13, <1>14 DEF Inv

LEMMA ItemsDoneInv == Inv /\ ItemsDone => Inv'
  <1>. SUFFICES ASSUME Inv, ItemsDone PROVE Inv'
    OBVIOUS
  <1>1. /\ pass = "items" /\ item > Len /\ pass' = "done"
        /\ UNCHANGED <<original, bisect_value, min_value, allowed, accepted, rejected,
                       minimized, cursor, value, item, value_changes, lo, hi, best, running>>
    BY DEF ItemsDone, options, oracle, deletion, second, search
  <1>2. item = Len + 1
    BY <1>1, LenAssumption, WordAssumption DEF Inv, TypeOK
  <1>3. TypeOK' /\ CurrentViolates' /\ Deleting' /\ ValuesKept' /\ ChangesReported'
        /\ Searching' /\ NeededSoFar' /\ SmallSoFar'
    BY <1>1 DEF Inv, TypeOK, CurrentViolates, Current, Deleting, ValuesKept, ChangesReported,
                Searching, NeededSoFar, SmallSoFar, Ruled
  <1>. QED BY <1>1, <1>2, <1>3 DEF Inv

LEMMA StutterInv == Inv /\ UNCHANGED vars => Inv'
  <1>. SUFFICES ASSUME Inv, UNCHANGED vars PROVE Inv'
    OBVIOUS
  <1>1. UNCHANGED <<original, bisect_value, min_value, allowed, accepted, rejected, pass,
                    minimized, cursor, value, item, value_changes, lo, hi, best, running>>
    BY DEF vars, options, oracle, deletion, second, search
  <1>2. TypeOK' /\ CurrentViolates' /\ Deleting' /\ ValuesKept' /\ ChangesReported'
        /\ NeededSoFar' /\ SmallSoFar'
    BY <1>1 DEF Inv, TypeOK, CurrentViolates, Current, Deleting, ValuesKept, ChangesReported,
                NeededSoFar, SmallSoFar, Ruled
  <1>3. Searching'
    BY <1>1 DEF Inv, Searching, RewriteAmount, Current
  <1>. QED BY <1>1, <1>2, <1>3 DEF Inv

-----------------------------------------------------------------------------
(* Theorems *)

LEMMA Invariance == Spec => []Inv
  <1>1. Inv /\ [Next]_vars => Inv'
    BY ViolatesInv, DeleteStepInv, DeletionDoneInv, SkipItemInv, StartSearchInv,
       SearchStepInv, SearchDoneInv, ItemsDoneInv, StutterInv DEF Next
  <1>. QED BY InitInv, <1>1, PTL DEF Spec

\* Every variable keeps its type: the index never leaves the sequence, the
\* bounds of a search stay words.
THEOREM Typing == Spec => []TypeOK
  <1>1. Inv => TypeOK
    BY DEF Inv
  <1>. QED BY Invariance, <1>1, PTL

\* The sequence held is at every time one the predicate accepted.
THEOREM CurrentAlwaysViolates == Spec => []CurrentViolates
  <1>1. Inv => CurrentViolates
    BY DEF Inv
  <1>. QED BY Invariance, <1>1, PTL

\* Each transaction and each decrement of the result was ruled out, for
\* sequences and words of every size and predicates that need not be monotonic.
THEOREM ResultIsMinimal == Spec => []ResultMinimal
  <1>1. Inv => ResultMinimal
    <2>. SUFFICES ASSUME Inv, pass = "done", NEW p \in minimized
                  PROVE  /\ RuledOut(Part(value, minimized \ {p}))
                         /\ (bisect_value /\ p \in allowed /\ value[p] > min_value)
                               => RuledOut([Current EXCEPT ![p] = value[p] - 1])
      BY DEF ResultMinimal
    <2>1. cursor = Len + 1 /\ (bisect_value => item = Len + 1) /\ p \in Positions
      BY DEF Inv, Deleting, TypeOK
    <2>2. p < cursor /\ (bisect_value => p < item)
      BY <2>1, WordFacts, LenAssumption, WordAssumption
    <2>. QED BY <2>2 DEF Inv, NeededSoFar, SmallSoFar, Ruled, RuledOut
  <1>. QED BY Invariance, <1>1, PTL

\* The summary is the whole difference between the original and the result.
THEOREM SummaryIsAccurate == Spec => []SummaryAccurate
  <1>1. Inv => SummaryAccurate
    <2>. SUFFICES ASSUME Inv PROVE SummaryAccurate
      OBVIOUS
    <2>1. Positions \ RemovedIndices = DOMAIN Current
      BY DEF Inv, TypeOK, RemovedIndices, Current, Part
    <2>2. ASSUME NEW p \in Positions, value[p] # original[p]
          PROVE  p \in allowed /\ value[p] \in min_value .. (original[p] - 1)
      <3>1. p \in allowed /\ value[p] <= original[p] /\ min_value <= value[p]
        BY <2>2 DEF Inv, ValuesKept
      <3>2. value[p] \in Nat /\ original[p] \in Nat /\ min_value \in Nat
        BY WordFacts DEF Inv, TypeOK
      <3>. QED BY <2>2, <3>1, <3>2
    <2>. QED BY <2>1, <2>2 DEF SummaryAccurate, Inv, ChangesReported
  <1>. QED BY Invariance, <1>1, PTL

\* No step of either pass makes the sequence larger.
THEOREM ShrinksOnly == Spec => OnlyShrinks
  <1>1. Inv /\ [Next]_vars => [Smaller(Current', Current)]_vars
    <2>. SUFFICES ASSUME Inv, Next PROVE Smaller(Current', Current)
      OBVIOUS
    <2>1. value \in [Positions -> Words] /\ minimized \in SUBSET Positions
      BY DEF Inv, TypeOK
    <2>2. CASE UNCHANGED <<value, minimized>>
      BY <2>1, <2>2, PartSmaller, WordFacts DEF Current
    <2>3. CASE DeleteStep
      <3>1. value' = value /\ minimized' \in SUBSET minimized
        BY <2>3 DEF DeleteStep, second, Deletion!Next, Deletion!Drop, Deletion!Keep,
                    Deletion!Candidate
      <3>. QED BY <2>1, <3>1, PartSmaller, WordFacts DEF Current
    <2>4. CASE SearchDone
      <3>1. /\ minimized' = minimized /\ value' = [value EXCEPT ![item] = best]
            /\ item \in minimized /\ best <= value[item] /\ best \in Words
        BY <2>4 DEF SearchDone, WriteBack, deletion, Inv, TypeOK, Searching
      <3>2. value' \in [Positions -> Words] /\ \A p \in minimized : value'[p] <= value[p]
        BY <2>1, <3>1, WordFacts
      <3>. QED BY <2>1, <3>1, <3>2, PartSmaller DEF Current
    <2>. QED BY <2>2, <2>3, <2>4 DEF Next, Violates, DeletionDone, SkipItem, StartSearch,
                                   SearchStep, ItemsDone, deletion, second
  <1>. QED BY Invariance, <1>1, PTL DEF OnlyShrinks, Spec

-----------------------------------------------------------------------------
(* That it ends *)

\* What is left to do, the most significant part first: passes, transactions
\* of the first and of the second pass, the search of one, the values between
\* its ends, the answer it waits for.
Stage == CASE pass = "delete"              -> 2
           [] pass \in {"items", "bisect"} -> 1
           [] pass = "done"                -> 0

Between == IF pass = "bisect" /\ running THEN hi + 2 - lo ELSE 0

Left == << Stage,
           Len + 1 - cursor,
           Len + 1 - item,
           IF pass = "items" THEN 1 ELSE 0,
           Between,
           IF Answered THEN 0 ELSE 1 >>

Parts      == 1 .. 6
Less(l, m) == \E i \in Parts : l[i] < m[i] /\ \A j \in Parts : j < i => l[j] = m[j]

LEMMA LeftIsNatural == Inv => Left \in [Parts -> Nat]
  <1>. SUFFICES ASSUME Inv PROVE Left \in [Parts -> Nat]
    OBVIOUS
  <1>1. Stage \in Nat
    BY DEF Inv, TypeOK, Stage
  <1>2. Len + 1 - cursor \in Nat /\ Len + 1 - item \in Nat
    BY LenAssumption, WordAssumption DEF Inv, TypeOK
  <1>3. pass = "bisect" /\ running => hi + 2 - lo \in Nat
    <2>. SUFFICES ASSUME pass = "bisect", running PROVE hi + 2 - lo \in Nat
      OBVIOUS
    <2>1. lo <= best /\ (best = hi + 1 \/ best = hi)
      BY DEF Inv, Searching
    <2>2. lo \in Nat /\ hi \in Nat /\ best \in Nat
      BY WordFacts DEF Inv, TypeOK
    <2>. QED BY <2>1, <2>2
  <1>. QED BY <1>1, <1>2, <1>3 DEF Left, Parts, Between

\* The ends of a search come closer, or it is over.
LEMMA SearchAdvances ==
    ASSUME Inv, SearchStep, running'
    PROVE  hi' + 2 - lo' < hi + 2 - lo
  <1>1. pass = "bisect" /\ running /\ Answered
    BY DEF SearchStep
  <1>2. lo \in Nat /\ hi \in Nat /\ best \in Nat /\ MaxWord \in Nat /\ best <= MaxWord
    BY WordFacts, LenAssumption, WordAssumption DEF Inv, TypeOK
  <1>3. CASE Search!Lower
    <2>1. lo <= hi /\ lo' = lo /\ Search!Mid # 0 /\ hi' = Search!Mid - 1
      BY <1>3 DEF Search!Lower, Search!SaturatingSub1
    <2>. QED BY <1>2, <2>1 DEF Search!Mid
  <1>4. CASE Search!Raise
    <2> DEFINE m == Search!Mid
    <2>1. lo <= hi /\ hi' = hi /\ RewriteAmount(m) \notin accepted
      <3>1. lo <= hi /\ hi' = hi /\ m \notin {v \in Words : RewriteAmount(v) \in accepted}
        BY <1>4 DEF Search!Raise
      <3>. QED BY <3>1, MidFacts DEF Inv
    <2>2. m \in Nat /\ lo <= m /\ m <= hi
      BY <1>2, <2>1 DEF Search!Mid
    <2>3. RewriteAmount(best) \in accepted /\ (best = hi + 1 \/ best = hi)
      BY <1>1 DEF Inv, Searching
    <2>4. lo' = IF m = MaxWord THEN MaxWord ELSE m + 1
      BY <1>4 DEF Search!Raise, Search!SaturatingAdd1
    <2>5. m # best
      BY <2>1, <2>3
    <2> HIDE DEF m
    <2>. QED BY <1>2, <2>1, <2>2, <2>3, <2>4, <2>5
  <1>. QED BY <1>3, <1>4 DEF SearchStep, Search!Step, Search!Leave

LEMMA NextAdvances == Inv /\ Next => Less(Left', Left)
  <1>. SUFFICES ASSUME Inv, Next PROVE Less(Left', Left)
    OBVIOUS
  <1>0. /\ Len \in Nat /\ cursor \in Nat /\ item \in Nat /\ pass \in {"delete", "items", "bisect", "done"}
        /\ lo \in Int /\ hi \in Int
    BY WordFacts, LenAssumption, WordAssumption DEF Inv, TypeOK
  <1>1. CASE Violates
    <2>1. Left'[6] < Left[6]
      <3>1. ~Answered
        BY <1>1 DEF Violates
      <3>2. Asked' = Asked
        BY <1>1 DEF Violates, Asked, options, deletion, second, search, Part, RewriteAmount,
                    Current, Deletion!Done, Deletion!Candidate, Search!Mid
      <3>3. Answered'
        BY <1>1, <3>2 DEF Violates, Answered
      <3>. QED BY <3>1, <3>3 DEF Left
    <2>2. UNCHANGED <<pass, cursor, item, running, lo, hi>>
      BY <1>1 DEF Violates, deletion, second, search
    <2>3. Stage' = Stage /\ Between' = Between
      BY <2>2 DEF Stage, Between
    <2>4. \A j \in Parts : j < 6 => Left'[j] = Left[j]
      BY <2>2, <2>3 DEF Left, Parts
    <2>. QED BY <2>1, <2>4 DEF Less, Parts
  <1>2. CASE DeleteStep
    <2>1. cursor' = cursor + 1 /\ pass' = pass
      BY <1>2 DEF DeleteStep, Deletion!Next, Deletion!Drop, Deletion!Keep
    <2>. QED BY <1>0, <2>1 DEF Less, Left, Parts, Stage
  <1>3. CASE DeletionDone
    <2>1. pass = "delete" /\ pass' \in {"items", "done"}
      BY <1>3 DEF DeletionDone
    <2>. QED BY <2>1 DEF Less, Left, Parts, Stage
  <1>4. CASE SkipItem
    <2>1. item' = item + 1 /\ pass' = pass /\ cursor' = cursor
      BY <1>4 DEF SkipItem, deletion
    <2>. QED BY <1>0, <2>1 DEF Less, Left, Parts, Stage
  <1>5. CASE StartSearch
    <2>1. pass = "items" /\ pass' = "bisect" /\ item' = item /\ cursor' = cursor
      BY <1>5 DEF StartSearch, deletion, second
    <2>. QED BY <1>0, <2>1 DEF Less, Left, Parts, Stage
  <1>6. CASE SearchStep
    <2>1. pass = "bisect" /\ running /\ pass' = pass /\ item' = item /\ cursor' = cursor
      BY <1>6 DEF SearchStep, deletion, second
    <2>2. Left'[5] < Left[5]
      <3>1. hi + 2 - lo > 0
        <4>1. lo <= best /\ (best = hi + 1 \/ best = hi) /\ best \in Int
          BY <2>1, WordFacts DEF Inv, TypeOK, Searching
        <4>. QED BY <1>0, <4>1
      <3>2. CASE running'
        <4>1. hi' + 2 - lo' < hi + 2 - lo
          BY <1>6, <3>2, SearchAdvances
        <4>. QED BY <2>1, <3>2, <4>1 DEF Left, Between
      <3>3. CASE ~running'
        BY <2>1, <3>1, <3>3 DEF Left, Between
      <3>. QED BY <3>2, <3>3
    <2>3. \A j \in Parts : j < 5 => Left'[j] = Left[j]
      BY <2>1 DEF Left, Parts, Stage
    <2>. QED BY <2>2, <2>3 DEF Less, Parts
  <1>7. CASE SearchDone
    <2>1. item' = item + 1 /\ pass = "bisect" /\ pass' = "items" /\ cursor' = cursor
      BY <1>7 DEF SearchDone, WriteBack, deletion
    <2>. QED BY <1>0, <2>1 DEF Less, Left, Parts, Stage
  <1>8. CASE ItemsDone
    <2>1. pass = "items" /\ pass' = "done"
      BY <1>8 DEF ItemsDone
    <2>. QED BY <2>1 DEF Less, Left, Parts, Stage
  <1>. QED BY <1>1, <1>2, <1>3, <1>4, <1>5, <1>6, <1>7, <1>8 DEF Next

\* Every step of either pass, the predicate's answers included, leaves less to
\* do in the lexicographic order of six naturals, which has no infinite
\* descent: whatever the predicate answers, shrinking cannot go on forever.
\* (shrink.rs, the loops of shrink_simtx_sequence and shrink_u256_bisect)
THEOREM EveryStepAdvances == Spec => /\ [](Left \in [Parts -> Nat])
                                     /\ [][Less(Left', Left)]_vars
BY Invariance, LeftIsNatural, NextAdvances, PTL DEF Spec
=============================================================================

------------------------ MODULE SequenceAuditProofs ------------------------
(***************************************************************************)
(* Proofs about SequenceAudit, for sequences and traces of every length    *)
(* and every answer of the rules.                                          *)
(***************************************************************************)
EXTENDS SequenceAudit, SequenceTheorems, FiniteSetTheorems, TLAPS

-----------------------------------------------------------------------------
(* The inductive invariant *)

\* One result and one database per transaction run; the offset of the one
\* that is running comes first.
InStep ==
    /\ Len(results) <= NumTxs
    /\ Len(history) = Len(results)
    /\ pc # "evm" => Len(trace_offsets) = Len(results)
    /\ pc = "evm" => Len(trace_offsets) = Len(results) + 1 /\ Len(results) < NumTxs
    /\ pc = "evaluate" => mode = "per_tx" /\ Len(results) > 0
    /\ pc = "ok" => Len(results) = NumTxs
    /\ Len(history) > 0 => history[Len(history)] = db

\* Offsets rise along the sequence and stay within the trace.
OffsetsRise ==
    /\ step_index = Len(traces)
    /\ \A k \in 1 .. Len(trace_offsets) : trace_offsets[k] <= Len(traces)
    /\ \A j, k \in 1 .. Len(trace_offsets) : j <= k => trace_offsets[j] <= trace_offsets[k]
    /\ \A i \in 1 .. Len(traces) : traces[i].tx <= Len(trace_offsets)

\* What a per-transaction audit has entered so far, at every point of it.
Recorded == IF pc \in {"evaluate", "err"} THEN Len(results) - 1 ELSE Len(results)

EntriesRight ==
    \A k \in 1 .. Len(per_tx_snapshots) :
        /\ per_tx_snapshots[k] = [tx_index  |-> k - 1,
                                  context   |-> history[k],
                                  violation |-> ViolationIn(history[k])]
        /\ verdict[history[k]] # "fails"

FirstRight ==
    IF ViolatedEntries = {}
    THEN first_violation = None
    ELSE \E k \in ViolatedEntries :
            first_violation = history[k] /\ \A j \in ViolatedEntries : k <= j

Entered ==
    IF mode = "per_tx"
    THEN /\ Len(per_tx_snapshots) = Recorded
         /\ EntriesRight /\ FirstRight
         /\ violation_count = Cardinality(ViolatedEntries)
    ELSE violation_count = 0

\* What the rules answered when the run ended.
Answered ==
    /\ pc = "err" => /\ verdict[db] = "fails" /\ mode # "inspected"
                     /\ mode = "per_tx" => Len(results) > 0
    /\ (pc = "ok" /\ mode = "final") => verdict[db] # "fails"

Inv == TypeOK /\ InStep /\ OffsetsRise /\ SlicesAttributeSteps /\ Entered /\ Answered

-----------------------------------------------------------------------------
(* Facts the steps share *)

\* An appended sequence keeps its elements and has one more.
LEMMA AppendFacts ==
    ASSUME NEW S, NEW s \in Seq(S), NEW e \in S
    PROVE  /\ Append(s, e) \in Seq(S)
           /\ Len(Append(s, e)) = Len(s) + 1
           /\ \A k \in 1 .. Len(s) : Append(s, e)[k] = s[k]
           /\ Append(s, e)[Len(s) + 1] = e
  OBVIOUS

\* A violation found is what it was found in.
LEMMA ViolationFacts ==
    ASSUME NEW content \in Contents
    PROVE  /\ ViolationIn(content) \in Contents \cup {None}
           /\ ViolationIn(content) # None <=> verdict[content] = "violated"
           /\ ViolationIn(content) # None => ViolationIn(content) = content
  BY AuditAssumption DEF ViolationIn

\* There are finitely many entries with a violation, at most one per entry.
LEMMA EntriesFinite ==
    ASSUME TypeOK
    PROVE  /\ IsFiniteSet(ViolatedEntries)
           /\ Cardinality(ViolatedEntries) \in Nat
           /\ Cardinality(ViolatedEntries) <= Len(per_tx_snapshots)
           /\ Cardinality(ViolatedEntries) = 0 <=> ViolatedEntries = {}
  <1>. DEFINE n == Len(per_tx_snapshots)
  <1>1. n \in Nat
    BY DEF TypeOK
  <1>2. IsFiniteSet(1 .. n) /\ Cardinality(1 .. n) = n
    BY <1>1, FS_Interval
  <1>3. ViolatedEntries \in SUBSET (1 .. n)
    BY DEF ViolatedEntries
  <1>4. IsFiniteSet(ViolatedEntries) /\ Cardinality(ViolatedEntries) <= n
    BY <1>2, <1>3, FS_Subset
  <1>. QED BY <1>4, FS_CardinalityType, FS_EmptySet

LEMMA InitInv == Init => Inv
  <1>. SUFFICES ASSUME Init PROVE Inv
    OBVIOUS
  <1>1. TypeOK
    BY AuditAssumption DEF Init, TypeOK
  <1>2. InStep /\ OffsetsRise /\ SlicesAttributeSteps /\ Answered
    BY AuditAssumption DEF Init, InStep, OffsetsRise, SlicesAttributeSteps, Answered
  <1>3. ViolatedEntries = {}
    BY DEF Init, ViolatedEntries
  <1>4. Entered
    BY <1>3, FS_EmptySet DEF Init, Entered, EntriesRight, FirstRight, Recorded
  <1>. QED BY <1>1, <1>2, <1>4 DEF Inv

-----------------------------------------------------------------------------
(* The steps *)

LEMMA StartTxInv == Inv /\ StartTx => Inv'
  <1>. SUFFICES ASSUME Inv, StartTx PROVE Inv'
    OBVIOUS
  <1>. DEFINE n == Len(trace_offsets)
              t == Len(traces)
  <1>1. /\ pc = "next" /\ pc' = "evm" /\ Len(results) < NumTxs
        /\ trace_offsets' = Append(trace_offsets, t)
        /\ UNCHANGED <<mode, verdict, db, results, inspector, report, history>>
    BY DEF StartTx
  <1>2. n \in Nat /\ t \in Nat /\ n = Len(results) /\ trace_offsets \in Seq(Nat)
    BY <1>1 DEF Inv, TypeOK, InStep
  <1>3. /\ trace_offsets' \in Seq(Nat) /\ Len(trace_offsets') = n + 1
        /\ \A k \in 1 .. n : trace_offsets'[k] = trace_offsets[k]
        /\ trace_offsets'[n + 1] = t
    BY <1>1, <1>2, AppendFacts
  <1>4. TypeOK'
    BY <1>1, <1>3 DEF Inv, TypeOK, inspector, report
  <1>5. InStep'
    BY <1>1, <1>2, <1>3 DEF Inv, InStep
  <1>6. traces' = traces /\ step_index' = step_index /\ t' = t
    BY <1>1 DEF inspector
  <1>7. /\ \A k \in 1 .. n : trace_offsets[k] <= t
        /\ \A j, k \in 1 .. n : j <= k => trace_offsets[j] <= trace_offsets[k]
        /\ \A i \in 1 .. t : traces[i].tx <= n
        /\ step_index = t
    BY DEF Inv, OffsetsRise
  <1>8. \A i \in 1 .. t : traces[i].tx \in Nat
    <2>1. \A i \in 1 .. t : traces[i] \in Events
      BY DEF Inv, TypeOK
    <2>. QED BY <2>1, AuditAssumption DEF Events
  <1>9. /\ \A i \in 1 .. t : traces[i].step_index = i - 1
        /\ \A k \in 1 .. n, i \in 1 .. t :
              traces[i].tx = k <=> i \in (trace_offsets[k] + 1) .. SliceEnd(k)
    BY DEF Inv, SlicesAttributeSteps
  <1>10. \A k \in 1 .. n : trace_offsets[k] \in Nat
    BY <1>2
  <1>11. /\ \A k \in 1 .. n : SliceEnd(k)' = SliceEnd(k)
         /\ \A k : k = n + 1 => SliceEnd(k)' = t
    <2>1. ASSUME NEW k \in 1 .. n, k # n
          PROVE  SliceEnd(k)' = SliceEnd(k)
      <3>1. k + 1 \in 1 .. n /\ k # n + 1
        BY <1>2, <2>1
      <3>. QED BY <1>3, <2>1, <3>1 DEF SliceEnd
    <2>2. n # n + 1
      BY <1>2
    <2>3. ASSUME NEW k, k = n PROVE SliceEnd(k)' = t /\ SliceEnd(k) = t
      BY <1>3, <2>2, <2>3 DEF SliceEnd
    <2>4. ASSUME NEW k, k = n + 1 PROVE SliceEnd(k)' = t
      BY <1>3, <1>6, <2>4 DEF SliceEnd
    <2>5. \A k \in 1 .. n : SliceEnd(k)' = SliceEnd(k)
      BY <2>1, <2>3
    <2>. QED BY <2>4, <2>5
  <1>. HIDE DEF n, t
  <1>12. OffsetsRise'
    <2>1. \A k \in 1 .. n + 1 : k \in 1 .. n \/ k = n + 1
      BY <1>2
    <2>2. \A k \in 1 .. n + 1 : trace_offsets'[k] <= t
      BY <1>2, <1>3, <1>7, <2>1
    <2>3. ASSUME NEW j \in 1 .. n + 1, NEW k \in 1 .. n + 1, j <= k
          PROVE  trace_offsets'[j] <= trace_offsets'[k]
      <3>1. CASE k \in 1 .. n
        <4>1. j \in 1 .. n
          BY <1>2, <2>3, <3>1
        <4>. QED BY <1>3, <1>7, <2>3, <3>1, <4>1
      <3>2. CASE k = n + 1
        BY <1>3, <2>2, <3>2
      <3>. QED BY <2>1, <3>1, <3>2
    <2>4. \A i \in 1 .. t : traces[i].tx <= n + 1
      BY <1>2, <1>7, <1>8
    <2>. QED BY <1>3, <1>6, <1>7, <2>2, <2>3, <2>4 DEF OffsetsRise, t
  <1>13. SlicesAttributeSteps'
    <2>1. ASSUME NEW k \in 1 .. n + 1, NEW i \in 1 .. t
          PROVE  traces[i].tx = k <=> i \in (trace_offsets'[k] + 1) .. SliceEnd(k)'
      <3>1. CASE k \in 1 .. n
        BY <1>3, <1>9, <1>11, <3>1
      <3>2. CASE k = n + 1
        <4>1. traces[i].tx # k
          BY <1>2, <1>7, <1>8, <3>2
        <4>2. i \notin (t + 1) .. t
          BY <1>2
        <4>. QED BY <1>3, <1>11, <3>2, <4>1, <4>2
      <3>. QED BY <1>2, <3>1, <3>2
    <2>. QED BY <1>3, <1>6, <1>9, <2>1 DEF SlicesAttributeSteps, t
  <1>14. Entered'
    BY <1>1 DEF Inv, Entered, EntriesRight, FirstRight, Recorded, ViolatedEntries,
                ViolationIn, report
  <1>15. Answered'
    BY <1>1 DEF Inv, Answered
  <1>. QED BY <1>4, <1>5, <1>12, <1>13, <1>14, <1>15 DEF Inv

LEMMA InspectStepInv == Inv /\ InspectStep => Inv'
  <1>. SUFFICES ASSUME Inv, InspectStep PROVE Inv'
    OBVIOUS
  <1>. DEFINE n == Len(trace_offsets)
              t == Len(traces)
              e == [step_index |-> step_index, tx |-> n]
  <1>1. /\ pc = "evm" /\ traces' = Append(traces, e) /\ step_index' = step_index + 1
        /\ UNCHANGED <<mode, verdict, pc, db, results, trace_offsets, report, history>>
    BY DEF InspectStep
  <1>2. /\ n \in Nat /\ t \in Nat /\ n \in 1 .. NumTxs
        /\ step_index = t /\ traces \in Seq(Events)
    BY <1>1, AuditAssumption DEF Inv, TypeOK, InStep, OffsetsRise
  <1>3. e \in Events
    BY <1>2 DEF Events
  <1>4. /\ traces' \in Seq(Events) /\ Len(traces') = t + 1
        /\ \A i \in 1 .. t : traces'[i] = traces[i]
        /\ traces'[t + 1] = e
    BY <1>1, <1>2, <1>3, AppendFacts
  <1>5. TypeOK'
    BY <1>1, <1>2, <1>4 DEF Inv, TypeOK, report
  <1>6. InStep'
    BY <1>1 DEF Inv, InStep
  <1>7. /\ \A k \in 1 .. n : trace_offsets[k] <= t
        /\ \A j, k \in 1 .. n : j <= k => trace_offsets[j] <= trace_offsets[k]
        /\ \A i \in 1 .. t : traces[i].tx <= n
    BY DEF Inv, OffsetsRise
  <1>8. /\ \A i \in 1 .. t : traces[i].step_index = i - 1
        /\ \A k \in 1 .. n, i \in 1 .. t :
              traces[i].tx = k <=> i \in (trace_offsets[k] + 1) .. SliceEnd(k)
    BY DEF Inv, SlicesAttributeSteps
  <1>9. \A k \in 1 .. n : trace_offsets[k] \in Nat
    BY DEF Inv, TypeOK
  <1>10. /\ \A k \in 1 .. n : k # n => SliceEnd(k)' = SliceEnd(k)
                                       /\ SliceEnd(k) = trace_offsets[k + 1]
                                       /\ k + 1 \in 1 .. n
         /\ \A k : k = n => SliceEnd(k) = t /\ SliceEnd(k)' = t + 1
    <2>1. trace_offsets' = trace_offsets
      BY <1>1
    <2>. QED BY <1>2, <1>4, <2>1 DEF SliceEnd
  <1>11. e.tx = n /\ e.step_index = t
    BY <1>2
  <1>12. Len(trace_offsets') = n /\ trace_offsets' = trace_offsets /\ t' = t + 1
    BY <1>1, <1>4
  <1>. HIDE DEF n, t, e
  <1>13. \A i \in 1 .. t + 1 : i \in 1 .. t \/ i = t + 1
    BY <1>2
  <1>14. OffsetsRise'
    <2>1. \A k \in 1 .. n : trace_offsets[k] <= t + 1
      BY <1>2, <1>7, <1>9
    <2>2. \A i \in 1 .. t + 1 : traces'[i].tx <= n
      BY <1>2, <1>4, <1>7, <1>11, <1>13
    <2>3. step_index' = t + 1
      BY <1>1, <1>2
    <2>. QED BY <1>4, <1>7, <1>12, <2>1, <2>2, <2>3 DEF OffsetsRise
  <1>15. SlicesAttributeSteps'
    <2>1. ASSUME NEW i \in 1 .. t + 1 PROVE traces'[i].step_index = i - 1
      <3>1. CASE i \in 1 .. t
        BY <1>4, <1>8, <3>1
      <3>2. CASE i = t + 1
        BY <1>2, <1>4, <1>11, <3>2
      <3>. QED BY <1>13, <3>1, <3>2
    <2>2. ASSUME NEW k \in 1 .. n, NEW i \in 1 .. t + 1
          PROVE  traces'[i].tx = k <=> i \in (trace_offsets[k] + 1) .. SliceEnd(k)'
      <3>1. CASE i \in 1 .. t /\ k # n
        BY <1>4, <1>8, <1>10, <3>1
      <3>2. CASE i \in 1 .. t /\ k = n
        <4>1. traces[i].tx = n <=> i \in (trace_offsets[n] + 1) .. t
          BY <1>8, <1>10, <3>2
        <4>2. i \in (trace_offsets[n] + 1) .. t <=> i \in (trace_offsets[n] + 1) .. (t + 1)
          BY <1>2, <1>9, <3>2
        <4>. QED BY <1>4, <1>10, <3>2, <4>1, <4>2
      <3>3. CASE i = t + 1 /\ k # n
        <4>1. trace_offsets[k + 1] \in Nat /\ trace_offsets[k + 1] <= t
          BY <1>7, <1>9, <1>10, <3>3
        <4>2. i \notin (trace_offsets[k] + 1) .. trace_offsets[k + 1]
          BY <1>2, <1>9, <3>3, <4>1
        <4>3. traces'[i].tx # k
          BY <1>4, <1>11, <3>3
        <4>4. SliceEnd(k)' = trace_offsets[k + 1]
          BY <1>10, <3>3
        <4>. QED BY <4>2, <4>3, <4>4
      <3>4. CASE i = t + 1 /\ k = n
        <4>1. trace_offsets[n] \in Nat /\ trace_offsets[n] <= t
          BY <1>2, <1>7, <1>9
        <4>2. i \in (trace_offsets[n] + 1) .. (t + 1)
          BY <1>2, <3>4, <4>1
        <4>3. traces'[i].tx = n
          BY <1>4, <1>11, <3>4
        <4>4. SliceEnd(k)' = t + 1
          BY <1>10, <3>4
        <4>. QED BY <3>4, <4>2, <4>3, <4>4
      <3>. QED BY <1>13, <3>1, <3>2, <3>3, <3>4
    <2>. QED BY <1>4, <1>12, <2>1, <2>2 DEF SlicesAttributeSteps
  <1>16. Entered'
    BY <1>1 DEF Inv, Entered, EntriesRight, FirstRight, Recorded, ViolatedEntries,
                ViolationIn, report
  <1>17. Answered'
    BY <1>1 DEF Inv, Answered
  <1>. QED BY <1>5, <1>6, <1>14, <1>15, <1>16, <1>17 DEF Inv

\* A transaction ended, with what it left: both ways it may.
Ended(result, content) ==
    /\ pc = "evm"
    /\ db' = content
    /\ results' = Append(results, result)
    /\ history' = Append(history, content)
    /\ AfterTx
    /\ UNCHANGED <<mode, verdict, inspector, trace_offsets, report>>

LEMMA EndedInv ==
    ASSUME NEW result \in Results, NEW content \in Contents, Inv, Ended(result, content)
    PROVE  Inv'
  <1>. DEFINE n == Len(results)
  <1>1. /\ pc = "evm" /\ db' = content
        /\ results' = Append(results, result) /\ history' = Append(history, content)
        /\ pc' = IF mode = "per_tx" THEN "evaluate" ELSE "next"
        /\ UNCHANGED <<mode, verdict, inspector, trace_offsets, report>>
    BY DEF Ended, AfterTx
  <1>2. /\ n \in Nat /\ n < NumTxs /\ Len(history) = n
        /\ results \in Seq(Results) /\ history \in Seq(Contents) /\ NumTxs \in Nat
        /\ Len(trace_offsets) = n + 1
    BY <1>1, AuditAssumption DEF Inv, TypeOK, InStep
  <1>3. /\ results' \in Seq(Results) /\ Len(results') = n + 1
        /\ history' \in Seq(Contents) /\ Len(history') = n + 1
        /\ \A k \in 1 .. n : history'[k] = history[k]
        /\ history'[n + 1] = content
    BY <1>1, <1>2, AppendFacts
  <1>4. TypeOK'
    BY <1>1, <1>3 DEF Inv, TypeOK, inspector, report
  <1>5. InStep'
    <2>1. n + 1 <= NumTxs /\ n + 1 > 0
      BY <1>2, AuditAssumption
    <2>2. pc' # "evm" /\ pc' # "ok" /\ (pc' = "evaluate" => mode' = "per_tx")
      BY <1>1
    <2>3. trace_offsets' = trace_offsets /\ history'[Len(history')] = db'
      BY <1>1, <1>3
    <2>. QED BY <1>2, <1>3, <2>1, <2>2, <2>3 DEF InStep
  <1>6. OffsetsRise' /\ SlicesAttributeSteps'
    BY <1>1 DEF Inv, OffsetsRise, SlicesAttributeSteps, SliceEnd, inspector
  <1>7. Entered'
    <2>. DEFINE m == Len(per_tx_snapshots)
    <2>1. CASE mode = "per_tx"
      <3>1. /\ m = n /\ EntriesRight /\ FirstRight
            /\ violation_count = Cardinality(ViolatedEntries)
        BY <1>1, <2>1 DEF Inv, Entered, Recorded
      <3>2. /\ UNCHANGED <<per_tx_snapshots, first_violation, violation_count, verdict>>
            /\ mode' = "per_tx" /\ pc' = "evaluate"
        BY <1>1, <2>1 DEF report
      <3>3. Len(per_tx_snapshots') = Recorded'
        BY <1>2, <1>3, <3>1, <3>2 DEF Recorded
      <3>4. EntriesRight'
        BY <1>3, <3>1, <3>2 DEF EntriesRight, ViolationIn
      <3>5. ViolatedEntries' = ViolatedEntries
        BY <3>2 DEF ViolatedEntries
      <3>6. \A k \in ViolatedEntries : history'[k] = history[k]
        BY <1>3, <3>1 DEF ViolatedEntries
      <3>7. FirstRight'
        BY <3>1, <3>2, <3>5, <3>6 DEF FirstRight
      <3>. QED BY <3>1, <3>2, <3>3, <3>4, <3>5, <3>7 DEF Entered
    <2>2. CASE mode # "per_tx"
      BY <1>1, <2>2 DEF Inv, Entered, report
    <2>. QED BY <2>1, <2>2
  <1>8. Answered'
    BY <1>1 DEF Answered
  <1>. QED BY <1>4, <1>5, <1>6, <1>7, <1>8 DEF Inv

LEMMA EvaluateTxInv == Inv /\ EvaluateTx => Inv'
  <1>. SUFFICES ASSUME Inv, EvaluateTx PROVE Inv'
    OBVIOUS
  <1>. DEFINE m == Len(per_tx_snapshots)
              v == ViolationIn(db)
              e == [tx_index |-> Len(results) - 1, context |-> db, violation |-> v]
  <1>1. /\ verdict[db] # "fails" /\ pc = "evaluate" /\ pc' = "next"
        /\ violation_count' = IF v # None THEN violation_count + 1 ELSE violation_count
        /\ first_violation' = IF v # None /\ first_violation = None THEN v ELSE first_violation
        /\ per_tx_snapshots' = Append(per_tx_snapshots, e)
        /\ UNCHANGED <<mode, verdict, db, results, inspector, trace_offsets, history>>
    BY DEF EvaluateTx, RecordTx
  <1>2. /\ mode = "per_tx" /\ Len(results) > 0 /\ Len(results) \in Nat
        /\ Len(history) = Len(results) /\ history[Len(history)] = db
        /\ Len(results) <= NumTxs /\ NumTxs \in Nat
    BY <1>1, AuditAssumption DEF Inv, TypeOK, InStep
  <1>3. /\ m = Len(results) - 1 /\ EntriesRight /\ FirstRight
        /\ violation_count = Cardinality(ViolatedEntries)
    BY <1>1, <1>2 DEF Inv, Entered, Recorded
  <1>4. m \in Nat /\ m + 1 = Len(results) /\ history[m + 1] = db
    BY <1>2, <1>3
  <1>5. db \in Contents /\ v \in Contents \cup {None}
    BY ViolationFacts DEF Inv, TypeOK
  <1>6. e \in Snapshots /\ e.tx_index = m
    BY <1>3, <1>4, <1>5 DEF Snapshots
  <1>7. /\ per_tx_snapshots' \in Seq(Snapshots) /\ Len(per_tx_snapshots') = m + 1
        /\ \A k \in 1 .. m : per_tx_snapshots'[k] = per_tx_snapshots[k]
        /\ per_tx_snapshots'[m + 1] = e
    <2>1. per_tx_snapshots \in Seq(Snapshots)
      BY DEF Inv, TypeOK
    <2>. QED BY <1>1, <1>6, <2>1, AppendFacts
  <1>8. /\ IsFiniteSet(ViolatedEntries) /\ violation_count \in Nat /\ violation_count <= m
    BY <1>3, EntriesFinite DEF Inv
  <1>. HIDE DEF m
  <1>9. violation_count' \in 0 .. NumTxs
    BY <1>1, <1>2, <1>4, <1>8
  <1>10. TypeOK'
    BY <1>1, <1>5, <1>7, <1>9 DEF Inv, TypeOK, inspector
  <1>11. InStep' /\ OffsetsRise' /\ SlicesAttributeSteps' /\ Answered'
    BY <1>1 DEF Inv, InStep, OffsetsRise, SlicesAttributeSteps, SliceEnd, Answered, inspector
  <1>12. \A k \in 1 .. m + 1 : k \in 1 .. m \/ k = m + 1
    BY <1>4
  <1>13. ViolatedEntries' = IF v # None THEN ViolatedEntries \cup {m + 1} ELSE ViolatedEntries
    <2>1. ViolatedEntries = {k \in 1 .. m : per_tx_snapshots[k].violation # None}
      BY DEF ViolatedEntries, m
    <2>2. ViolatedEntries' = {k \in 1 .. m + 1 : per_tx_snapshots'[k].violation # None}
      BY <1>7 DEF ViolatedEntries
    <2>3. 1 .. m + 1 = (1 .. m) \cup {m + 1}
      BY <1>4
    <2>4. e.violation = v
      OBVIOUS
    <2>. HIDE DEF e, v
    <2>. QED BY <1>7, <2>1, <2>2, <2>3, <2>4
  <1>14. ViolatedEntries \subseteq 1 .. m /\ m + 1 \notin ViolatedEntries
    BY <1>4 DEF ViolatedEntries, m
  <1>15. violation_count' = Cardinality(ViolatedEntries')
    BY <1>1, <1>3, <1>8, <1>13, <1>14, FS_AddElement
  <1>16. EntriesRight'
    <2>1. ASSUME NEW k \in 1 .. m + 1
          PROVE  /\ per_tx_snapshots'[k] = [tx_index  |-> k - 1,
                                            context   |-> history[k],
                                            violation |-> ViolationIn(history[k])]
                 /\ verdict[history[k]] # "fails"
      <3>1. CASE k \in 1 .. m
        BY <1>3, <1>7, <3>1 DEF EntriesRight, m
      <3>2. CASE k = m + 1
        <4>1. m = k - 1 /\ Len(results) - 1 = k - 1
          BY <1>3, <1>4, <3>2
        <4>2. history[k] = db
          BY <1>4, <3>2
        <4>. QED BY <1>1, <1>7, <3>2, <4>1, <4>2
      <3>. QED BY <1>12, <3>1, <3>2
    <2>. QED BY <1>1, <1>7, <2>1 DEF EntriesRight, ViolationIn
  <1>17. FirstRight'
    <2>1. CASE v = None
      BY <1>1, <1>3, <1>13, <2>1 DEF FirstRight
    <2>2. CASE v # None /\ ViolatedEntries = {}
      <3>1. first_violation = None
        BY <1>3, <2>2 DEF FirstRight
      <3>2. first_violation' = db /\ ViolatedEntries' = {m + 1}
        BY <1>1, <1>5, <1>13, <2>2, <3>1, ViolationFacts
      <3>3. history'[m + 1] = db /\ m + 1 <= m + 1
        BY <1>1, <1>4
      <3>. QED BY <3>2, <3>3 DEF FirstRight
    <2>3. CASE v # None /\ ViolatedEntries # {}
      <3>1. PICK k \in ViolatedEntries :
                first_violation = history[k] /\ \A j \in ViolatedEntries : k <= j
        BY <1>3, <2>3 DEF FirstRight
      <3>2. k \in 1 .. m /\ k <= m + 1
        BY <1>4, <1>14
      <3>3. first_violation # None
        <4>1. k \in 1 .. Len(history)
          BY <1>2, <1>4, <3>2
        <4>2. history[k] \in Contents
          BY <4>1 DEF Inv, TypeOK
        <4>. QED BY <3>1, <4>2, AuditAssumption
      <3>4. first_violation' = history'[k]
        BY <1>1, <3>1, <3>3
      <3>5. k \in ViolatedEntries' /\ \A j \in ViolatedEntries' : k <= j
        BY <1>13, <2>3, <3>1, <3>2
      <3>. QED BY <3>4, <3>5 DEF FirstRight
    <2>. QED BY <2>1, <2>2, <2>3
  <1>18. Entered'
    <2>1. mode' = "per_tx" /\ Recorded' = m + 1
      BY <1>1, <1>2, <1>4 DEF Recorded
    <2>. QED BY <1>7, <1>15, <1>16, <1>17, <2>1 DEF Entered
  <1>. QED BY <1>10, <1>11, <1>18 DEF Inv

\* Giving up changes nothing but where the run stands.
LEMMA GiveUpInv == Inv /\ (TxEvaluationFails \/ FinalEvaluationFails) => Inv'
  <1>. SUFFICES ASSUME Inv, TxEvaluationFails \/ FinalEvaluationFails PROVE Inv'
    OBVIOUS
  <1>1. /\ verdict[db] = "fails" /\ pc' = "err"
        /\ UNCHANGED <<mode, verdict, db, results, inspector, trace_offsets, report, history>>
        /\ pc = "evaluate" \/ (pc = "next" /\ mode = "final")
    BY DEF TxEvaluationFails, FinalEvaluationFails, AllRun, GiveUp
  <1>2. pc = "evaluate" => mode = "per_tx" /\ Len(results) > 0
    BY DEF Inv, InStep
  <1>3. TypeOK'
    BY <1>1 DEF Inv, TypeOK, inspector, report
  <1>4. InStep' /\ OffsetsRise' /\ SlicesAttributeSteps'
    BY <1>1 DEF Inv, InStep, OffsetsRise, SlicesAttributeSteps, SliceEnd, inspector
  <1>5. Entered'
    BY <1>1, <1>2 DEF Inv, Entered, EntriesRight, FirstRight, Recorded, ViolatedEntries,
                      ViolationIn, report
  <1>6. Answered'
    BY <1>1, <1>2 DEF Answered
  <1>. QED BY <1>3, <1>4, <1>5, <1>6 DEF Inv

\* So does a run that ends, but for the violation of the final database.
LEMMA FinishInv == Inv /\ (FinishInspected \/ FinishFinal \/ FinishPerTx) => Inv'
  <1>. SUFFICES ASSUME Inv, FinishInspected \/ FinishFinal \/ FinishPerTx PROVE Inv'
    OBVIOUS
  <1>1. /\ pc = "next" /\ Len(results) = NumTxs /\ pc' = "ok"
        /\ UNCHANGED <<mode, verdict, db, results, inspector, trace_offsets,
                       per_tx_snapshots, violation_count, history>>
        /\ \/ mode = "final" /\ verdict[db] # "fails" /\ first_violation' = ViolationIn(db)
           \/ mode # "final" /\ first_violation' = first_violation
    BY DEF FinishInspected, FinishFinal, FinishPerTx, AllRun, Finish
  <1>2. TypeOK'
    <2>1. first_violation' \in Contents \cup {None}
      BY <1>1, ViolationFacts DEF Inv, TypeOK
    <2>. QED BY <1>1, <2>1 DEF Inv, TypeOK, inspector
  <1>3. InStep' /\ OffsetsRise' /\ SlicesAttributeSteps'
    BY <1>1 DEF Inv, InStep, OffsetsRise, SlicesAttributeSteps, SliceEnd, inspector
  <1>4. Entered'
    BY <1>1 DEF Inv, Entered, EntriesRight, FirstRight, Recorded, ViolatedEntries, ViolationIn
  <1>5. Answered'
    BY <1>1 DEF Answered
  <1>. QED BY <1>2, <1>3, <1>4, <1>5 DEF Inv

LEMMA NextInv == Inv /\ [Next]_vars => Inv'
  <1>. SUFFICES ASSUME Inv, [Next]_vars PROVE Inv'
    OBVIOUS
  <1>1. ASSUME NEW result \in {"success", "reverted"}, NEW content \in Contents,
               TxCommits(result, content)
        PROVE  Inv'
    <2>1. result \in Results
      BY DEF Results
    <2>. QED BY <1>1, <2>1, EndedInv DEF TxCommits, Ended
  <1>2. CASE TxRefused
    <2>1. "tx_error" \in Results /\ db \in Contents
      BY DEF Inv, TypeOK, Results
    <2>2. Ended("tx_error", db)
      BY <1>2 DEF TxRefused, Ended
    <2>. QED BY <2>1, <2>2, EndedInv
  <1>3. CASE UNCHANGED vars
    <2>1. TypeOK' /\ InStep' /\ OffsetsRise' /\ SlicesAttributeSteps' /\ Answered'
      BY <1>3 DEF Inv, TypeOK, InStep, OffsetsRise, SlicesAttributeSteps, SliceEnd,
                  Answered, vars, inspector, report
    <2>2. Entered'
      BY <1>3 DEF Inv, Entered, EntriesRight, FirstRight, Recorded, ViolatedEntries,
                  ViolationIn, vars, report
    <2>. QED BY <2>1, <2>2 DEF Inv
  <1>. QED BY <1>1, <1>2, <1>3, StartTxInv, InspectStepInv, EvaluateTxInv, GiveUpInv,
              FinishInv DEF Next

THEOREM Invariance == Spec => []Inv
  BY InitInv, NextInv, PTL DEF Spec

-----------------------------------------------------------------------------
(* What follows *)

\* Typing: reports hold values of their types, and violations are counted at
\* most once per transaction.  (audit.rs:212, audit.rs:232)
THEOREM Typing == Spec => []TypeOK
  <1>1. Inv => TypeOK
    BY DEF Inv
  <1>. QED BY <1>1, Invariance, PTL

\* Traces: trace_offsets attributes every opcode to the transaction that ran
\* it, for any number of transactions and opcodes.  (audit.rs:32)
THEOREM TracesAttributed == Spec => []SlicesAttributeSteps
  <1>1. Inv => SlicesAttributeSteps
    BY DEF Inv
  <1>. QED BY <1>1, Invariance, PTL

\* Snapshots: entry k is about the database transaction k left, and count and
\* first violation are those of the entries.  (audit.rs:230-242)
THEOREM SnapshotsAreInStep == Spec => []SnapshotsInStep
  <1>1. Inv => SnapshotsInStep
    <2>. SUFFICES ASSUME Inv, mode = "per_tx", pc \in {"next", "ok"} PROVE SnapshotsInStep
      BY DEF SnapshotsInStep
    <2>1. /\ Len(per_tx_snapshots) = Len(results) /\ EntriesRight /\ FirstRight
          /\ violation_count = Cardinality(ViolatedEntries)
      BY DEF Inv, Entered, Recorded
    <2>. QED BY <2>1 DEF SnapshotsInStep, EntriesRight, FirstRight
  <1>. QED BY <1>1, Invariance, PTL

\* The audit after each transaction finds what the audit at the end finds.
\* (audit.rs:158)
THEOREM FinalIsFound == Spec => []PerTxFindsFinal
  <1>1. Inv => PerTxFindsFinal
    <2>. SUFFICES ASSUME Inv, mode = "per_tx", pc = "ok", NumTxs > 0, verdict[db] = "violated"
                  PROVE  violation_count > 0 /\ per_tx_snapshots[NumTxs].violation = db
      BY DEF PerTxFindsFinal
    <2>1. /\ Len(results) = NumTxs /\ Len(history) = NumTxs /\ history[NumTxs] = db
          /\ NumTxs \in Nat /\ db \in Contents
      BY AuditAssumption DEF Inv, InStep, TypeOK
    <2>2. /\ Len(per_tx_snapshots) = NumTxs /\ EntriesRight
          /\ violation_count = Cardinality(ViolatedEntries)
      BY <2>1 DEF Inv, Entered, Recorded
    <2>3. NumTxs \in 1 .. NumTxs
      BY <2>1
    <2>4. per_tx_snapshots[NumTxs].violation = db
      BY <2>1, <2>2, <2>3 DEF EntriesRight, ViolationIn
    <2>5. db # None
      BY <2>1, AuditAssumption
    <2>6. NumTxs \in ViolatedEntries
      BY <2>2, <2>3, <2>4, <2>5 DEF ViolatedEntries
    <2>7. violation_count \in Nat /\ violation_count # 0
      BY <2>2, <2>6, EntriesFinite DEF Inv
    <2>. QED BY <2>4, <2>7
  <1>. QED BY <1>1, Invariance, PTL

\* An evaluation that failed is never reported as a verdict, and a report is
\* only withheld for one that failed.  (audit.rs:210, audit.rs:230)
THEOREM FailuresAreNotVerdicts == Spec => []ErrorsAreNotVerdicts
  <1>1. Inv => ErrorsAreNotVerdicts
    <2>. SUFFICES ASSUME Inv PROVE ErrorsAreNotVerdicts
      OBVIOUS
    <2>1. mode \in {"inspected", "final", "per_tx"}
      BY DEF Inv, TypeOK, Modes
    <2>2. CASE mode = "inspected"
      BY <2>2 DEF Inv, Answered, ErrorsAreNotVerdicts
    <2>3. CASE mode = "final"
      BY <2>3 DEF Inv, Answered, ErrorsAreNotVerdicts
    <2>4. CASE mode = "per_tx"
      <3>1. ASSUME pc = "ok", NEW k \in 1 .. Len(history) PROVE verdict[history[k]] # "fails"
        <4>1. Len(per_tx_snapshots) = Len(history) /\ EntriesRight
          BY <2>4, <3>1 DEF Inv, InStep, Entered, Recorded
        <4>. QED BY <4>1 DEF EntriesRight
      <3>2. ASSUME pc = "err"
            PROVE  \E k \in 1 .. Len(history) : verdict[history[k]] = "fails"
        <4>1. /\ verdict[db] = "fails" /\ Len(history) > 0 /\ Len(history) \in Nat
              /\ history[Len(history)] = db
          BY <2>4, <3>2 DEF Inv, InStep, Answered, TypeOK
        <4>. QED BY <4>1
      <3>. QED BY <2>4, <3>1, <3>2 DEF ErrorsAreNotVerdicts
    <2>. QED BY <2>1, <2>2, <2>3, <2>4
  <1>. QED BY <1>1, Invariance, PTL

\* Auditing implements simulate_sequence: the three copies of its loop run a
\* sequence as it does.  (simulator.rs:232, audit.rs)
THEOREM ExecutionIsTheSame == Spec => SameExecution
  <1>1. Init => Run!Init
    BY DEF Init, Run!Init
  <1>2. Inv /\ [Next]_vars => [Run!Next]_<<db, results>>
    <2>. SUFFICES ASSUME Inv, Next PROVE [Run!Next]_<<db, results>>
      BY DEF vars
    <2>1. ASSUME NEW result \in {"success", "reverted"}, NEW content \in Contents,
                 TxCommits(result, content)
          PROVE  Run!Next
      BY <2>1 DEF Inv, InStep, TxCommits, Run!Next, Run!Commits
    <2>2. CASE TxRefused
      BY <2>2 DEF Inv, InStep, TxRefused, Run!Next, Run!Refused
    <2>3. CASE StartTx \/ InspectStep \/ EvaluateTx \/ TxEvaluationFails \/ FinishInspected
               \/ FinishFinal \/ FinalEvaluationFails \/ FinishPerTx
      BY <2>3 DEF StartTx, InspectStep, EvaluateTx, RecordTx, TxEvaluationFails, GiveUp,
                  FinishInspected, FinishFinal, FinalEvaluationFails, FinishPerTx, Finish
    <2>. QED BY <2>1, <2>2, <2>3 DEF Next
  <1>. QED BY <1>1, <1>2, Invariance, PTL DEF Spec, SameExecution, Run!Spec
=============================================================================

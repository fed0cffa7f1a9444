---------------------------- MODULE SequenceAudit ----------------------------
(***************************************************************************)
(* The audited runs of a sequence, crates/revm-sim/src/audit.rs: the loop  *)
(* of SequenceRun with an InvariantInspector that is handed to the EVM for *)
(* each transaction and taken back whether it ran or was refused.  Three   *)
(* modes: "inspected" only traces, "final" evaluates the rules on the last *)
(* database, "per_tx" on the database after each transaction.              *)
(*                                                                         *)
(* What extract_context and CompositeInvariant::evaluate answer about a    *)
(* database is unknown, but a function of its contents: the rules hold,    *)
(* one is violated, or the evaluation fails.  DbBindings has the two: its  *)
(* answer is that of the first rule that does not hold of the database.    *)
(***************************************************************************)
EXTENDS Naturals, Sequences, FiniteSets

CONSTANTS
    NumTxs,      \* length of the sequence
    Contents,    \* the contents a database can have
    MaxSteps,    \* bound: opcodes one sequence executes
    None         \* Option::None

ASSUME AuditAssumption ==
    /\ NumTxs \in Nat /\ MaxSteps \in Nat
    /\ None \notin Contents

VARIABLES
    mode,
    verdict,            \* contents -> what the rules answer about them
    pc,                 \* "next", "evm", "evaluate", "ok" or "err"
    db,                 \* contents of the clone
    results,            \* tx_results
    traces,             \* the inspector's events: their step_index, and the
                        \*   transaction that was running (not in the code)
    step_index,         \* the inspector's next step_index
    trace_offsets,
    per_tx_snapshots,
    first_violation,    \* the contents a violation was found in, or None
    violation_count,
    history             \* contents after each transaction (not in the code)

report == <<per_tx_snapshots, first_violation, violation_count>>
inspector == <<traces, step_index>>
vars == <<mode, verdict, pc, db, results, inspector, trace_offsets, report, history>>

Modes     == {"inspected", "final", "per_tx"}
Verdicts  == {"holds", "violated", "fails"}
Results   == {"success", "reverted", "tx_error"}
Events    == [step_index : Nat, tx : 1 .. NumTxs]
Snapshots == [tx_index : Nat, context : Contents, violation : Contents \cup {None}]

TypeOK ==
    /\ mode \in Modes /\ verdict \in [Contents -> Verdicts]
    /\ pc \in {"next", "evm", "evaluate", "ok", "err"}
    /\ db \in Contents
    /\ results \in Seq(Results)
    /\ traces \in Seq(Events) /\ step_index \in Nat
    /\ trace_offsets \in Seq(Nat)
    /\ per_tx_snapshots \in Seq(Snapshots)
    /\ first_violation \in Contents \cup {None}
    /\ violation_count \in 0 .. NumTxs
    /\ history \in Seq(Contents)

Init ==
    /\ mode \in Modes
    /\ verdict \in [Contents -> Verdicts]
    /\ pc = "next"
    /\ db \in Contents
    /\ results = <<>>
    /\ traces = <<>> /\ step_index = 0
    /\ trace_offsets = <<>>
    /\ per_tx_snapshots = <<>> /\ first_violation = None /\ violation_count = 0
    /\ history = <<>>

-----------------------------------------------------------------------------
(* One transaction *)

StartTx ==
    /\ pc = "next" /\ Len(results) < NumTxs
    /\ trace_offsets' = Append(trace_offsets, Len(traces))
    /\ pc' = "evm"
    /\ UNCHANGED <<mode, verdict, db, results, inspector, report, history>>

\* InvariantInspector::step
InspectStep ==
    /\ pc = "evm" /\ Len(traces) < MaxSteps
    /\ traces' = Append(traces, [step_index |-> step_index, tx |-> Len(trace_offsets)])
    /\ step_index' = step_index + 1
    /\ UNCHANGED <<mode, verdict, pc, db, results, trace_offsets, report, history>>

AfterTx == pc' = IF mode = "per_tx" THEN "evaluate" ELSE "next"

TxCommits(result, content) ==
    /\ pc = "evm"
    /\ db' = content
    /\ results' = Append(results, result)
    /\ history' = Append(history, content)
    /\ AfterTx
    /\ UNCHANGED <<mode, verdict, inspector, trace_offsets, report>>

\* Mutant of TxRefused: the loop goes on with a new inspector.
RefusedNewInspector ==
    /\ pc = "evm"
    /\ results' = Append(results, "tx_error")
    /\ history' = Append(history, db)
    /\ traces' = <<>> /\ step_index' = 0
    /\ AfterTx
    /\ UNCHANGED <<mode, verdict, db, trace_offsets, report>>

\* Mutant of TxRefused: the loop goes on before the rules are evaluated.
RefusedUnevaluated ==
    /\ pc = "evm"
    /\ results' = Append(results, "tx_error")
    /\ history' = Append(history, db)
    /\ pc' = "next"
    /\ UNCHANGED <<mode, verdict, db, inspector, trace_offsets, report>>

\* Mutant of TxRefused: the clone keeps what the refused transaction wrote.
RefusedButWritten ==
    /\ pc = "evm"
    /\ db' \in Contents
    /\ results' = Append(results, "tx_error")
    /\ history' = Append(history, db')
    /\ AfterTx
    /\ UNCHANGED <<mode, verdict, inspector, trace_offsets, report>>

\* The inspector is taken back from the EVM's context all the same.
TxRefused ==
    /\ pc = "evm"
    /\ results' = Append(results, "tx_error")
    /\ history' = Append(history, db)
    /\ AfterTx
    /\ UNCHANGED <<mode, verdict, db, inspector, trace_offsets, report>>

-----------------------------------------------------------------------------
(* Evaluating the rules *)

ViolationIn(content) == IF verdict[content] = "violated" THEN content ELSE None

RecordTx(violation) ==
    /\ pc = "evaluate"
    /\ violation_count' = IF violation # None THEN violation_count + 1 ELSE violation_count
    /\ first_violation' =
          IF violation # None /\ first_violation = None THEN violation ELSE first_violation
    /\ per_tx_snapshots' =
          Append(per_tx_snapshots,
                 [tx_index |-> Len(results) - 1, context |-> db, violation |-> violation])
    /\ pc' = "next"
    /\ UNCHANGED <<mode, verdict, db, results, inspector, trace_offsets, history>>

\* Mutants of EvaluateTx: an evaluation that fails counts as no violation;
\* only the first violation is entered in the snapshots.
EvaluateUnchecked == RecordTx(ViolationIn(db))
EvaluateFirstOnly ==
    verdict[db] # "fails" /\ RecordTx(IF first_violation = None THEN ViolationIn(db) ELSE None)

\* Per transaction.  The ? operator gives up the run and all it recorded.
EvaluateTx == verdict[db] # "fails" /\ RecordTx(ViolationIn(db))

GiveUp ==
    /\ verdict[db] = "fails"
    /\ pc' = "err"
    /\ UNCHANGED <<mode, verdict, db, results, inspector, trace_offsets, report, history>>

TxEvaluationFails == pc = "evaluate" /\ GiveUp

-----------------------------------------------------------------------------
(* The end of each mode *)

AllRun(m) == pc = "next" /\ Len(results) = NumTxs /\ mode = m

Finish(violation) ==
    /\ first_violation' = violation
    /\ pc' = "ok"
    /\ UNCHANGED <<mode, verdict, db, results, inspector, trace_offsets,
                   per_tx_snapshots, violation_count, history>>

FinishInspected == AllRun("inspected") /\ Finish(first_violation)

\* InvariantAuditReport.violation is kept in first_violation.
FinishFinal == AllRun("final") /\ verdict[db] # "fails" /\ Finish(ViolationIn(db))

FinalEvaluationFails == AllRun("final") /\ GiveUp

FinishPerTx == AllRun("per_tx") /\ Finish(first_violation)

Next ==
    \/ StartTx
    \/ InspectStep
    \/ \E result \in {"success", "reverted"}, content \in Contents : TxCommits(result, content)
    \/ TxRefused
    \/ EvaluateTx
    \/ TxEvaluationFails
    \/ FinishInspected
    \/ FinishFinal
    \/ FinalEvaluationFails
    \/ FinishPerTx

Spec == Init /\ [][Next]_vars

-----------------------------------------------------------------------------
(* Properties *)

\* Auditing does not change what is audited: in every mode the clone and the
\* results evolve as in simulate_sequence.  (audit.rs, all three functions)
Run == INSTANCE SequenceRun
SameExecution == Run!Spec

\* The slice of the trace that trace_offsets gives a transaction holds all of
\* its steps and no other's, across transactions that were refused and ones
\* that executed nothing, and step_index goes on through the whole sequence.
\* (audit.rs:32, lib.rs of invariant-fuzzer, step)
SliceEnd(k) == IF k = Len(trace_offsets) THEN Len(traces) ELSE trace_offsets[k + 1]

SlicesAttributeSteps ==
    /\ \A i \in 1 .. Len(traces) : traces[i].step_index = i - 1
    /\ \A k \in 1 .. Len(trace_offsets), i \in 1 .. Len(traces) :
          traces[i].tx = k <=> i \in (trace_offsets[k] + 1) .. SliceEnd(k)

\* A per-transaction report is in step with the results: entry k is about the
\* database transaction k left, a refused one included, and the count and the
\* first violation are those of the entries.  (audit.rs,
\* simulate_sequence_with_per_tx_invariants)
ViolatedEntries ==
    {k \in 1 .. Len(per_tx_snapshots) : per_tx_snapshots[k].violation # None}

SnapshotsInStep ==
    (mode = "per_tx" /\ pc \in {"next", "ok"}) =>
        /\ Len(per_tx_snapshots) = Len(results)
        /\ \A k \in 1 .. Len(results) :
              per_tx_snapshots[k] = [tx_index  |-> k - 1,
                                     context   |-> history[k],
                                     violation |-> ViolationIn(history[k])]
        /\ violation_count = Cardinality(ViolatedEntries)
        /\ IF ViolatedEntries = {}
           THEN first_violation = None
           ELSE \E k \in ViolatedEntries :
                   /\ first_violation = history[k]
                   /\ \A j \in ViolatedEntries : k <= j

\* Auditing after each transaction finds whatever auditing at the end finds
\* on the same execution, unless it gave up on the way or the sequence is
\* empty.  (audit.rs:158)
PerTxFindsFinal ==
    (mode = "per_tx" /\ pc = "ok" /\ NumTxs > 0 /\ verdict[db] = "violated") =>
        /\ violation_count > 0
        /\ per_tx_snapshots[NumTxs].violation = db

\* A report is returned only if every evaluation it needed gave an answer;
\* one that failed costs a per-transaction audit the whole report, even if a
\* violation was recorded before.  (audit.rs:210, audit.rs:230)
ErrorsAreNotVerdicts ==
    LET evaluated == CASE mode = "inspected" -> {}
                       [] mode = "final"     -> {db}
                       [] mode = "per_tx"    -> {history[k] : k \in 1 .. Len(history)}
    IN  /\ pc = "ok"  => \A content \in evaluated : verdict[content] # "fails"
        /\ pc = "err" => \E content \in evaluated : verdict[content] = "fails"
=============================================================================

----------------------------- MODULE SequenceRun -----------------------------
(***************************************************************************)
(* Simulator::simulate_sequence of crates/revm-sim/src/simulator.rs: the   *)
(* transactions of a sequence run one after the other on one clone of the  *)
(* database.  Each adds one result; one the EVM refuses leaves the clone   *)
(* as it was, and the sequence goes on.                                    *)
(***************************************************************************)
EXTENDS Naturals, Sequences

CONSTANTS
    NumTxs,     \* length of the sequence
    Contents    \* the contents a database can have

VARIABLES
    db,         \* contents of the clone
    results     \* one result per transaction run

Init ==
    /\ db \in Contents
    /\ results = <<>>

\* transact_commit returns Ok: a reverted call commits its gas and nonce.
Commits(result, content) ==
    /\ Len(results) < NumTxs
    /\ db' = content
    /\ results' = Append(results, result)

Refused ==
    /\ Len(results) < NumTxs
    /\ results' = Append(results, "tx_error")
    /\ UNCHANGED db

Next ==
    \/ \E result \in {"success", "reverted"}, content \in Contents : Commits(result, content)
    \/ Refused

Spec == Init /\ [][Next]_<<db, results>>
=============================================================================

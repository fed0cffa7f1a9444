----------------------------- MODULE AtomicLoads -----------------------------
(***************************************************************************)
(* What loading promises to whoever holds the simulator: accounts enter    *)
(* the database in whole batches, every word of a batch is of the pinned   *)
(* block, an address already marked loaded is never fetched again, and a   *)
(* load that fails adds no account.  StateLoader, which fetches each       *)
(* account with three concurrent requests, is shown to implement this.     *)
(***************************************************************************)
EXTENDS Simulator

\* The first load of a session pins the block all its requests ask for.
PinBlock ==
    /\ loaded_block = 0
    /\ loaded_block' \in Nat
    /\ UNCHANGED <<db, loaded_addresses, snapshots, next_snapshot_id>>

\* A historical load starts from nothing, at the block it names.
RestartAtBlock ==
    /\ db' = EmptyDb
    /\ loaded_addresses' = {}
    /\ loaded_block' \in Nat
    /\ UNCHANGED <<snapshots, next_snapshot_id>>

\* The info of an account as the chain has it at block b.
ChainInfo(b) == [f \in Fields |-> b]

\* A load that succeeds inserts its whole batch at once.
LoadBatch(batch) ==
    /\ batch \cap loaded_addresses = {}
    /\ db' = [a \in Addresses |->
                 IF a \in batch
                 THEN [info |-> ChainInfo(loaded_block), storage |-> StorageOf(db, a)]
                 ELSE db[a]]
    /\ loaded_addresses' = loaded_addresses \cup batch
    /\ UNCHANGED <<loaded_block, snapshots, next_snapshot_id>>

\* Storage is loaded slot by slot.
LoadSlot(a, s) ==
    /\ db' = InsertAccountStorage(db, a, s, loaded_block)
    /\ UNCHANGED <<loaded_block, loaded_addresses, snapshots, next_snapshot_id>>

Next ==
    \/ SimNext
    \/ PinBlock
    \/ RestartAtBlock
    \/ \E batch \in SUBSET Addresses : LoadBatch(batch)
    \/ \E a \in Addresses, s \in Slots : LoadSlot(a, s)

Spec == SimInit /\ [][Next]_simVars
=============================================================================

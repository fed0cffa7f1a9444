------------------------------ MODULE Simulator ------------------------------
(***************************************************************************)
(* The Simulator object of crates/revm-sim/src/simulator.rs: its cached    *)
(* database, the bookkeeping of what was loaded from RPC, its snapshots,   *)
(* and every synchronous method that changes them.  simulate_tx,           *)
(* estimate_gas, simulate_sequence, the getters and fork_db take &self and *)
(* work on a clone: they are steps that leave these variables alone.       *)
(***************************************************************************)
EXTENDS CacheDb

CONSTANT MaxSnapshots    \* bound: snapshots a session takes

ASSUME MaxSnapshotsAssumption == MaxSnapshots \in Nat

VARIABLES
    db,                \* the CacheDB transactions run on
    loaded_block,      \* block the state was fetched at, 0 for "none yet"
    loaded_addresses,  \* addresses the loader will not fetch again
    snapshots,         \* SnapshotId -> a clone of db
    next_snapshot_id

simVars == <<db, loaded_block, loaded_addresses, snapshots, next_snapshot_id>>

SnapshotIds == 0 .. (MaxSnapshots - 1)

SimTypeOK ==
    /\ db \in Dbs
    /\ loaded_block \in Nat
    /\ loaded_addresses \in SUBSET Addresses
    /\ snapshots \in [SnapshotIds -> Dbs \cup {None}]
    /\ next_snapshot_id \in 0 .. MaxSnapshots

SimInit ==
    /\ db = EmptyDb
    /\ loaded_block = 0
    /\ loaded_addresses = {}
    /\ snapshots = [id \in SnapshotIds |-> None]
    /\ next_snapshot_id = 0

-----------------------------------------------------------------------------
(* State setters *)

\* Mutant of ClearCache: the marks stay.
ClearAccountsOnly ==
    /\ db' = EmptyDb
    /\ UNCHANGED <<loaded_block, loaded_addresses, snapshots, next_snapshot_id>>

\* clear_cache forgets the accounts; the pinned block stays.
ClearCache ==
    /\ db' = EmptyDb
    /\ loaded_addresses' = {}
    /\ UNCHANGED <<loaded_block, snapshots, next_snapshot_id>>

SetStorage(a, s) ==
    /\ db' = InsertAccountStorage(db, a, s, Local)
    /\ UNCHANGED <<loaded_block, loaded_addresses, snapshots, next_snapshot_id>>

\* prefund installs a whole AccountInfo: the balance asked for, nonce 0 and
\* no code, and marks the address as loaded.
PrefundedInfo == [DefaultInfo EXCEPT !["balance"] = Local]

\* Mutant of Prefund: the whole entry is new, not only the info.
PrefundFresh(a) ==
    /\ db' = [db EXCEPT ![a] = [info |-> PrefundedInfo, storage |-> EmptyStorage]]
    /\ loaded_addresses' = loaded_addresses \cup {a}
    /\ UNCHANGED <<loaded_block, snapshots, next_snapshot_id>>

Prefund(a) ==
    /\ db' = InsertAccountInfo(db, a, PrefundedInfo)
    /\ loaded_addresses' = loaded_addresses \cup {a}
    /\ UNCHANGED <<loaded_block, snapshots, next_snapshot_id>>

-----------------------------------------------------------------------------
(* Snapshots: of the database, and of nothing else *)

\* Mutant of Snapshot: the lowest id that is free, a released one too.
SnapshotAtFreeId ==
    /\ next_snapshot_id < MaxSnapshots
    /\ \E id \in SnapshotIds :
          /\ snapshots[id] = None
          /\ \A j \in SnapshotIds : snapshots[j] = None => id <= j
          /\ snapshots' = [snapshots EXCEPT ![id] = db]
    /\ next_snapshot_id' = next_snapshot_id + 1
    /\ UNCHANGED <<db, loaded_block, loaded_addresses>>

Snapshot ==
    /\ next_snapshot_id < MaxSnapshots
    /\ snapshots' = [snapshots EXCEPT ![next_snapshot_id] = db]
    /\ next_snapshot_id' = next_snapshot_id + 1
    /\ UNCHANGED <<db, loaded_block, loaded_addresses>>

\* An id that is not in the map makes restore return Err and change nothing.
Restore(id) ==
    /\ snapshots[id] # None
    /\ db' = snapshots[id]
    /\ UNCHANGED <<loaded_block, loaded_addresses, snapshots, next_snapshot_id>>

ReleaseSnapshot(id) ==
    /\ snapshots' = [snapshots EXCEPT ![id] = None]
    /\ UNCHANGED <<db, loaded_block, loaded_addresses, next_snapshot_id>>

\* impl Clone: the session goes on with the clone, which has the state but
\* none of the snapshots, and numbers its own from 0.
CloneSimulator ==
    /\ snapshots' = [id \in SnapshotIds |-> None]
    /\ next_snapshot_id' = 0
    /\ UNCHANGED <<db, loaded_block, loaded_addresses>>

-----------------------------------------------------------------------------
(* execute_tx *)

\* The nonce the transaction asks for is written into the simulator's own
\* database, before the clone the EVM runs on is made.
WithNonce(d, caller) ==
    InsertAccountInfo(d, caller, [InfoOf(d, caller) EXCEPT !["nonce"] = Local])

ExecuteTx(caller, hasNonce) ==
    LET prepared == IF hasNonce THEN WithNonce(db, caller) ELSE db
    IN  /\ \/ db' = prepared          \* transact_commit failed: the clone is dropped
           \/ \E touched, seen \in SUBSET Addresses :
                \E created \in SUBSET (touched \ {caller}), written \in SUBSET (touched \X Slots) :
                    /\ caller \in touched
                    /\ db' = Committed(prepared, touched, created, written, seen)
        /\ UNCHANGED <<loaded_block, loaded_addresses, snapshots, next_snapshot_id>>

-----------------------------------------------------------------------------
SimNext ==
    \/ ClearCache
    \/ \E a \in Addresses, s \in Slots : SetStorage(a, s)
    \/ \E a \in Addresses : Prefund(a)
    \/ Snapshot
    \/ \E id \in SnapshotIds : Restore(id)
    \/ \E id \in SnapshotIds : ReleaseSnapshot(id)
    \/ CloneSimulator
    \/ \E caller \in Addresses, hasNonce \in BOOLEAN : ExecuteTx(caller, hasNonce)

-----------------------------------------------------------------------------
\* A snapshot id denotes one database for as long as the object lives: a
\* stored snapshot is never overwritten, and an id that was released (or
\* skipped) never denotes anything again, however snapshot, restore and
\* release_snapshot are interleaved.  (simulator.rs, snapshot)
SnapshotIdsNeverReused ==
    [][\A id \in SnapshotIds :
          (id < next_snapshot_id /\ snapshots'[id] # None)
              => snapshots'[id] = snapshots[id]]_simVars
=============================================================================

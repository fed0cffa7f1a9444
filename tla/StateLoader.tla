----------------------------- MODULE StateLoader -----------------------------
(***************************************************************************)
(* The async loaders of crates/revm-sim/src/state.rs, composed with the    *)
(* simulator they extend.  A load borrows the simulator mutably, so no     *)
(* other method runs while one is in progress; what interleaves is the     *)
(* chain, which goes on producing blocks, and the requests: one spawned    *)
(* task per address, three concurrent requests per task, answered or       *)
(* failed in any order.  A request fails by a transport error, the         *)
(* client's timeout, a JSON-RPC error or an answer that does not parse.    *)
(***************************************************************************)
EXTENDS Simulator, Sequences

CONSTANTS
    MaxBlock,   \* bound: the last block the chain produces
    MaxArgs     \* bound: length of the slices a load is called with

ASSUME LoaderBounds == MaxBlock \in Nat /\ MaxArgs \in Nat

VARIABLES
    head,      \* the chain's latest block
    phase,     \* where the load in progress awaits, "idle" when there is none
    args,      \* the addresses the load in progress was called with
    fetched,   \* task -> field -> block of the answer, None before it
    failed,    \* tasks whose try_join! ended with an error
    joined,    \* tasks whose handle was awaited and gave an account
    target,    \* the account load_storage_slots was called with
    slots_left \* the slots load_storage_slots has still to fetch

callVars == <<phase, args, fetched, failed, joined, target, slots_left>>
vars     == <<simVars, head, callVars>>

Phases    == {"idle", "blockno", "accounts", "slots"}
Positions == 1 .. MaxArgs
Slices(S) == UNION {[1 .. n -> S] : n \in 0 .. MaxArgs}

\* The handles of the load in progress: one task per position of the slice
\* whose address is not loaded yet (to_load keeps duplicates).
Tasks == {i \in DOMAIN args : args[i] \notin loaded_addresses}

Answered(i)  == \A f \in Fields : fetched[i][f] # None
NoAnswers    == [i \in Positions |-> [f \in Fields |-> None]]
Idle         == phase = "idle"

TypeOK ==
    /\ SimTypeOK
    /\ head \in 0 .. MaxBlock
    /\ phase \in Phases
    /\ args \in Slices(Addresses)
    /\ fetched \in [Positions -> [Fields -> Nat \cup {None}]]
    /\ failed \in SUBSET Positions
    /\ joined \in SUBSET Positions
    /\ target \in Addresses \cup {None}
    /\ slots_left \in Seq(Slots)

Init ==
    /\ SimInit
    /\ head \in 0 .. MaxBlock
    /\ phase = "idle"
    /\ args = <<>>
    /\ fetched = NoAnswers
    /\ failed = {}
    /\ joined = {}
    /\ target = None
    /\ slots_left = <<>>

-----------------------------------------------------------------------------
(* Between loads *)

\* Any synchronous method of the simulator.
CallSimulator == Idle /\ SimNext /\ UNCHANGED <<head, callVars>>

\* The chain moves whether or not a load is in progress.
NewBlock ==
    /\ head < MaxBlock
    /\ head' = head + 1
    /\ UNCHANGED <<simVars, callVars>>

\* Every way a call returns: its locals are gone; tasks still running are
\* detached and hold nothing of the simulator.
Return ==
    /\ phase' = "idle"
    /\ args' = <<>>
    /\ fetched' = NoAnswers
    /\ failed' = {}
    /\ joined' = {}
    /\ target' = None
    /\ slots_left' = <<>>
    /\ UNCHANGED head

-----------------------------------------------------------------------------
(* load_state_from_rpc and load_state_at_block *)

\* A session that has no block yet asks for the latest one first.
LoadStateFromRpc(addresses) ==
    /\ Idle
    /\ args' = addresses
    /\ phase' = IF loaded_block = 0 THEN "blockno" ELSE "accounts"
    /\ UNCHANGED <<simVars, head, fetched, failed, joined, target, slots_left>>

BlockNumberAnswer ==
    /\ phase = "blockno"
    /\ loaded_block' = head
    /\ phase' = "accounts"
    /\ UNCHANGED <<db, loaded_addresses, snapshots, next_snapshot_id, head,
                   args, fetched, failed, joined, target, slots_left>>

BlockNumberFails ==
    /\ phase = "blockno"
    /\ Return
    /\ UNCHANGED simVars

\* Mutant of LoadStateAtBlock: the accounts of the other block are kept.
PinWithoutClear(addresses, block) ==
    /\ Idle
    /\ loaded_addresses' = {}
    /\ loaded_block' = block
    /\ args' = addresses
    /\ phase' = "accounts"
    /\ UNCHANGED <<db, snapshots, next_snapshot_id, head,
                   fetched, failed, joined, target, slots_left>>

\* clear_cache, the pin and the start of the requests precede any await.
LoadStateAtBlock(addresses, block) ==
    /\ Idle
    /\ db' = EmptyDb
    /\ loaded_addresses' = {}
    /\ loaded_block' = block
    /\ args' = addresses
    /\ phase' = "accounts"
    /\ UNCHANGED <<snapshots, next_snapshot_id, head,
                   fetched, failed, joined, target, slots_left>>

Answer(i, f, block) ==
    /\ phase = "accounts"
    /\ i \in Tasks \ failed
    /\ fetched[i][f] = None
    /\ fetched' = [fetched EXCEPT ![i][f] = block]
    /\ UNCHANGED <<simVars, head, phase, args, failed, joined, target, slots_left>>

\* Mutant of RpcAnswer: the request names no block, the node answers "latest".
LatestAnswer(i, f) == Answer(i, f, head)

\* The node answers one of a task's three requests, for the block it names.
RpcAnswer(i, f) == Answer(i, f, loaded_block)

\* One of them fails: try_join! ends the task.
RpcFails(i) ==
    /\ phase = "accounts"
    /\ i \in Tasks \ failed
    /\ ~Answered(i)
    /\ failed' = failed \cup {i}
    /\ UNCHANGED <<simVars, head, phase, args, fetched, joined, target, slots_left>>

\* Handles are awaited in the order they were spawned.
Awaited(i) ==
    /\ phase = "accounts"
    /\ i \in Tasks \ joined
    /\ \A j \in Tasks \ joined : i <= j

\* Mutant of AwaitAccount: the first answer is enough (join! for try_join!).
AwaitFirstAnswer(i) ==
    /\ Awaited(i)
    /\ i \notin failed /\ \E f \in Fields : fetched[i][f] # None
    /\ joined' = joined \cup {i}
    /\ UNCHANGED <<simVars, head, phase, args, fetched, failed, target, slots_left>>

AwaitAccount(i) ==
    /\ Awaited(i)
    /\ i \notin failed /\ Answered(i)
    /\ joined' = joined \cup {i}
    /\ UNCHANGED <<simVars, head, phase, args, fetched, failed, target, slots_left>>

\* Mutant of AwaitFailure: the accounts joined before it are inserted.
FailWithPartialBatch(i) ==
    /\ Awaited(i)
    /\ i \in failed
    /\ \E last \in [{args[j] : j \in joined} -> joined] :
          /\ \A a \in DOMAIN last : args[last[a]] = a
          /\ db' = [a \in Addresses |->
                       IF a \in DOMAIN last
                       THEN [info |-> fetched[last[a]], storage |-> StorageOf(db, a)]
                       ELSE db[a]]
    /\ Return
    /\ UNCHANGED <<loaded_block, loaded_addresses, snapshots, next_snapshot_id>>

\* Mutant of AwaitFailure: a failed task is spawned again, without a limit.
RetryForever(i) ==
    /\ Awaited(i)
    /\ i \in failed
    /\ failed' = failed \ {i}
    /\ fetched' = [fetched EXCEPT ![i] = [f \in Fields |-> None]]
    /\ UNCHANGED <<simVars, head, phase, args, joined, target, slots_left>>

\* The first failed handle ends the load: nothing was inserted yet.
AwaitFailure(i) ==
    /\ Awaited(i)
    /\ i \in failed
    /\ Return
    /\ UNCHANGED simVars

\* insert_accounts: of two results for one address the later one stays.
LastTask(last) ==
    \A i \in Tasks : args[last[args[i]]] = args[i] /\ i <= last[args[i]]

InsertFetched ==
    LET loaded == {args[i] : i \in Tasks}
    IN  /\ \E last \in [loaded -> Tasks] :
              /\ LastTask(last)
              /\ db' = [a \in Addresses |->
                           IF a \in loaded
                           THEN [info |-> fetched[last[a]], storage |-> StorageOf(db, a)]
                           ELSE db[a]]
        /\ loaded_addresses' = loaded_addresses \cup loaded
        /\ Return
        /\ UNCHANGED <<loaded_block, snapshots, next_snapshot_id>>

\* Mutant of InsertAccounts: the handles are not awaited.
InsertUnjoined == phase = "accounts" /\ InsertFetched

\* Once every handle gave its account, at once when there is none to load.
InsertAccounts == phase = "accounts" /\ joined = Tasks /\ InsertFetched

-----------------------------------------------------------------------------
(* load_storage_slots: one request at a time, each slot inserted as it comes *)

LoadStorageSlots(address, slots) ==
    /\ Idle
    /\ target' = address
    /\ slots_left' = slots
    /\ phase' = "slots"
    /\ UNCHANGED <<simVars, head, args, fetched, failed, joined>>

SlotAnswer ==
    /\ phase = "slots" /\ slots_left # <<>>
    /\ db' = InsertAccountStorage(db, target, Head(slots_left), loaded_block)
    /\ slots_left' = Tail(slots_left)
    /\ UNCHANGED <<loaded_block, loaded_addresses, snapshots, next_snapshot_id, head,
                   phase, args, fetched, failed, joined, target>>

\* The slots inserted so far stay.
SlotFails ==
    /\ phase = "slots" /\ slots_left # <<>>
    /\ Return
    /\ UNCHANGED simVars

SlotsDone ==
    /\ phase = "slots" /\ slots_left = <<>>
    /\ Return
    /\ UNCHANGED simVars

-----------------------------------------------------------------------------
\* A load is a future: its caller may drop it at any of its awaits, for a
\* timeout of its own say.  What was written before that await stays.
Awaiting ==
    \/ phase = "blockno"
    \/ phase = "accounts" /\ joined # Tasks
    \/ phase = "slots" /\ slots_left # <<>>

DropFuture ==
    /\ Awaiting
    /\ Return
    /\ UNCHANGED simVars

-----------------------------------------------------------------------------
StartLoad ==
    \/ \E addresses \in Slices(Addresses) : LoadStateFromRpc(addresses)
    \/ \E addresses \in Slices(Addresses), block \in 0 .. head :
          LoadStateAtBlock(addresses, block)
    \/ \E address \in Addresses, slots \in Slices(Slots) :
          LoadStorageSlots(address, slots)

\* The steps that carry a load in progress on to its return.
LoadStep ==
    \/ BlockNumberAnswer
    \/ BlockNumberFails
    \/ \E i \in Positions, f \in Fields : RpcAnswer(i, f)
    \/ \E i \in Positions : RpcFails(i)
    \/ \E i \in Positions : AwaitAccount(i)
    \/ \E i \in Positions : AwaitFailure(i)
    \/ InsertAccounts
    \/ SlotAnswer
    \/ SlotFails
    \/ SlotsDone

Next == CallSimulator \/ NewBlock \/ StartLoad \/ LoadStep \/ DropFuture

Spec == Init /\ [][Next]_vars

\* Every request ends, in an answer or in the client's timeout, and tokio
\* polls a future that can go on; nobody is obliged to call anything.
FairSpec == Spec /\ WF_vars(LoadStep)

-----------------------------------------------------------------------------
(* Properties *)

\* Seen from outside, loads are the atomic steps AtomicLoads promises: no
\* account of a half-answered or failed load is ever in the database, and no
\* loaded address is fetched twice.  (state.rs, fetch_accounts_parallel and
\* insert_accounts)
Loads == INSTANCE AtomicLoads
LoadsAreAtomic == Loads!Spec

\* The balance, nonce and code of an account come from three requests; those
\* the session has not overwritten are of one block, in the live database and
\* in every snapshot, however the chain, pins and restores interleave.
\* (state.rs, fetch_accounts_parallel)
OneBlock(info) ==
    \A f, g \in Fields : (info[f] \in Nat /\ info[g] \in Nat) => info[f] = info[g]

OneBlockPerAccount(d) == \A a \in CachedIn(d) : OneBlock(d[a].info)

NoTornAccount ==
    /\ OneBlockPerAccount(db)
    /\ \A id \in SnapshotIds : snapshots[id] # None => OneBlockPerAccount(snapshots[id])

\* A session awaits a block number only while it has none; answers exist only
\* while a load awaits accounts, all of them are of the block that is pinned
\* by then, and a handle that was joined gave a whole account: what
\* insert_accounts relies on and checks nowhere.  (state.rs,
\* load_state_from_rpc and fetch_accounts_parallel)
AnswersOfThePin ==
    /\ phase = "blockno" => loaded_block = 0
    /\ \A i \in Positions, f \in Fields :
          fetched[i][f] # None => phase = "accounts" /\ fetched[i][f] = loaded_block
    /\ \A i \in joined : Answered(i)
    /\ phase = "slots" => target \in Addresses

\* A database fetched at the pinned block stays so, but for two steps: the
\* restore of a snapshot taken under another pin, and the pin of a session
\* whose block is 0, which the code reads as "no block yet".  (state.rs,
\* load_state_from_rpc; simulator.rs, restore)
PinnedBlockKept ==
    [][FetchedAt(db, loaded_block)
          => \/ FetchedAt(db', loaded_block')
             \/ \E id \in SnapshotIds : Restore(id)
             \/ BlockNumberAnswer]_vars

\* An address marked loaded has an entry to be loaded from: only a restore,
\* which brings back an older database and keeps the marks, can undo that.
\* (simulator.rs, restore; state.rs, insert_accounts)
MarkedAddressesCached ==
    [][loaded_addresses \subseteq CachedIn(db)
          => \/ loaded_addresses' \subseteq CachedIn(db')
             \/ \E id \in SnapshotIds : Restore(id)]_vars

\* A slot that is in the database stays there: no load of its account, no
\* prefund and no transaction of its own takes it out, unless the session goes
\* back (clear_cache, a historical load, a restore).  A transaction of another
\* caller is exempt: it may create the contract, and what a commit does is
\* left open.  (state.rs, insert_accounts; simulator.rs, prefund: both call
\* insert_account_info)
SlotsKept ==
    [][\A a \in Addresses, s \in Slots :
          StorageOf(db, a)[s] # None =>
              \/ StorageOf(db', a)[s] # None
              \/ ClearCache
              \/ \E addresses \in Slices(Addresses), block \in 0 .. head :
                    LoadStateAtBlock(addresses, block)
              \/ \E id \in SnapshotIds : Restore(id)
              \/ \E caller \in Addresses \ {a}, hasNonce \in BOOLEAN : ExecuteTx(caller, hasNonce)]_vars

\* A load that was started returns, with accounts or with an error.
\* (state.rs: every await is of a request, and the client has a timeout)
LoadsReturn == ~Idle ~> Idle

-----------------------------------------------------------------------------
(* What the documentation says and the code does not do *)

\* "Load on-chain state for the given addresses from RPC": once the load has
\* returned Ok, each of them is in the database.  (state.rs:199)
LoadedOnReturn ==
    [][InsertAccounts => \A i \in DOMAIN args : db'[args[i]] # None]_vars

\* "Skips addresses that are already cached": an account the session wrote
\* to, by execute_tx "with state commit" say, is not replaced by a load.
\* (state.rs:201, simulator.rs:185)
CachedAccountsSkipped ==
    [][InsertAccounts => \A a \in CachedIn(db) :
          (\E f \in Fields : db[a].info[f] = Local) => db'[a] = db[a]]_vars
=============================================================================

-------------------------- MODULE StateLoaderProofs --------------------------
(***************************************************************************)
(* Theorems about StateLoader, for every number of addresses, slots,       *)
(* snapshots and blocks and every length of the slices a load is given.    *)
(***************************************************************************)
EXTENDS StateLoader, WellFoundedInduction, TLAPS

\* The inductive invariant.  An account that is not torn is only inserted
\* because its three answers are of the pinned block, and it has three
\* answers because its handle was joined.
IInv == TypeOK /\ AnswersOfThePin /\ NoTornAccount

-----------------------------------------------------------------------------
(* The operations of CacheDb *)

LEMMA InfoOfAccount ==
    ASSUME NEW d \in Dbs, NEW a \in Addresses
    PROVE  InfoOf(d, a) \in Infos /\ StorageOf(d, a) \in Storages
BY SMT DEF Dbs, Accounts, Infos, Storages, Origins, InfoOf, StorageOf, DefaultInfo, EmptyStorage

LEMMA InfoOfUntorn ==
    ASSUME NEW d \in Dbs, NEW a \in Addresses, OneBlockPerAccount(d)
    PROVE  OneBlock(InfoOf(d, a))
BY SentinelsDistinct DEF OneBlockPerAccount, OneBlock, CachedIn, InfoOf, DefaultInfo

\* Replacing the entry of one account by an untorn one.
LEMMA PutAccount ==
    ASSUME NEW d \in Dbs, NEW a \in Addresses,
           NEW info \in Infos, NEW storage \in Storages
    PROVE  LET e == [d EXCEPT ![a] = [info |-> info, storage |-> storage]]
           IN  /\ e \in Dbs
               /\ (OneBlockPerAccount(d) /\ OneBlock(info)) => OneBlockPerAccount(e)
<1> DEFINE e == [d EXCEPT ![a] = [info |-> info, storage |-> storage]]
<1>1. [info |-> info, storage |-> storage] \in Accounts
  BY DEF Accounts
<1>2. e \in Dbs
  BY <1>1 DEF Dbs
<1>3. ASSUME OneBlockPerAccount(d), OneBlock(info), NEW b \in CachedIn(e)
      PROVE  OneBlock(e[b].info)
  <2>1. CASE b = a
    BY <2>1, <1>3 DEF Dbs
  <2>2. CASE b # a
    <3>1. b \in Addresses /\ e[b] # None /\ e[b] = d[b]
      BY <2>2 DEF CachedIn, Dbs
    <3>2. b \in CachedIn(d)
      BY <3>1 DEF CachedIn
    <3> QED BY <3>1, <3>2, <1>3 DEF OneBlockPerAccount
  <2> QED BY <2>1, <2>2
<1> QED BY <1>2, <1>3 DEF OneBlockPerAccount

LEMMA InsertInfo ==
    ASSUME NEW d \in Dbs, NEW a \in Addresses, NEW info \in Infos
    PROVE  /\ InsertAccountInfo(d, a, info) \in Dbs
           /\ (OneBlockPerAccount(d) /\ OneBlock(info))
                 => OneBlockPerAccount(InsertAccountInfo(d, a, info))
BY InfoOfAccount, PutAccount DEF InsertAccountInfo

LEMMA InsertStorage ==
    ASSUME NEW d \in Dbs, NEW a \in Addresses, NEW s \in Slots, NEW o \in Origins
    PROVE  /\ InsertAccountStorage(d, a, s, o) \in Dbs
           /\ OneBlockPerAccount(d)
                 => OneBlockPerAccount(InsertAccountStorage(d, a, s, o))
<1>1. [StorageOf(d, a) EXCEPT ![s] = o] \in Storages
  BY InfoOfAccount DEF Storages
<1> QED BY <1>1, InfoOfAccount, InfoOfUntorn, PutAccount DEF InsertAccountStorage

LEMMA NonceOverride ==
    ASSUME NEW d \in Dbs, NEW a \in Addresses
    PROVE  /\ WithNonce(d, a) \in Dbs
           /\ OneBlockPerAccount(d) => OneBlockPerAccount(WithNonce(d, a))
<1> DEFINE info == [InfoOf(d, a) EXCEPT !["nonce"] = Local]
<1>1. info \in Infos
  BY InfoOfAccount DEF Infos, Origins
<1>2. OneBlock(InfoOf(d, a)) => OneBlock(info)
  BY InfoOfAccount, SentinelsDistinct DEF OneBlock, Infos
<1> QED BY <1>1, <1>2, InfoOfUntorn, InsertInfo DEF WithNonce

LEMMA Commit ==
    ASSUME NEW d \in Dbs, NEW touched \in SUBSET Addresses,
           NEW created, NEW written \in SUBSET (touched \X Slots), NEW seen \in SUBSET Addresses
    PROVE  /\ Committed(d, touched, created, written, seen) \in Dbs
           /\ OneBlockPerAccount(d)
                 => OneBlockPerAccount(Committed(d, touched, created, written, seen))
<1> DEFINE e == Committed(d, touched, created, written, seen)
<1>1. ASSUME NEW a \in Addresses
      PROVE  /\ e[a] \in Accounts \cup {None}
             /\ OneBlockPerAccount(d) /\ a \in CachedIn(e) => OneBlock(e[a].info)
  <2>1. CASE a \in touched
    <3> DEFINE i == [f \in Fields |-> Local]
               s == [x \in Slots |-> IF <<a, x>> \in written
                                     THEN Local ELSE IF a \in created THEN None ELSE StorageOf(d, a)[x]]
    <3>1. i \in Infos /\ OneBlock(i)
      BY SentinelsDistinct DEF Infos, Origins, OneBlock
    <3>2. s \in Storages
      BY InfoOfAccount DEF Storages, Origins
    <3>3. e[a] = [info |-> i, storage |-> s]
      BY <2>1 DEF Committed
    <3> QED BY <3>1, <3>2, <3>3 DEF Accounts
  <2>2. CASE a \notin touched /\ a \in seen
    <3>1. e[a] = [info |-> InfoOf(d, a), storage |-> StorageOf(d, a)]
      BY <2>2 DEF Committed
    <3> QED BY <3>1, InfoOfAccount, InfoOfUntorn DEF Accounts
  <2>3. CASE a \notin touched /\ a \notin seen
    <3>1. e[a] = d[a]
      BY <2>3 DEF Committed
    <3> QED BY <3>1 DEF Dbs, OneBlockPerAccount, CachedIn
  <2> QED BY <2>1, <2>2, <2>3
<1>2. e \in Dbs
  BY <1>1 DEF Dbs, Committed
<1>3. OneBlockPerAccount(d) => OneBlockPerAccount(e)
  BY <1>1 DEF OneBlockPerAccount, CachedIn
<1> QED BY <1>2, <1>3

-----------------------------------------------------------------------------
(* The synchronous methods *)

LEMMA EmptyDbUntorn == EmptyDb \in Dbs /\ OneBlockPerAccount(EmptyDb)
BY DEF EmptyDb, Dbs, OneBlockPerAccount, CachedIn

\* A step that puts an untorn database in place of db and leaves the
\* snapshots alone.
LEMMA NewDb ==
    ASSUME SimTypeOK, NoTornAccount, UNCHANGED <<snapshots, next_snapshot_id>>,
           db' \in Dbs, OneBlockPerAccount(db) => OneBlockPerAccount(db'),
           loaded_block' \in Nat, loaded_addresses' \in SUBSET Addresses
    PROVE  SimTypeOK' /\ NoTornAccount'
BY DEF SimTypeOK, NoTornAccount

LEMMA SimStep ==
    ASSUME SimTypeOK, NoTornAccount, SimNext
    PROVE  SimTypeOK' /\ NoTornAccount'
<1> USE DEF SimTypeOK
<1>1. CASE ClearCache
  BY <1>1, EmptyDbUntorn, NewDb DEF ClearCache
<1>2. ASSUME NEW a \in Addresses, NEW s \in Slots, SetStorage(a, s)
      PROVE  SimTypeOK' /\ NoTornAccount'
  <2>1. Local \in Origins
    BY DEF Origins
  <2> QED BY <1>2, <2>1, InsertStorage, NewDb DEF SetStorage
<1>3. ASSUME NEW a \in Addresses, Prefund(a)
      PROVE  SimTypeOK' /\ NoTornAccount'
  <2>1. PrefundedInfo \in Infos /\ OneBlock(PrefundedInfo)
    BY SentinelsDistinct DEF PrefundedInfo, DefaultInfo, Infos, Origins, OneBlock
  <2> QED BY <1>3, <2>1, InsertInfo, NewDb DEF Prefund
<1>4. CASE Snapshot
  <2>1. next_snapshot_id \in SnapshotIds /\ next_snapshot_id' \in 0 .. MaxSnapshots
    BY <1>4, MaxSnapshotsAssumption DEF Snapshot, SnapshotIds
  <2>2. snapshots' \in [SnapshotIds -> Dbs \cup {None}]
    BY <1>4, <2>1 DEF Snapshot
  <2>3. ASSUME NEW id \in SnapshotIds, snapshots'[id] # None
        PROVE  OneBlockPerAccount(snapshots'[id])
    <3>1. snapshots'[id] = IF id = next_snapshot_id THEN db ELSE snapshots[id]
      BY <1>4 DEF Snapshot
    <3> QED BY <3>1, <2>3 DEF NoTornAccount
  <2> QED BY <1>4, <2>1, <2>2, <2>3 DEF Snapshot, NoTornAccount
<1>5. ASSUME NEW id \in SnapshotIds, Restore(id)
      PROVE  SimTypeOK' /\ NoTornAccount'
  BY <1>5, NewDb DEF Restore, NoTornAccount
<1>6. ASSUME NEW id \in SnapshotIds, ReleaseSnapshot(id)
      PROVE  SimTypeOK' /\ NoTornAccount'
  BY <1>6 DEF ReleaseSnapshot, NoTornAccount
<1>7. CASE CloneSimulator
  BY <1>7, MaxSnapshotsAssumption DEF CloneSimulator, NoTornAccount
<1>8. ASSUME NEW caller \in Addresses, NEW hasNonce \in BOOLEAN, ExecuteTx(caller, hasNonce)
      PROVE  SimTypeOK' /\ NoTornAccount'
  <2> DEFINE prepared == IF hasNonce THEN WithNonce(db, caller) ELSE db
  <2>1. prepared \in Dbs /\ (OneBlockPerAccount(db) => OneBlockPerAccount(prepared))
    BY NonceOverride
  <2>2. db' \in Dbs /\ (OneBlockPerAccount(prepared) => OneBlockPerAccount(db'))
    <3>1. CASE db' = prepared
      BY <3>1, <2>1
    <3>2. ASSUME NEW touched \in SUBSET Addresses, NEW seen \in SUBSET Addresses,
                 NEW created \in SUBSET (touched \ {caller}), NEW written \in SUBSET (touched \X Slots),
                 db' = Committed(prepared, touched, created, written, seen)
          PROVE  db' \in Dbs /\ (OneBlockPerAccount(prepared) => OneBlockPerAccount(db'))
      <4> HIDE DEF prepared
      <4> QED BY <3>2, <2>1, Commit
    <3> QED BY <1>8, <3>1, <3>2 DEF ExecuteTx
  <2> HIDE DEF prepared
  <2>3. UNCHANGED <<loaded_block, loaded_addresses, snapshots, next_snapshot_id>>
    BY <1>8 DEF ExecuteTx
  <2> QED BY <2>1, <2>2, <2>3, NewDb
<1> QED BY <1>1, <1>2, <1>3, <1>4, <1>5, <1>6, <1>7, <1>8 DEF SimNext

-----------------------------------------------------------------------------
(* The inductive invariant *)

LEMMA InitEstablishes == Init => IInv
<1> SUFFICES ASSUME Init PROVE IInv
  OBVIOUS
<1>1. SimTypeOK
  BY EmptyDbUntorn, MaxSnapshotsAssumption DEF Init, SimInit, SimTypeOK
<1>2. <<>> \in Slices(Addresses)
  <2>1. <<>> \in [1 .. 0 -> Addresses] /\ 0 \in 0 .. MaxArgs
    BY LoaderBounds
  <2> QED BY <2>1 DEF Slices
<1>3. TypeOK
  BY <1>1, <1>2 DEF Init, TypeOK, Phases, NoAnswers
<1>4. NoTornAccount
  BY EmptyDbUntorn DEF Init, SimInit, NoTornAccount
<1>5. AnswersOfThePin
  BY DEF Init, AnswersOfThePin, NoAnswers
<1> QED BY <1>3, <1>4, <1>5 DEF IInv

\* However a call returns, nothing of it is left.
LEMMA ReturnEstablishes ==
    ASSUME TypeOK, Return
    PROVE  /\ SimTypeOK' => TypeOK'
           /\ AnswersOfThePin'
<1>1. args' \in Slices(Addresses)
  <2>1. <<>> \in [1 .. 0 -> Addresses] /\ 0 \in 0 .. MaxArgs
    BY LoaderBounds
  <2> QED BY <2>1 DEF Return, Slices
<1>2. fetched' = NoAnswers /\ NoAnswers \in [Positions -> [Fields -> Nat \cup {None}]]
  BY DEF Return, NoAnswers
<1>3. SimTypeOK' => TypeOK'
  BY <1>1, <1>2 DEF Return, TypeOK, Phases
<1>4. AnswersOfThePin'
  BY DEF Return, AnswersOfThePin, NoAnswers
<1> QED BY <1>3, <1>4

\* The accounts of a batch are untorn: each is the answers of a joined task.
LEMMA InsertAccountsStep ==
    ASSUME IInv, InsertAccounts
    PROVE  /\ SimTypeOK' /\ NoTornAccount'
           /\ \E last \in [{args[i] : i \in Tasks} -> Tasks] :
                 /\ \A i \in Tasks : fetched[i] = [f \in Fields |-> loaded_block]
                 /\ db' = [a \in Addresses |->
                             IF a \in {args[i] : i \in Tasks}
                             THEN [info    |-> fetched[last[a]],
                                   storage |-> StorageOf(db, a)]
                             ELSE db[a]]
<1> USE DEF IInv, TypeOK, SimTypeOK
<1> DEFINE loaded == {args[i] : i \in Tasks}
<1>1. PICK last \in [loaded -> Tasks] :
         db' = [a \in Addresses |-> IF a \in loaded
                                    THEN [info |-> fetched[last[a]], storage |-> StorageOf(db, a)]
                                    ELSE db[a]]
  BY DEF InsertAccounts, InsertFetched
<1>2. /\ UNCHANGED <<loaded_block, snapshots, next_snapshot_id>>
      /\ loaded_addresses' = loaded_addresses \cup loaded
      /\ joined = Tasks
  BY DEF InsertAccounts, InsertFetched
<1>3. ASSUME NEW i \in Tasks
      PROVE  /\ fetched[i] = [f \in Fields |-> loaded_block]
             /\ args[i] \in Addresses
  <2>1. i \in Positions
    BY <1>2
  <2>2. \A f \in Fields : fetched[i][f] = loaded_block
    BY <1>2, <2>1 DEF AnswersOfThePin, Answered
  <2>3. args[i] \in Addresses
    <3>1. PICK n \in 0 .. MaxArgs : args \in [1 .. n -> Addresses]
      BY DEF Slices
    <3> QED BY <3>1 DEF Tasks
  <2> QED BY <2>1, <2>2, <2>3
<1>4. loaded_addresses' \in SUBSET Addresses
  BY <1>2, <1>3
<1>5. ASSUME NEW i \in Tasks
      PROVE  fetched[i] \in Infos /\ OneBlock(fetched[i])
  BY <1>3 DEF Infos, Origins, OneBlock
<1>6. ASSUME NEW a \in Addresses
      PROVE  /\ db'[a] \in Accounts \cup {None}
             /\ a \in CachedIn(db') => OneBlock(db'[a].info)
  <2>1. CASE a \in loaded
    <3>1. db'[a] = [info |-> fetched[last[a]], storage |-> StorageOf(db, a)]
      BY <1>1, <2>1
    <3>2. last[a] \in Tasks
      BY <1>1, <2>1
    <3> QED BY <3>1, <3>2, <1>5, InfoOfAccount DEF Accounts
  <2>2. CASE a \notin loaded
    <3>1. db'[a] = db[a]
      BY <1>1, <2>2
    <3> QED BY <3>1 DEF Dbs, NoTornAccount, OneBlockPerAccount, CachedIn
  <2> QED BY <2>1, <2>2
<1>7. db' \in Dbs
  BY <1>1, <1>6 DEF Dbs
<1>8. OneBlockPerAccount(db')
  BY <1>6 DEF OneBlockPerAccount, CachedIn
<1> QED BY <1>1, <1>2, <1>3, <1>4, <1>7, <1>8, NewDb

LEMMA StartLoadStep == ASSUME IInv, StartLoad PROVE IInv'
<1> USE DEF IInv, TypeOK
<1>1. ASSUME NEW addresses \in Slices(Addresses), LoadStateFromRpc(addresses)
      PROVE  IInv'
  <2>1. UNCHANGED simVars
    BY <1>1 DEF LoadStateFromRpc
  <2> QED BY <1>1, <2>1 DEF LoadStateFromRpc, simVars, SimTypeOK, NoTornAccount, Phases,
             Idle, AnswersOfThePin, Answered
<1>2. ASSUME NEW addresses \in Slices(Addresses), NEW block \in 0 .. head,
             LoadStateAtBlock(addresses, block)
      PROVE  IInv'
  <2>1. SimTypeOK' /\ NoTornAccount'
    BY <1>2, EmptyDbUntorn, NewDb, LoaderBounds DEF LoadStateAtBlock
  <2>2. TypeOK'
    BY <1>2, <2>1 DEF LoadStateAtBlock, Phases
  <2>3. AnswersOfThePin'
    BY <1>2 DEF LoadStateAtBlock, Idle, AnswersOfThePin, Answered
  <2> QED BY <2>1, <2>2, <2>3
<1>3. ASSUME NEW address \in Addresses, NEW slots \in Slices(Slots),
             LoadStorageSlots(address, slots)
      PROVE  IInv'
  <2>1. UNCHANGED simVars
    BY <1>3 DEF LoadStorageSlots
  <2>2. slots \in Seq(Slots)
    BY LoaderBounds DEF Slices
  <2> QED BY <1>3, <2>1, <2>2 DEF LoadStorageSlots, simVars, SimTypeOK, NoTornAccount,
             Phases, Idle, AnswersOfThePin, Answered
<1> QED BY <1>1, <1>2, <1>3 DEF StartLoad

LEMMA ReturnKeeps == ASSUME IInv, UNCHANGED simVars, Return PROVE IInv'
<1>1. SimTypeOK' /\ NoTornAccount'
  BY DEF IInv, TypeOK, simVars, SimTypeOK, NoTornAccount
<1> QED BY <1>1, ReturnEstablishes DEF IInv

LEMMA LoadStepKeeps == ASSUME IInv, LoadStep PROVE IInv'
<1> USE DEF IInv, TypeOK
<1>1. CASE BlockNumberAnswer
  <2>1. SimTypeOK' /\ NoTornAccount'
    BY <1>1, LoaderBounds, NewDb DEF BlockNumberAnswer, SimTypeOK
  <2>2. TypeOK'
    BY <1>1, <2>1 DEF BlockNumberAnswer, Phases
  <2>3. AnswersOfThePin'
    BY <1>1 DEF BlockNumberAnswer, AnswersOfThePin, Answered
  <2> QED BY <2>1, <2>2, <2>3
<1>2. CASE BlockNumberFails
  BY <1>2, ReturnKeeps DEF BlockNumberFails
<1>3. ASSUME NEW i \in Positions, NEW f \in Fields, RpcAnswer(i, f)
      PROVE  IInv'
  <2>1. UNCHANGED simVars /\ loaded_block \in Nat
    BY <1>3 DEF RpcAnswer, Answer, SimTypeOK
  <2>2. TypeOK' /\ NoTornAccount'
    BY <1>3, <2>1 DEF RpcAnswer, Answer, simVars, SimTypeOK, NoTornAccount
  <2>3. \A j \in Positions, g \in Fields :
           fetched'[j][g] = IF j = i /\ g = f THEN loaded_block ELSE fetched[j][g]
    BY <1>3 DEF RpcAnswer, Answer
  <2>4. \A j \in Positions : Answered(j) => \A g \in Fields : fetched'[j][g] # None
    BY <2>1, <2>3, SentinelsDistinct DEF Answered
  <2>5. AnswersOfThePin'
    BY <1>3, <2>1, <2>3, <2>4 DEF RpcAnswer, Answer, AnswersOfThePin, Answered, simVars
  <2> QED BY <2>2, <2>5
<1>4. ASSUME NEW i \in Positions, RpcFails(i)
      PROVE  IInv'
  BY <1>4 DEF RpcFails, simVars, SimTypeOK, NoTornAccount, AnswersOfThePin, Answered
<1>5. ASSUME NEW i \in Positions, AwaitAccount(i)
      PROVE  IInv'
  BY <1>5 DEF AwaitAccount, simVars, SimTypeOK, NoTornAccount, AnswersOfThePin, Answered
<1>6. ASSUME NEW i \in Positions, AwaitFailure(i)
      PROVE  IInv'
  BY <1>6, ReturnKeeps DEF AwaitFailure
<1>7. CASE InsertAccounts
  BY <1>7, InsertAccountsStep, ReturnEstablishes DEF InsertAccounts, InsertFetched
<1>8. CASE SlotAnswer
  <2>1. target \in Addresses /\ Head(slots_left) \in Slots /\ Tail(slots_left) \in Seq(Slots)
    BY <1>8 DEF SlotAnswer, AnswersOfThePin
  <2>2. db \in Dbs /\ loaded_block \in Origins
    BY DEF SimTypeOK, Origins
  <2>3. SimTypeOK' /\ NoTornAccount'
    BY <1>8, <2>1, <2>2, InsertStorage, NewDb DEF SlotAnswer, SimTypeOK
  <2>4. TypeOK'
    BY <1>8, <2>1, <2>3 DEF SlotAnswer
  <2>5. AnswersOfThePin'
    BY <1>8 DEF SlotAnswer, AnswersOfThePin, Answered
  <2> QED BY <2>3, <2>4, <2>5
<1>9. CASE SlotFails
  BY <1>9, ReturnKeeps DEF SlotFails
<1>10. CASE SlotsDone
  BY <1>10, ReturnKeeps DEF SlotsDone
<1> QED BY <1>1, <1>2, <1>3, <1>4, <1>5, <1>6, <1>7, <1>8, <1>9, <1>10 DEF LoadStep

LEMMA NextKeeps == IInv /\ [Next]_vars => IInv'
<1> SUFFICES ASSUME IInv, [Next]_vars PROVE IInv'
  OBVIOUS
<1>1. CASE CallSimulator
  <2>1. SimTypeOK' /\ NoTornAccount'
    BY <1>1, SimStep DEF CallSimulator, IInv, TypeOK
  <2>2. TypeOK'
    BY <1>1, <2>1 DEF CallSimulator, IInv, TypeOK, callVars
  <2>3. AnswersOfThePin'
    BY <1>1 DEF CallSimulator, callVars, Idle, IInv, AnswersOfThePin, Answered
  <2> QED BY <2>1, <2>2, <2>3 DEF IInv
<1>2. CASE NewBlock
  BY <1>2, LoaderBounds DEF NewBlock, IInv, TypeOK, simVars, callVars, SimTypeOK, NoTornAccount,
     AnswersOfThePin, Answered
<1>3. CASE StartLoad
  BY <1>3, StartLoadStep
<1>4. CASE LoadStep
  BY <1>4, LoadStepKeeps
<1>5. CASE DropFuture
  BY <1>5, ReturnKeeps DEF DropFuture
<1>6. CASE UNCHANGED vars
  BY <1>6 DEF vars, simVars, callVars, IInv, TypeOK, SimTypeOK, NoTornAccount,
     AnswersOfThePin, Answered
<1> QED BY <1>1, <1>2, <1>3, <1>4, <1>5, <1>6 DEF Next

-----------------------------------------------------------------------------
(* Theorems *)

\* IInv holds of every reachable state.
THEOREM Invariance == Spec => []IInv
BY InitEstablishes, NextKeeps, PTL DEF Spec

\* The simulator and the load in progress only ever hold values of their
\* types: in particular an account is inserted with three answers.
THEOREM TypeCorrect == Spec => []TypeOK
BY Invariance, PTL DEF IInv

\* Every answer a load holds is of the block it is pinned to, through dropped
\* futures, restores and blocks that arrive meanwhile.
THEOREM AnswersArePinned == Spec => []AnswersOfThePin
BY Invariance, PTL DEF IInv

\* No account, live or in a snapshot, mixes the answers of two blocks.
THEOREM AccountsUntorn == Spec => []NoTornAccount
BY Invariance, PTL DEF IInv

-----------------------------------------------------------------------------
(* StateLoader implements AtomicLoads *)

\* AtomicLoads extends Simulator too: its operations are the same ones.
LEMMA SameCacheDb ==
    ASSUME NEW d, NEW a
    PROVE  /\ EmptyDb = Loads!EmptyDb
           /\ PrefundedInfo = Loads!PrefundedInfo
           /\ SnapshotIds = Loads!SnapshotIds
           /\ InfoOf(d, a) = Loads!InfoOf(d, a)
           /\ StorageOf(d, a) = Loads!StorageOf(d, a)
BY DEF EmptyDb, PrefundedInfo, SnapshotIds, InfoOf, StorageOf, DefaultInfo, EmptyStorage, Fields,
       Loads!EmptyDb, Loads!PrefundedInfo, Loads!SnapshotIds, Loads!InfoOf, Loads!StorageOf,
       Loads!DefaultInfo, Loads!EmptyStorage, Loads!Fields

LEMMA SameInserts ==
    ASSUME NEW d, NEW a, NEW s, NEW v
    PROVE  /\ InsertAccountInfo(d, a, v) = Loads!InsertAccountInfo(d, a, v)
           /\ InsertAccountStorage(d, a, s, v) = Loads!InsertAccountStorage(d, a, s, v)
<1>1. InfoOf(d, a) = Loads!InfoOf(d, a) /\ StorageOf(d, a) = Loads!StorageOf(d, a)
  BY SameCacheDb
<1>2. InsertAccountInfo(d, a, v) = Loads!InsertAccountInfo(d, a, v)
  BY <1>1 DEF InsertAccountInfo, Loads!InsertAccountInfo
<1>3. InsertAccountStorage(d, a, s, v) = Loads!InsertAccountStorage(d, a, s, v)
  BY <1>1, Zenon DEF InsertAccountStorage, Loads!InsertAccountStorage
<1> QED BY <1>2, <1>3

LEMMA SameCommit ==
    ASSUME NEW d, NEW touched, NEW created, NEW written, NEW seen
    PROVE  Committed(d, touched, created, written, seen) = Loads!Committed(d, touched, created, written, seen)
<1>1. \A a : InfoOf(d, a) = Loads!InfoOf(d, a) /\ StorageOf(d, a) = Loads!StorageOf(d, a)
  BY SameCacheDb
<1> QED BY <1>1 DEF Committed, Loads!Committed, Fields, Loads!Fields

LEMMA SameNonceOverride ==
    ASSUME NEW d, NEW a
    PROVE  WithNonce(d, a) = Loads!WithNonce(d, a)
<1>1. InfoOf(d, a) = Loads!InfoOf(d, a)
  BY SameCacheDb
<1> QED BY <1>1, SameInserts DEF WithNonce, Loads!WithNonce

LEMMA SameOperations ==
    /\ SimInit => Loads!SimInit
    /\ SimNext => Loads!SimNext
<1>1. /\ EmptyDb = Loads!EmptyDb
      /\ PrefundedInfo = Loads!PrefundedInfo
      /\ SnapshotIds = Loads!SnapshotIds
  BY SameCacheDb
<1>2. SimInit => Loads!SimInit
  BY <1>1 DEF SimInit, Loads!SimInit
<1>3. ClearCache => Loads!ClearCache
  BY <1>1 DEF ClearCache, Loads!ClearCache
<1>4. \A a \in Addresses, s \in Slots : SetStorage(a, s) => Loads!SetStorage(a, s)
  BY SameInserts DEF SetStorage, Loads!SetStorage
<1>5. \A a \in Addresses : Prefund(a) => Loads!Prefund(a)
  BY <1>1, SameInserts DEF Prefund, Loads!Prefund
<1>6. Snapshot => Loads!Snapshot
  BY DEF Snapshot, Loads!Snapshot
<1>7. \A id : /\ Restore(id) => Loads!Restore(id)
              /\ ReleaseSnapshot(id) => Loads!ReleaseSnapshot(id)
  BY DEF Restore, Loads!Restore, ReleaseSnapshot, Loads!ReleaseSnapshot
<1>8. CloneSimulator => Loads!CloneSimulator
  BY <1>1 DEF CloneSimulator, Loads!CloneSimulator
<1>9. \A a \in Addresses, hasNonce \in BOOLEAN :
         ExecuteTx(a, hasNonce) => Loads!ExecuteTx(a, hasNonce)
  BY SameNonceOverride, SameCommit DEF ExecuteTx, Loads!ExecuteTx
<1>10. SimNext => Loads!SimNext
  BY <1>1, <1>3, <1>4, <1>5, <1>6, <1>7, <1>8, <1>9 DEF SimNext, Loads!SimNext
<1> QED BY <1>2, <1>10

\* A load that inserts accounts is one batch, of addresses not marked yet.
LEMMA InsertIsBatch ==
    ASSUME IInv, InsertAccounts
    PROVE  \E batch \in SUBSET Addresses : Loads!LoadBatch(batch)
<1> DEFINE batch == {args[i] : i \in Tasks}
<1>1. PICK last \in [batch -> Tasks] :
         /\ \A i \in Tasks : fetched[i] = [f \in Fields |-> loaded_block]
         /\ db' = [a \in Addresses |->
                     IF a \in batch
                     THEN [info |-> fetched[last[a]], storage |-> StorageOf(db, a)]
                     ELSE db[a]]
  BY InsertAccountsStep
<1>2. batch \in SUBSET Addresses
  <2>1. PICK n \in 0 .. MaxArgs : args \in [1 .. n -> Addresses]
    BY DEF IInv, TypeOK, Slices
  <2> QED BY <2>1 DEF Tasks
<1>3. batch \cap loaded_addresses = {}
  BY DEF Tasks
<1>4. \A a \in batch : fetched[last[a]] = Loads!ChainInfo(loaded_block)
  BY <1>1 DEF Loads!ChainInfo, Fields, Loads!Fields
<1>5. db' = [a \in Addresses |->
               IF a \in batch
               THEN [info |-> Loads!ChainInfo(loaded_block), storage |-> Loads!StorageOf(db, a)]
               ELSE db[a]]
  BY <1>1, <1>4, SameCacheDb
<1>6. Loads!LoadBatch(batch)
  BY <1>3, <1>5 DEF Loads!LoadBatch, InsertAccounts, InsertFetched
<1> QED BY <1>2, <1>6

LEMMA StepsImplement == IInv /\ [Next]_vars => [Loads!Next]_(Loads!simVars)
<1> SUFFICES ASSUME IInv, Next PROVE Loads!Next \/ UNCHANGED simVars
  BY DEF vars, simVars, Loads!simVars
<1>1. CASE CallSimulator
  BY <1>1, SameOperations DEF CallSimulator, Loads!Next
<1>2. CASE NewBlock
  BY <1>2 DEF NewBlock
<1>3. CASE StartLoad
  <2>1. ASSUME NEW addresses, NEW block \in 0 .. head, LoadStateAtBlock(addresses, block)
        PROVE  Loads!RestartAtBlock
    BY <2>1, LoaderBounds DEF LoadStateAtBlock, Loads!RestartAtBlock, EmptyDb, Loads!EmptyDb,
       IInv, TypeOK
  <2> QED BY <1>3, <2>1 DEF StartLoad, LoadStateFromRpc, LoadStorageSlots, Loads!Next
<1>4. CASE LoadStep
  <2>1. CASE BlockNumberAnswer
    BY <2>1, LoaderBounds DEF BlockNumberAnswer, Loads!PinBlock, Loads!Next, IInv, TypeOK,
       AnswersOfThePin
  <2>2. CASE InsertAccounts
    BY <2>2, InsertIsBatch DEF Loads!Next
  <2>3. CASE SlotAnswer
    <3>1. target \in Addresses /\ Head(slots_left) \in Slots
      BY <2>3 DEF SlotAnswer, IInv, TypeOK, AnswersOfThePin
    <3>2. Loads!LoadSlot(target, Head(slots_left))
      BY <2>3, SameInserts DEF SlotAnswer, Loads!LoadSlot
    <3> QED BY <3>1, <3>2 DEF Loads!Next
  <2> QED BY <1>4, <2>1, <2>2, <2>3 DEF LoadStep, BlockNumberFails, RpcAnswer, Answer, RpcFails,
             AwaitAccount, AwaitFailure, SlotFails, SlotsDone
<1>5. CASE DropFuture
  BY <1>5 DEF DropFuture
<1> QED BY <1>1, <1>2, <1>3, <1>4, <1>5 DEF Next

\* Loading with concurrent requests implements loading in whole batches.
THEOREM LoadingIsAtomic == Spec => LoadsAreAtomic
<1>1. Init => Loads!SimInit
  BY SameOperations DEF Init
<1> QED BY <1>1, Invariance, StepsImplement, PTL DEF Spec, LoadsAreAtomic, Loads!Spec

-----------------------------------------------------------------------------
(* That a load returns *)

LEMMA LeastNumber ==
    ASSUME NEW T \in SUBSET Nat, T # {}
    PROVE  \E n \in T : \A m \in T : n <= m
<1> DEFINE R == OpToRel(<, Nat)
<1>1. IsWellFoundedOn(R, Nat)
  BY NatLessThanWellFounded
<1>2. \A m, n \in Nat : m < n => <<m, n>> \in R
  BY DEF OpToRel
<1> HIDE DEF R
<1>3. PICK n \in T : \A m \in T : <<m, n>> \notin R
  BY <1>1, WFMin
<1>4. \A m \in T : ~(m < n)
  BY <1>2, <1>3
<1> QED BY <1>3, <1>4

LEMMA GreatestPosition ==
    ASSUME NEW T \in SUBSET Positions, T # {}
    PROVE  \E n \in T : \A m \in T : m <= n
<1> DEFINE D == {MaxArgs - n : n \in T}
<1>1. D \in SUBSET Nat /\ D # {}
  <2>1. \A n \in T : MaxArgs - n \in Nat
    BY LoaderBounds DEF Positions
  <2>2. PICK n \in T : TRUE
    OBVIOUS
  <2>3. MaxArgs - n \in D
    OBVIOUS
  <2> QED BY <2>1, <2>3
<1>2. PICK d \in D : \A e \in D : d <= e
  BY <1>1, LeastNumber
<1>3. PICK n \in T : d = MaxArgs - n
  OBVIOUS
<1>4. ASSUME NEW m \in T
      PROVE  m <= n
  <2>1. d <= MaxArgs - m
    BY <1>2
  <2> QED BY <1>3, <2>1, LoaderBounds DEF Positions
<1> QED BY <1>4

\* Only handles of the load in progress have been joined.
JoinedAreTasks ==
    /\ joined \subseteq Tasks
    /\ phase # "accounts" => joined = {}

LEMMA TasksArePositions == TypeOK => Tasks \subseteq Positions
<1> SUFFICES ASSUME TypeOK PROVE Tasks \subseteq Positions
  OBVIOUS
<1>1. PICK n \in 0 .. MaxArgs : args \in [1 .. n -> Addresses]
  BY DEF TypeOK, Slices
<1> QED BY <1>1, LoaderBounds DEF Tasks, Positions

LEMMA JoinedKept == JoinedAreTasks /\ [Next]_vars => JoinedAreTasks'
<1> SUFFICES ASSUME JoinedAreTasks, [Next]_vars PROVE JoinedAreTasks'
  OBVIOUS
<1>1. ASSUME Return PROVE JoinedAreTasks'
  BY <1>1 DEF Return, JoinedAreTasks
<1>2. ASSUME UNCHANGED <<loaded_addresses, args, joined, phase>>
      PROVE  JoinedAreTasks'
  BY <1>2 DEF JoinedAreTasks, Tasks
<1>3. ASSUME phase # "accounts", joined' = joined
      PROVE  JoinedAreTasks'
  BY <1>3 DEF JoinedAreTasks
<1>4. ASSUME NEW i \in Positions, AwaitAccount(i)
      PROVE  JoinedAreTasks'
  <2>1. /\ i \in Tasks /\ phase = "accounts" /\ joined' = joined \cup {i}
        /\ UNCHANGED <<loaded_addresses, args, phase>>
    BY <1>4 DEF AwaitAccount, Awaited, simVars
  <2> QED BY <2>1 DEF JoinedAreTasks, Tasks
<1>5. CASE CallSimulator
  BY <1>3, <1>5 DEF CallSimulator, Idle, callVars
<1>6. CASE NewBlock
  BY <1>2, <1>6 DEF NewBlock, simVars, callVars
<1>7. CASE StartLoad
  BY <1>3, <1>7 DEF StartLoad, LoadStateFromRpc, LoadStateAtBlock, LoadStorageSlots, Idle
<1>8. CASE LoadStep
  <2>1. ASSUME NEW i \in Positions, NEW f \in Fields, RpcAnswer(i, f)
        PROVE  JoinedAreTasks'
    BY <1>2, <2>1 DEF RpcAnswer, Answer, simVars
  <2>2. ASSUME NEW i \in Positions, RpcFails(i)
        PROVE  JoinedAreTasks'
    BY <1>2, <2>2 DEF RpcFails, simVars
  <2>3. CASE BlockNumberAnswer \/ SlotAnswer
    BY <1>3, <2>3 DEF BlockNumberAnswer, SlotAnswer
  <2> QED BY <1>1, <1>4, <1>8, <2>1, <2>2, <2>3
          DEF LoadStep, BlockNumberFails, AwaitFailure, InsertAccounts, InsertFetched,
              SlotFails, SlotsDone
<1>9. CASE DropFuture
  BY <1>1, <1>9 DEF DropFuture
<1>10. CASE UNCHANGED vars
  BY <1>2, <1>10 DEF vars, simVars, callVars
<1> QED BY <1>5, <1>6, <1>7, <1>8, <1>9, <1>10 DEF Next

LEMMA JoinedInvariance == Spec => []JoinedAreTasks
<1>1. Init => JoinedAreTasks
  BY DEF Init, JoinedAreTasks
<1> QED BY <1>1, JoinedKept, PTL DEF Spec

\* The guard of some step of LoadStep holds: an answer can come or fail, the
\* next handle has ended, or all are joined and the batch can be inserted.
CanGoOn ==
    \/ phase \in {"blockno", "slots"}
    \/ /\ phase = "accounts"
       /\ \/ \E i \in Tasks \ failed, f \in Fields : fetched[i][f] = None
          \/ \E i \in Tasks : Awaited(i) /\ (i \in failed \/ Answered(i))
          \/ /\ joined = Tasks
             /\ \E last \in [{args[i] : i \in Tasks} -> Tasks] : LastTask(last)

\* Of the results of a batch there is always a last one for each address.
LEMMA SomeTaskIsLast ==
    ASSUME TypeOK
    PROVE  \E last \in [{args[i] : i \in Tasks} -> Tasks] : LastTask(last)
<1> DEFINE loaded  == {args[i] : i \in Tasks}
           For(a)  == {i \in Tasks : args[i] = a}
           last    == [a \in loaded |-> CHOOSE i \in For(a) : \A j \in For(a) : j <= i]
<1>1. ASSUME NEW a \in loaded
      PROVE  last[a] \in For(a) /\ \A j \in For(a) : j <= last[a]
  <2>1. For(a) \in SUBSET Positions /\ For(a) # {}
    BY TasksArePositions
  <2>2. \E i \in For(a) : \A j \in For(a) : j <= i
    BY <2>1, GreatestPosition
  <2> HIDE DEF For
  <2> QED BY <2>2
<1>2. last \in [loaded -> Tasks]
  BY <1>1
<1>3. ASSUME NEW i \in Tasks
      PROVE  args[last[args[i]]] = args[i] /\ i <= last[args[i]]
  <2>1. args[i] \in loaded /\ i \in For(args[i])
    OBVIOUS
  <2>2. last[args[i]] \in For(args[i]) /\ \A j \in For(args[i]) : j <= last[args[i]]
    BY <1>1, <2>1
  <2> HIDE DEF last
  <2> QED BY <2>1, <2>2
<1>4. LastTask(last)
  BY <1>3 DEF LastTask
<1> QED BY <1>2, <1>4

\* A load in progress is never stuck: no task waits on another, and a handle
\* that is awaited ends when its own three requests do.
\* (state.rs, fetch_accounts_parallel)
THEOREM LoadsCanGoOn == Spec => [](~Idle => CanGoOn)
<1>1. ASSUME IInv, JoinedAreTasks, ~Idle
      PROVE  CanGoOn
  <2>1. phase \in {"blockno", "accounts", "slots"}
    BY <1>1 DEF IInv, TypeOK, Phases, Idle
  <2>2. CASE phase = "accounts" /\ joined = Tasks
    BY <1>1, <2>2, SomeTaskIsLast DEF IInv, CanGoOn
  <2>3. CASE phase = "accounts" /\ joined # Tasks
    <3>1. Tasks \ joined \in SUBSET Nat /\ Tasks \ joined # {}
      BY <1>1, <2>3, TasksArePositions DEF IInv, JoinedAreTasks, Positions
    <3>2. PICK i \in Tasks \ joined : \A j \in Tasks \ joined : i <= j
      BY <3>1, LeastNumber
    <3>3. Awaited(i)
      BY <2>3, <3>2 DEF Awaited
    <3>4. CASE i \in failed \/ Answered(i)
      BY <2>3, <3>3, <3>4 DEF CanGoOn
    <3>5. CASE i \notin failed /\ ~Answered(i)
      BY <2>3, <3>2, <3>5 DEF CanGoOn, Answered
    <3> QED BY <3>4, <3>5
  <2> QED BY <2>1, <2>2, <2>3 DEF CanGoOn
<1> QED BY <1>1, Invariance, JoinedInvariance, PTL

\* What has come of the requests of a load.
Answers == {q \in Positions \X Fields : fetched[q[1]][q[2]] # None}

\* The load returns, or has its block, or knows of one more end of a request,
\* a task or a handle and forgets none, or has one slot less to fetch.
Advances ==
    \/ Idle'
    \/ phase = "blockno" /\ phase' = "accounts"
    \/ /\ phase = "accounts" /\ phase' = "accounts"
       /\ Answers \subseteq Answers' /\ failed \subseteq failed' /\ joined \subseteq joined'
       /\ Answers' # Answers \/ failed' # failed \/ joined' # joined
    \/ phase = "slots" /\ phase' = "slots" /\ Len(slots_left') < Len(slots_left)

\* Every step of a load advances it, and nothing else that happens meanwhile
\* sets it back; the answers, tasks, handles and slots are finitely many.
\* (state.rs, fetch_accounts_parallel and load_storage_slots)
THEOREM LoadsAdvance ==
    Spec => [][/\ LoadStep => Advances
               /\ ~Idle => Advances \/ UNCHANGED callVars]_vars
<1>1. ASSUME IInv, LoadStep
      PROVE  Advances
  <2>1. ASSUME NEW i \in Positions, NEW f \in Fields, RpcAnswer(i, f)
        PROVE  Advances
    <3>1. /\ phase = "accounts" /\ UNCHANGED <<phase, failed, joined>>
          /\ fetched[i][f] = None /\ fetched' = [fetched EXCEPT ![i][f] = loaded_block]
      BY <2>1 DEF RpcAnswer, Answer
    <3>2. fetched \in [Positions -> [Fields -> Nat \cup {None}]] /\ loaded_block # None
      BY <1>1, SentinelsDistinct DEF IInv, TypeOK, SimTypeOK
    <3>3. \A j \in Positions, g \in Fields :
             fetched'[j][g] = IF j = i /\ g = f THEN loaded_block ELSE fetched[j][g]
      BY <3>1, <3>2
    <3>4. Answers \subseteq Answers' /\ <<i, f>> \in Answers' /\ <<i, f>> \notin Answers
      BY <3>1, <3>2, <3>3 DEF Answers
    <3> QED BY <3>1, <3>4 DEF Advances
  <2>2. ASSUME NEW i \in Positions, RpcFails(i)
        PROVE  Advances
    BY <2>2 DEF RpcFails, Advances, Answers
  <2>3. ASSUME NEW i \in Positions, AwaitAccount(i)
        PROVE  Advances
    BY <2>3 DEF AwaitAccount, Awaited, Advances, Answers
  <2>4. CASE BlockNumberAnswer
    BY <2>4 DEF BlockNumberAnswer, Advances
  <2>5. CASE SlotAnswer
    <3>1. slots_left \in Seq(Slots) /\ slots_left # <<>> /\ slots_left' = Tail(slots_left)
      BY <1>1, <2>5 DEF SlotAnswer, IInv, TypeOK
    <3>2. Len(slots_left') < Len(slots_left)
      BY <3>1
    <3> QED BY <2>5, <3>2 DEF SlotAnswer, Advances
  <2> QED BY <1>1, <2>1, <2>2, <2>3, <2>4, <2>5
          DEF LoadStep, BlockNumberFails, AwaitFailure, InsertAccounts, InsertFetched,
              SlotFails, SlotsDone, Return, Advances, Idle
<1>2. ASSUME IInv, Next, ~Idle
      PROVE  Advances \/ UNCHANGED callVars
  BY <1>1, <1>2 DEF Next, CallSimulator, NewBlock, StartLoad, LoadStateFromRpc,
     LoadStateAtBlock, LoadStorageSlots, DropFuture, Return, Advances, Idle
<1> QED BY <1>1, <1>2, Invariance, PTL DEF Spec
=============================================================================

---------------------------- MODULE SessionProofs ----------------------------
(***************************************************************************)
(* What a step of a session may never do, proved for every instance: the   *)
(* action properties of Simulator and StateLoader.                         *)
(***************************************************************************)
EXTENDS StateLoaderProofs

-----------------------------------------------------------------------------
(* Snapshot ids *)

LEMMA SnapshotsStep ==
    ASSUME TypeOK, [Next]_vars
    PROVE  \/ UNCHANGED <<snapshots, next_snapshot_id>>
           \/ Snapshot
           \/ \E id \in SnapshotIds : ReleaseSnapshot(id)
           \/ CloneSimulator
<1> USE DEF vars, simVars
<1>1. CASE CallSimulator
  BY <1>1 DEF CallSimulator, SimNext, ClearCache, SetStorage, Prefund, Restore, ExecuteTx
<1>2. CASE NewBlock
  BY <1>2 DEF NewBlock
<1>3. CASE StartLoad
  BY <1>3 DEF StartLoad, LoadStateFromRpc, LoadStateAtBlock, LoadStorageSlots
<1>4. CASE LoadStep
  BY <1>4 DEF LoadStep, BlockNumberAnswer, BlockNumberFails, RpcAnswer, Answer, RpcFails, AwaitAccount,
     AwaitFailure, InsertAccounts, InsertFetched, SlotAnswer, SlotFails, SlotsDone
<1>5. CASE DropFuture
  BY <1>5 DEF DropFuture
<1> QED BY <1>1, <1>2, <1>3, <1>4, <1>5 DEF Next

\* A snapshot id never comes to denote another database.
THEOREM SnapshotIdsStable == Spec => SnapshotIdsNeverReused
<1> DEFINE Stable == \A id \in SnapshotIds :
                        (id < next_snapshot_id /\ snapshots'[id] # None)
                            => snapshots'[id] = snapshots[id]
<1>1. ASSUME TypeOK, [Next]_vars
      PROVE  Stable
  <2>1. CASE Snapshot
    <3>1. \A id \in SnapshotIds : id < next_snapshot_id => id # next_snapshot_id
      BY <1>1, MaxSnapshotsAssumption DEF TypeOK, SimTypeOK, SnapshotIds
    <3> QED BY <1>1, <2>1, <3>1 DEF Snapshot, TypeOK, SimTypeOK
  <2>2. ASSUME NEW id \in SnapshotIds, ReleaseSnapshot(id)
        PROVE  Stable
    BY <1>1, <2>2 DEF ReleaseSnapshot, TypeOK, SimTypeOK
  <2>3. CASE CloneSimulator
    BY <2>3 DEF CloneSimulator
  <2> QED BY <1>1, <2>1, <2>2, <2>3, SnapshotsStep
<1>2. TypeOK /\ [Next]_vars => [Stable]_simVars
  BY <1>1
<1> QED BY <1>2, TypeCorrect, PTL DEF Spec, SnapshotIdsNeverReused

-----------------------------------------------------------------------------
(* Words of the pinned block *)

InfoAt(info, b)       == \A f \in Fields : info[f] \in Nat => info[f] = b
StorageAt(storage, b) == \A s \in Slots : storage[s] \in Nat => storage[s] = b

LEMMA FetchedEntry ==
    ASSUME NEW d \in Dbs, NEW a \in Addresses, NEW b, FetchedAt(d, b)
    PROVE  InfoAt(InfoOf(d, a), b) /\ StorageAt(StorageOf(d, a), b)
BY SentinelsDistinct
   DEF FetchedAt, CachedIn, InfoAt, StorageAt, InfoOf, StorageOf, DefaultInfo, EmptyStorage

LEMMA PutFetched ==
    ASSUME NEW d \in Dbs, NEW a \in Addresses, NEW b, FetchedAt(d, b),
           NEW info, NEW storage, InfoAt(info, b), StorageAt(storage, b)
    PROVE  FetchedAt([d EXCEPT ![a] = [info |-> info, storage |-> storage]], b)
<1> DEFINE e == [d EXCEPT ![a] = [info |-> info, storage |-> storage]]
<1>1. ASSUME NEW c \in CachedIn(e)
      PROVE  InfoAt(e[c].info, b) /\ StorageAt(e[c].storage, b)
  <2>1. CASE c = a
    BY <2>1 DEF Dbs
  <2>2. CASE c # a
    <3>1. e[c] = d[c] /\ c \in CachedIn(d)
      BY <2>2 DEF CachedIn, Dbs
    <3> QED BY <3>1 DEF FetchedAt, InfoAt, StorageAt
  <2> QED BY <2>1, <2>2
<1> QED BY <1>1 DEF FetchedAt, InfoAt, StorageAt

LEMMA InsertInfoFetched ==
    ASSUME NEW d \in Dbs, NEW a \in Addresses, NEW b, FetchedAt(d, b), NEW info, InfoAt(info, b)
    PROVE  FetchedAt(InsertAccountInfo(d, a, info), b)
BY FetchedEntry, PutFetched DEF InsertAccountInfo

LEMMA InsertStorageFetched ==
    ASSUME NEW d \in Dbs, NEW a \in Addresses, NEW s \in Slots, NEW b, FetchedAt(d, b),
           NEW o, o \in Nat => o = b
    PROVE  FetchedAt(InsertAccountStorage(d, a, s, o), b)
<1>1. StorageAt([StorageOf(d, a) EXCEPT ![s] = o], b)
  BY FetchedEntry, InfoOfAccount DEF StorageAt, Storages
<1> QED BY <1>1, FetchedEntry, PutFetched DEF InsertAccountStorage

LEMMA CommitFetched ==
    ASSUME NEW d \in Dbs, NEW b, FetchedAt(d, b), NEW touched \in SUBSET Addresses,
           NEW created, NEW written \in SUBSET (touched \X Slots), NEW seen \in SUBSET Addresses
    PROVE  FetchedAt(Committed(d, touched, created, written, seen), b)
<1> DEFINE e == Committed(d, touched, created, written, seen)
<1>1. ASSUME NEW a \in CachedIn(e)
      PROVE  InfoAt(e[a].info, b) /\ StorageAt(e[a].storage, b)
  <2>0. a \in Addresses
    BY DEF CachedIn
  <2>1. CASE a \in touched
    <3>1. /\ e[a].info = [f \in Fields |-> Local]
          /\ e[a].storage = [s \in Slots |-> IF <<a, s>> \in written
                                             THEN Local ELSE IF a \in created THEN None ELSE StorageOf(d, a)[s]]
      BY <2>0, <2>1 DEF Committed
    <3> QED BY <2>0, <3>1, FetchedEntry, SentinelsDistinct DEF InfoAt, StorageAt
  <2>2. CASE a \notin touched /\ a \in seen
    <3>1. e[a].info = InfoOf(d, a) /\ e[a].storage = StorageOf(d, a)
      BY <2>0, <2>2 DEF Committed
    <3> QED BY <2>0, <3>1, FetchedEntry
  <2>3. CASE a \notin touched /\ a \notin seen
    <3>1. e[a] = d[a] /\ a \in CachedIn(d)
      BY <2>0, <2>3 DEF Committed, CachedIn
    <3> QED BY <3>1 DEF FetchedAt, InfoAt, StorageAt
  <2> QED BY <2>1, <2>2, <2>3
<1> QED BY <1>1 DEF FetchedAt, InfoAt, StorageAt

LEMMA ExecuteFetched ==
    ASSUME db \in Dbs, NEW b, FetchedAt(db, b), NEW caller \in Addresses,
           NEW hasNonce \in BOOLEAN, ExecuteTx(caller, hasNonce)
    PROVE  FetchedAt(db', b)
<1> DEFINE prepared == IF hasNonce THEN WithNonce(db, caller) ELSE db
           info     == [InfoOf(db, caller) EXCEPT !["nonce"] = Local]
<1>1. InfoAt(info, b)
  BY FetchedEntry, InfoOfAccount, SentinelsDistinct DEF InfoAt, Infos
<1>2. prepared \in Dbs /\ FetchedAt(prepared, b)
  BY <1>1, NonceOverride, InsertInfoFetched DEF WithNonce
<1> HIDE DEF prepared
<1>3. \/ db' = prepared
      \/ \E touched, seen, created \in SUBSET Addresses : \E written \in SUBSET (touched \X Slots) :
            db' = Committed(prepared, touched, created, written, seen)
  BY DEF ExecuteTx, prepared
<1> QED BY <1>2, <1>3, CommitFetched

LEMMA MethodsKeepPin ==
    ASSUME SimTypeOK, SimNext, FetchedAt(db, loaded_block)
    PROVE  \/ FetchedAt(db', loaded_block')
           \/ \E id \in SnapshotIds : Restore(id)
<1>1. loaded_block' = loaded_block
  BY DEF SimNext, ClearCache, SetStorage, Prefund, Snapshot, Restore, ReleaseSnapshot,
     CloneSimulator, ExecuteTx
<1>2. CASE ClearCache
  BY <1>2 DEF ClearCache, FetchedAt, CachedIn, EmptyDb
<1>3. ASSUME NEW a \in Addresses, NEW s \in Slots, SetStorage(a, s)
      PROVE  FetchedAt(db', loaded_block)
  BY <1>3, InsertStorageFetched, SentinelsDistinct DEF SetStorage, SimTypeOK
<1>4. ASSUME NEW a \in Addresses, Prefund(a)
      PROVE  FetchedAt(db', loaded_block)
  <2>1. InfoAt(PrefundedInfo, loaded_block)
    BY SentinelsDistinct DEF InfoAt, PrefundedInfo, DefaultInfo
  <2> QED BY <1>4, <2>1, InsertInfoFetched DEF Prefund, SimTypeOK
<1>5. CASE UNCHANGED db
  BY <1>5, <1>1
<1>6. ASSUME NEW a \in Addresses, NEW h \in BOOLEAN, ExecuteTx(a, h)
      PROVE  FetchedAt(db', loaded_block)
  BY <1>6, ExecuteFetched DEF SimTypeOK
<1> QED BY <1>1, <1>2, <1>3, <1>4, <1>5, <1>6
        DEF SimNext, Snapshot, ReleaseSnapshot, CloneSimulator

\* Words of the database stay of the pinned block but for a restore and the
\* first pin of a session whose block is 0.
THEOREM PinKept == Spec => PinnedBlockKept
<1> DEFINE Kept == FetchedAt(db, loaded_block)
                     => \/ FetchedAt(db', loaded_block')
                        \/ \E id \in SnapshotIds : Restore(id)
                        \/ BlockNumberAnswer
<1>1. ASSUME IInv, [Next]_vars, FetchedAt(db, loaded_block)
      PROVE  \/ FetchedAt(db', loaded_block')
             \/ \E id \in SnapshotIds : Restore(id)
             \/ BlockNumberAnswer
  <2>1. CASE CallSimulator
    BY <1>1, <2>1, MethodsKeepPin DEF CallSimulator, IInv, TypeOK
  <2>2. CASE UNCHANGED <<db, loaded_block>>
    BY <1>1, <2>2
  <2>3. ASSUME NEW addresses, NEW block, LoadStateAtBlock(addresses, block)
        PROVE  FetchedAt(db', loaded_block')
    BY <2>3 DEF LoadStateAtBlock, FetchedAt, CachedIn, EmptyDb
  <2>4. CASE InsertAccounts
    <3>1. PICK last \in [{args[i] : i \in Tasks} -> Tasks] :
             /\ \A i \in Tasks : fetched[i] = [f \in Fields |-> loaded_block]
             /\ db' = [a \in Addresses |->
                         IF a \in {args[i] : i \in Tasks}
                         THEN [info |-> fetched[last[a]], storage |-> StorageOf(db, a)]
                         ELSE db[a]]
      BY <1>1, <2>4, InsertAccountsStep
    <3>2. ASSUME NEW a \in CachedIn(db')
          PROVE  InfoAt(db'[a].info, loaded_block) /\ StorageAt(db'[a].storage, loaded_block)
      <4>0. a \in Addresses /\ db \in Dbs
        BY <1>1 DEF CachedIn, IInv, TypeOK, SimTypeOK
      <4>1. CASE a \in {args[i] : i \in Tasks}
        <5>1. /\ db'[a].info = [f \in Fields |-> loaded_block]
              /\ db'[a].storage = StorageOf(db, a)
          BY <3>1, <4>0, <4>1
        <5> QED BY <1>1, <4>0, <5>1, FetchedEntry DEF InfoAt
      <4>2. CASE a \notin {args[i] : i \in Tasks}
        <5>1. db'[a] = db[a] /\ a \in CachedIn(db)
          BY <3>1, <4>0, <4>2 DEF CachedIn
        <5> QED BY <1>1, <5>1 DEF FetchedAt, InfoAt, StorageAt
      <4> QED BY <4>1, <4>2
    <3> QED BY <2>4, <3>2 DEF InsertAccounts, InsertFetched, FetchedAt, InfoAt, StorageAt
  <2>5. CASE SlotAnswer
    <3>1. target \in Addresses /\ Head(slots_left) \in Slots /\ db \in Dbs
      BY <1>1, <2>5 DEF SlotAnswer, IInv, TypeOK, SimTypeOK, AnswersOfThePin
    <3> QED BY <1>1, <2>5, <3>1, InsertStorageFetched DEF SlotAnswer
  <2> QED BY <1>1, <2>1, <2>2, <2>3, <2>4, <2>5
          DEF Next, NewBlock, StartLoad, LoadStateFromRpc, LoadStorageSlots, LoadStep,
              BlockNumberFails, RpcAnswer, Answer, RpcFails, AwaitAccount, AwaitFailure, SlotFails,
              SlotsDone, DropFuture, vars, simVars
<1>2. IInv /\ [Next]_vars => [Kept]_vars
  BY <1>1
<1> QED BY <1>2, Invariance, PTL DEF Spec, PinnedBlockKept

-----------------------------------------------------------------------------
(* Marks and entries *)

LEMMA EntryInserted ==
    ASSUME NEW d \in Dbs, NEW a \in Addresses, NEW info, NEW storage
    PROVE  LET e == [d EXCEPT ![a] = [info |-> info, storage |-> storage]]
           IN  [info |-> info, storage |-> storage] # None => CachedIn(e) = CachedIn(d) \cup {a}
BY DEF CachedIn, Dbs

\* No entry is ever mistaken for its absence.
LEMMA InsertCaches ==
    ASSUME NEW d \in Dbs, NEW a \in Addresses
    PROVE  /\ \A info \in Infos :
                 CachedIn(InsertAccountInfo(d, a, info)) = CachedIn(d) \cup {a}
           /\ \A s \in Slots, o \in Origins :
                 CachedIn(InsertAccountStorage(d, a, s, o)) = CachedIn(d) \cup {a}
<1>1. \A info \in Infos, storage \in Storages : [info |-> info, storage |-> storage] # None
  BY SentinelsDistinct DEF Accounts
<1>2. \A s \in Slots, o \in Origins : [StorageOf(d, a) EXCEPT ![s] = o] \in Storages
  BY InfoOfAccount DEF Storages
<1> QED BY <1>1, <1>2, InfoOfAccount, EntryInserted DEF InsertAccountInfo, InsertAccountStorage

LEMMA CommitCaches ==
    ASSUME NEW d \in Dbs, NEW touched \in SUBSET Addresses,
           NEW created, NEW written \in SUBSET (touched \X Slots), NEW seen \in SUBSET Addresses
    PROVE  CachedIn(d) \subseteq CachedIn(Committed(d, touched, created, written, seen))
<1> DEFINE e == Committed(d, touched, created, written, seen)
<1>1. e \in Dbs
  BY Commit
<1>2. ASSUME NEW a \in CachedIn(d)
      PROVE  e[a] # None
  <2>0. a \in Addresses /\ d[a] # None
    BY DEF CachedIn
  <2>1. CASE a \in touched
    <3> DEFINE i == [f \in Fields |-> Local]
               s == [x \in Slots |-> IF <<a, x>> \in written
                                     THEN Local ELSE IF a \in created THEN None ELSE StorageOf(d, a)[x]]
    <3>1. e[a] = [info |-> i, storage |-> s]
      BY <2>0, <2>1 DEF Committed
    <3>2. i \in Infos /\ s \in Storages
      BY <2>0, InfoOfAccount DEF Infos, Storages, Origins
    <3> HIDE DEF i, s
    <3>3. e[a] \in Accounts
      BY <3>1, <3>2 DEF Accounts
    <3> QED BY <3>3, SentinelsDistinct
  <2>2. CASE a \notin touched /\ a \in seen
    <3>1. e[a] = [info |-> InfoOf(d, a), storage |-> StorageOf(d, a)]
      BY <2>0, <2>2 DEF Committed
    <3> QED BY <2>0, <3>1, InfoOfAccount, SentinelsDistinct DEF Accounts
  <2>3. CASE a \notin touched /\ a \notin seen
    BY <2>0, <2>3 DEF Committed
  <2> QED BY <2>1, <2>2, <2>3
<1> QED BY <1>2 DEF CachedIn

LEMMA MethodsKeepMarks ==
    ASSUME SimTypeOK, SimNext, loaded_addresses \subseteq CachedIn(db)
    PROVE  \/ loaded_addresses' \subseteq CachedIn(db')
           \/ \E id \in SnapshotIds : Restore(id)
<1> USE DEF SimTypeOK
<1>1. CASE ClearCache
  BY <1>1 DEF ClearCache
<1>2. ASSUME NEW a \in Addresses, NEW s \in Slots, SetStorage(a, s)
      PROVE  loaded_addresses' \subseteq CachedIn(db')
  <2>1. Local \in Origins
    BY DEF Origins
  <2> QED BY <1>2, <2>1, InsertCaches DEF SetStorage
<1>3. ASSUME NEW a \in Addresses, Prefund(a)
      PROVE  loaded_addresses' \subseteq CachedIn(db')
  <2>1. PrefundedInfo \in Infos
    BY DEF PrefundedInfo, DefaultInfo, Infos, Origins
  <2> QED BY <1>3, <2>1, InsertCaches DEF Prefund
<1>4. CASE UNCHANGED <<db, loaded_addresses>>
  BY <1>4
<1>5. ASSUME NEW caller \in Addresses, NEW hasNonce \in BOOLEAN, ExecuteTx(caller, hasNonce)
      PROVE  loaded_addresses' \subseteq CachedIn(db')
  <2> DEFINE prepared == IF hasNonce THEN WithNonce(db, caller) ELSE db
             info     == [InfoOf(db, caller) EXCEPT !["nonce"] = Local]
  <2>1. info \in Infos
    BY InfoOfAccount DEF Infos, Origins
  <2>2. prepared \in Dbs /\ CachedIn(db) \subseteq CachedIn(prepared)
    <3>1. CachedIn(WithNonce(db, caller)) = CachedIn(db) \cup {caller}
      BY <2>1, InsertCaches DEF WithNonce
    <3> QED BY <3>1, NonceOverride
  <2> HIDE DEF prepared
  <2>3. \/ db' = prepared
        \/ \E touched, seen, created \in SUBSET Addresses : \E written \in SUBSET (touched \X Slots) :
              db' = Committed(prepared, touched, created, written, seen)
    BY <1>5 DEF ExecuteTx, prepared
  <2>4. CachedIn(prepared) \subseteq CachedIn(db')
    BY <2>2, <2>3, CommitCaches
  <2> QED BY <1>5, <2>2, <2>4 DEF ExecuteTx
<1> QED BY <1>1, <1>2, <1>3, <1>4, <1>5
        DEF SimNext, Snapshot, ReleaseSnapshot, CloneSimulator

\* A marked address keeps its entry but for a restore.
THEOREM MarksKept == Spec => MarkedAddressesCached
<1> DEFINE Kept == loaded_addresses \subseteq CachedIn(db)
                     => \/ loaded_addresses' \subseteq CachedIn(db')
                        \/ \E id \in SnapshotIds : Restore(id)
<1>1. ASSUME IInv, [Next]_vars, loaded_addresses \subseteq CachedIn(db)
      PROVE  \/ loaded_addresses' \subseteq CachedIn(db')
             \/ \E id \in SnapshotIds : Restore(id)
  <2>1. CASE CallSimulator
    BY <1>1, <2>1, MethodsKeepMarks DEF CallSimulator, IInv, TypeOK
  <2>2. CASE UNCHANGED <<db, loaded_addresses>>
    BY <1>1, <2>2
  <2>3. ASSUME NEW addresses, NEW block, LoadStateAtBlock(addresses, block)
        PROVE  loaded_addresses' \subseteq CachedIn(db')
    BY <2>3 DEF LoadStateAtBlock
  <2>4. CASE InsertAccounts
    <3>1. /\ loaded_addresses' = loaded_addresses \cup {args[i] : i \in Tasks}
          /\ loaded_addresses' \in SUBSET Addresses
          /\ db' \in Dbs
      BY <1>1, <2>4, InsertAccountsStep DEF InsertAccounts, InsertFetched, SimTypeOK
    <3>2. PICK last \in [{args[i] : i \in Tasks} -> Tasks] :
             /\ \A i \in Tasks : fetched[i] = [f \in Fields |-> loaded_block]
             /\ db' = [a \in Addresses |->
                         IF a \in {args[i] : i \in Tasks}
                         THEN [info |-> fetched[last[a]], storage |-> StorageOf(db, a)]
                         ELSE db[a]]
      BY <1>1, <2>4, InsertAccountsStep
    <3>3. ASSUME NEW a \in {args[i] : i \in Tasks}
          PROVE  a \in CachedIn(db')
      <4>1. a \in Addresses /\ last[a] \in Tasks
        BY <3>1, <3>2
      <4>2. db'[a] = [info |-> fetched[last[a]], storage |-> StorageOf(db, a)]
        BY <3>2, <4>1
      <4>3. fetched[last[a]] \in Infos /\ StorageOf(db, a) \in Storages
        BY <1>1, <3>2, <4>1, InfoOfAccount DEF Infos, Origins, IInv, TypeOK, SimTypeOK
      <4> QED BY <4>1, <4>2, <4>3, SentinelsDistinct DEF Accounts, CachedIn
    <3>4. \A a \in CachedIn(db) : a \in CachedIn(db')
      BY <3>2, <3>3 DEF CachedIn
    <3> QED BY <1>1, <3>1, <3>3, <3>4
  <2>5. CASE SlotAnswer
    <3>1. /\ target \in Addresses /\ Head(slots_left) \in Slots
          /\ db \in Dbs /\ loaded_block \in Origins
      BY <1>1, <2>5 DEF SlotAnswer, IInv, TypeOK, SimTypeOK, AnswersOfThePin, Origins
    <3> QED BY <1>1, <2>5, <3>1, InsertCaches DEF SlotAnswer
  <2> QED BY <1>1, <2>1, <2>2, <2>3, <2>4, <2>5
          DEF Next, NewBlock, StartLoad, LoadStateFromRpc, LoadStorageSlots, LoadStep,
              BlockNumberAnswer, BlockNumberFails, RpcAnswer, Answer, RpcFails, AwaitAccount,
              AwaitFailure, SlotFails, SlotsDone, DropFuture, vars, simVars
<1>2. IInv /\ [Next]_vars => [Kept]_vars
  BY <1>1
<1> QED BY <1>2, Invariance, PTL DEF Spec, MarkedAddressesCached

-----------------------------------------------------------------------------
(* Slots *)

Has(d, a, s) == StorageOf(d, a)[s] # None

\* The storage of an entry is that of the entry.
LEMMA StorageOfEntry ==
    ASSUME NEW d, NEW a, NEW info \in Infos, NEW storage \in Storages,
           d[a] = [info |-> info, storage |-> storage]
    PROVE  StorageOf(d, a) = storage
<1>1. d[a] # None
  BY SentinelsDistinct DEF Accounts
<1> QED BY <1>1 DEF StorageOf

LEMMA InsertKeepsSlots ==
    ASSUME NEW d \in Dbs, NEW b \in Addresses, NEW a \in Addresses, NEW s \in Slots, Has(d, a, s)
    PROVE  /\ \A info \in Infos : Has(InsertAccountInfo(d, b, info), a, s)
           /\ \A t \in Slots, o \in Origins : Has(InsertAccountStorage(d, b, t, o), a, s)
<1>1. ASSUME NEW info \in Infos PROVE Has(InsertAccountInfo(d, b, info), a, s)
  <2> DEFINE e == InsertAccountInfo(d, b, info)
  <2>1. CASE a = b
    <3>1. e[a] = [info |-> info, storage |-> StorageOf(d, a)]
      BY <2>1 DEF InsertAccountInfo, Dbs
    <3>2. StorageOf(e, a) = StorageOf(d, a)
      BY <3>1, InfoOfAccount, StorageOfEntry
    <3> QED BY <3>2 DEF Has
  <2>2. CASE a # b
    BY <2>2 DEF InsertAccountInfo, Dbs, Has, StorageOf
  <2> QED BY <2>1, <2>2
<1>2. ASSUME NEW t \in Slots, NEW o \in Origins PROVE Has(InsertAccountStorage(d, b, t, o), a, s)
  <2> DEFINE e == InsertAccountStorage(d, b, t, o)
             storage == [StorageOf(d, b) EXCEPT ![t] = o]
  <2>1. CASE a = b
    <3>1. e[a] = [info |-> InfoOf(d, a), storage |-> storage]
      BY <2>1 DEF InsertAccountStorage, Dbs
    <3>2. storage \in Storages /\ o # None /\ StorageOf(d, b) \in Storages
      BY InfoOfAccount, SentinelsDistinct DEF Storages, Origins
    <3>3. StorageOf(e, a) = storage
      BY <3>1, <3>2, InfoOfAccount, StorageOfEntry
    <3> QED BY <2>1, <3>2, <3>3 DEF Has, Storages
  <2>2. CASE a # b
    BY <2>2 DEF InsertAccountStorage, Dbs, Has, StorageOf
  <2> QED BY <2>1, <2>2
<1> QED BY <1>1, <1>2

LEMMA CommitKeepsSlots ==
    ASSUME NEW d \in Dbs, NEW a \in Addresses, NEW s \in Slots, Has(d, a, s),
           NEW touched \in SUBSET Addresses, NEW created, a \notin created,
           NEW written \in SUBSET (touched \X Slots), NEW seen \in SUBSET Addresses
    PROVE  Has(Committed(d, touched, created, written, seen), a, s)
<1> DEFINE e == Committed(d, touched, created, written, seen)
<1>1. CASE a \in touched
  <2> DEFINE i       == [f \in Fields |-> Local]
             storage == [x \in Slots |-> IF <<a, x>> \in written THEN Local
                                         ELSE IF a \in created THEN None ELSE StorageOf(d, a)[x]]
  <2>1. e[a] = [info |-> i, storage |-> storage]
    BY <1>1 DEF Committed
  <2>2. i \in Infos /\ storage \in Storages
    BY InfoOfAccount DEF Infos, Storages, Origins
  <2>3. storage[s] # None
    BY SentinelsDistinct DEF Has
  <2> HIDE DEF i, storage
  <2>4. StorageOf(e, a) = storage
    BY <2>1, <2>2, StorageOfEntry
  <2> QED BY <2>3, <2>4 DEF Has
<1>2. CASE a \notin touched /\ a \in seen
  <2>1. e[a] = [info |-> InfoOf(d, a), storage |-> StorageOf(d, a)]
    BY <1>2 DEF Committed
  <2>2. StorageOf(e, a) = StorageOf(d, a)
    BY <2>1, InfoOfAccount, StorageOfEntry
  <2> QED BY <2>2 DEF Has
<1>3. CASE a \notin touched /\ a \notin seen
  <2>1. e[a] = d[a]
    BY <1>3 DEF Committed
  <2> QED BY <2>1 DEF Has, StorageOf
<1> QED BY <1>1, <1>2, <1>3

LEMMA MethodsKeepSlots ==
    ASSUME SimTypeOK, SimNext, NEW a \in Addresses, NEW s \in Slots, Has(db, a, s)
    PROVE  \/ Has(db', a, s)
           \/ ClearCache
           \/ \E id \in SnapshotIds : Restore(id)
           \/ \E caller \in Addresses \ {a}, hasNonce \in BOOLEAN : ExecuteTx(caller, hasNonce)
<1> USE DEF SimTypeOK
<1>1. ASSUME NEW b \in Addresses, NEW t \in Slots, SetStorage(b, t)
      PROVE  Has(db', a, s)
  BY <1>1, InsertKeepsSlots DEF SetStorage, Origins
<1>2. ASSUME NEW b \in Addresses, Prefund(b)
      PROVE  Has(db', a, s)
  <2>1. PrefundedInfo \in Infos
    BY DEF PrefundedInfo, DefaultInfo, Infos, Origins
  <2> QED BY <1>2, <2>1, InsertKeepsSlots DEF Prefund
<1>3. CASE UNCHANGED db
  BY <1>3
<1>4. ASSUME NEW hasNonce \in BOOLEAN, ExecuteTx(a, hasNonce)
      PROVE  Has(db', a, s)
  <2> DEFINE prepared == IF hasNonce THEN WithNonce(db, a) ELSE db
             info     == [InfoOf(db, a) EXCEPT !["nonce"] = Local]
  <2>1. info \in Infos
    BY InfoOfAccount DEF Infos, Origins
  <2>2. prepared \in Dbs /\ Has(prepared, a, s)
    BY <2>1, InsertKeepsSlots, NonceOverride DEF WithNonce
  <2> HIDE DEF prepared
  <2>3. \/ db' = prepared
        \/ \E touched, seen \in SUBSET Addresses :
             \E created \in SUBSET (touched \ {a}), written \in SUBSET (touched \X Slots) :
                db' = Committed(prepared, touched, created, written, seen)
    BY <1>4 DEF ExecuteTx, prepared
  <2>4. ASSUME NEW touched \in SUBSET Addresses, NEW seen \in SUBSET Addresses,
               NEW created \in SUBSET (touched \ {a}), NEW written \in SUBSET (touched \X Slots),
               db' = Committed(prepared, touched, created, written, seen)
        PROVE  Has(db', a, s)
    <3>1. a \notin created
      OBVIOUS
    <3> QED BY <2>2, <2>4, <3>1, CommitKeepsSlots
  <2> QED BY <2>2, <2>3, <2>4
<1> QED BY <1>1, <1>2, <1>3, <1>4 DEF SimNext, Snapshot, ReleaseSnapshot, CloneSimulator

\* A slot stays in the database unless the session goes back or another
\* caller's transaction, which may create the contract, takes it out.
THEOREM SlotsStay == Spec => SlotsKept
<1> DEFINE Stays(a, s) ==
              \/ Has(db', a, s)
              \/ ClearCache
              \/ \E addresses \in Slices(Addresses), block \in 0 .. head :
                    LoadStateAtBlock(addresses, block)
              \/ \E id \in SnapshotIds : Restore(id)
              \/ \E caller \in Addresses \ {a}, hasNonce \in BOOLEAN : ExecuteTx(caller, hasNonce)
<1>1. ASSUME IInv, [Next]_vars, NEW a \in Addresses, NEW s \in Slots, Has(db, a, s)
      PROVE  Stays(a, s)
  <2>1. CASE CallSimulator
    BY <1>1, <2>1, MethodsKeepSlots DEF CallSimulator, IInv, TypeOK
  <2>2. CASE UNCHANGED db
    BY <1>1, <2>2
  <2>3. CASE \E addresses \in Slices(Addresses), block \in 0 .. head :
                LoadStateAtBlock(addresses, block)
    BY <2>3
  <2>4. CASE InsertAccounts
    <3>1. PICK last \in [{args[i] : i \in Tasks} -> Tasks] :
             /\ \A i \in Tasks : fetched[i] = [f \in Fields |-> loaded_block]
             /\ db' = [c \in Addresses |->
                         IF c \in {args[i] : i \in Tasks}
                         THEN [info |-> fetched[last[c]], storage |-> StorageOf(db, c)]
                         ELSE db[c]]
      BY <1>1, <2>4, InsertAccountsStep
    <3>2. CASE a \in {args[i] : i \in Tasks}
      <4>1. db'[a] = [info |-> fetched[last[a]], storage |-> StorageOf(db, a)]
        BY <3>1, <3>2
      <4>2. fetched[last[a]] \in Infos /\ StorageOf(db, a) \in Storages
        BY <1>1, <3>1, <3>2, InfoOfAccount DEF Infos, Origins, IInv, TypeOK, SimTypeOK
      <4> QED BY <1>1, <4>1, <4>2, StorageOfEntry DEF Has
    <3>3. CASE a \notin {args[i] : i \in Tasks}
      <4>1. db'[a] = db[a]
        BY <3>1, <3>3
      <4> QED BY <1>1, <4>1 DEF Has, StorageOf
    <3> QED BY <3>2, <3>3
  <2>5. CASE SlotAnswer
    <3>1. /\ target \in Addresses /\ Head(slots_left) \in Slots
          /\ db \in Dbs /\ loaded_block \in Origins
      BY <1>1, <2>5 DEF SlotAnswer, IInv, TypeOK, SimTypeOK, AnswersOfThePin, Origins
    <3> QED BY <1>1, <2>5, <3>1, InsertKeepsSlots DEF SlotAnswer
  <2> QED BY <1>1, <2>1, <2>2, <2>3, <2>4, <2>5
          DEF Next, NewBlock, StartLoad, LoadStateFromRpc, LoadStorageSlots, LoadStep,
              BlockNumberAnswer, BlockNumberFails, RpcAnswer, Answer, RpcFails, AwaitAccount,
              AwaitFailure, SlotFails, SlotsDone, DropFuture, vars, simVars
<1>2. IInv /\ [Next]_vars
        => [\A a \in Addresses, s \in Slots : Has(db, a, s) => Stays(a, s)]_vars
  BY <1>1
<1> QED BY <1>2, Invariance, PTL DEF Spec, SlotsKept, Has
=============================================================================

------------------------------- MODULE CacheDb -------------------------------
(***************************************************************************)
(* revm's CacheDB<EmptyDB>, as the simulator uses it: a map from addresses *)
(* to accounts, each an AccountInfo and a map from storage slots to words. *)
(* CacheDB is a dependency; only the operations the crates call are here.  *)
(*                                                                         *)
(* A word is abstracted to its ORIGIN, who wrote it last: the number of    *)
(* the block it was fetched at, Local (a setter or a committed             *)
(* transaction), or Default (the zero of a fresh AccountInfo).  A HashMap  *)
(* is a function that yields None where the map has no entry.              *)
(***************************************************************************)
EXTENDS Naturals

CONSTANTS
    Addresses,   \* the account addresses a session talks about
    Slots,       \* the storage slots a session talks about
    None,        \* Rust's Option::None
    Local,       \* origin: written by the session itself
    Default      \* origin: the default value, written by nobody

Fields   == {"balance", "nonce", "code"}
Origins  == Nat \cup {Local, Default}
Infos    == [Fields -> Origins]
Storages == [Slots -> Origins \cup {None}]
Accounts == [info : Infos, storage : Storages]
Dbs      == [Addresses -> Accounts \cup {None}]

ASSUME SentinelsDistinct ==
    /\ None \notin Nat /\ Local \notin Nat /\ Default \notin Nat
    /\ None # Local /\ None # Default /\ Local # Default
    /\ None \notin Accounts      \* an entry is never mistaken for its absence
    /\ None \notin Dbs           \* nor a snapshot for a released one

-----------------------------------------------------------------------------
EmptyDb      == [a \in Addresses |-> None]
DefaultInfo  == [f \in Fields |-> Default]
EmptyStorage == [s \in Slots |-> None]

CachedIn(d)     == {a \in Addresses : d[a] # None}
InfoOf(d, a)    == IF d[a] = None THEN DefaultInfo ELSE d[a].info
StorageOf(d, a) == IF d[a] = None THEN EmptyStorage ELSE d[a].storage

\* CacheDB::insert_account_info: the info is replaced, the storage is kept.
InsertAccountInfo(d, a, info) ==
    [d EXCEPT ![a] = [info |-> info, storage |-> StorageOf(d, a)]]

\* CacheDB::insert_account_storage: an account nobody inserted is created
\* with the default info.
InsertAccountStorage(d, a, s, origin) ==
    [d EXCEPT ![a] = [info    |-> InfoOf(d, a),
                      storage |-> [StorageOf(d, a) EXCEPT ![s] = origin]]]

\* What Evm::transact_commit leaves in the database it was given: accounts it
\* touched have a new info, contracts it created start without the slots that
\* were there, some slots are written, and accounts it only looked at are
\* cached as EmptyDB answers them.  (A slot it only read is cached as the zero
\* an absent slot already stands for.)
Committed(d, touched, created, written, seen) ==
    [a \in Addresses |->
        IF a \in touched
        THEN [info    |-> [f \in Fields |-> Local],
              storage |-> [s \in Slots |->
                  IF <<a, s>> \in written THEN Local
                  ELSE IF a \in created THEN None ELSE StorageOf(d, a)[s]]]
        ELSE IF a \in seen
             THEN [info |-> InfoOf(d, a), storage |-> StorageOf(d, a)]
             ELSE d[a]]

-----------------------------------------------------------------------------
\* Every word of d that was fetched from the chain was fetched at block b.
FetchedAt(d, b) ==
    \A a \in CachedIn(d) :
        /\ \A f \in Fields : d[a].info[f] \in Nat => d[a].info[f] = b
        /\ \A s \in Slots : d[a].storage[s] \in Nat => d[a].storage[s] = b
=============================================================================

# Specifications of revm-security-kit

TLA+ modules that model the core of this repository, TLC configurations that
check them on small instances, and proofs that hold for every instance.  Paths
below are relative to `src/crates/`.

## The system

The kit simulates transactions on EVM state fetched from a node, checks rules on
the resulting state, and shrinks sequences that break them.

| Component | Source | State | Operations |
|---|---|---|---|
| Simulator session | `revm-sim/src/simulator.rs` | `db`, `loaded_block`, `loaded_addresses`, `snapshots`, `next_snapshot_id` | `clear_cache`, `set_storage`, `prefund`, `snapshot`, `restore`, `release_snapshot`, `clone`, `execute_tx`; read-only on a clone: `simulate_tx`, `estimate_gas`, `simulate_sequence`, getters |
| State loader | `revm-sim/src/state.rs` | the session's, and the spawned tasks of the load in progress | `load_state_from_rpc`, `load_state_at_block`, `load_storage_slots` |
| Transaction sequences | `simulator.rs`, `simulate_sequence` | a clone of `db`, the results | one transaction after the other |
| Audited sequences | `revm-sim/src/audit.rs`, `invariant-fuzzer/src/lib.rs` | a clone of `db`, inspector (trace, `step_index`), `trace_offsets`, snapshots, first violation, count | `simulate_sequence_inspected`, `.._with_invariants`, `.._with_per_tx_invariants` |
| Deletion shrinking | `invariant-fuzzer/src/shrink.rs`, `shrink_sequence` | `minimized`, `index` | one pass of deletions |
| Amount bisection | `shrink.rs`, `shrink_u256_bisect` | `lo`, `hi`, `best` | binary search |
| Transaction shrinking | `shrink.rs`, `shrink_simtx_sequence` | the sequence, `value_changes` | deletions, then a search per transaction |
| Invariant rules | `invariant-rules/src/rules.rs`, `context.rs` | none (pure) | `check` of eight rules, `CompositeInvariant::evaluate` |
| Database bindings | `invariant-rules/src/bindings.rs` | the `InvariantContext` being filled | `extract_context`, `read_db_field`, `getReserves` on a clone, `evaluate` |
| Block environment, configuration | `simulator.rs`, `types.rs` | `block_env`, `config` | `set_block_env`, `set_basefee` |
| JSON-RPC, revert decoding | `state.rs`, `revert.rs` | none | parsing |
| EVM and CacheDB | the `revm` crate (external) | the database | `transact_commit`, `insert_account_info`, `insert_account_storage` |

**Interaction.**  A load borrows the simulator mutably for as long as its future
lives, so no other method of the session runs meanwhile.  What runs meanwhile is
the chain behind the node, and the load's own tasks: one per address, each with
three concurrent requests.  `audit.rs` runs sequences on clones, hands an
inspector to the EVM and gets it back, and asks the bindings and the rules about
the database.  The shrinkers call a predicate, in practice such a run.

**What is hard here.**  Requests answered in any order, one of many failing, a
load dropped at an await; bookkeeping (`loaded_addresses`, `loaded_block`) that
is kept apart from the database it describes while snapshots replace the
latter; early returns through `?` and `continue` in the audit loops and in the
extraction of a context, where a slot that was never loaded reads as zero and a
binding of an entry replaces an earlier one; indices of
three different sequences in the shrinkers; arithmetic that saturates at the ends
of a 256-bit word.  `PROJECT.json` lists each hazard at its line.

**What makes each part correct.**
- session and loader: an account is of one block, loads are all or nothing, an
  address marked as loaded has an entry, the pinned block is the block of the
  fetched words, a snapshot id names one database, a load returns;
- sequences and audits: auditing does not change the execution; offsets, results
  and per-transaction snapshots stay in step; an error is never a verdict;
- shrinkers: what is held violates, the result is minimal in the sense each
  algorithm can promise, the summary is accurate, they end;
- rules and bindings: each rule decides the inequality of its documentation, and
  judges loaded data only.

## Modules

```
CacheDb -- Simulator -- StateLoader
              |              |
              |              +-- StateLoaderProofs -- SessionProofs   (TLAPS)
              +-- AtomicLoads  (abstract; instantiated by StateLoader)
SequenceRun (abstract) <- SequenceAudit
                             |
                             +-- SequenceAuditProofs           (TLAPS)
ShrinkItems -- ShrinkSequence,     ShrinkBisect     <-  ShrinkSimTx
                     |                  |                   |
            ShrinkSequenceProofs ShrinkBisectProofs ShrinkSimTxProofs  (TLAPS)
            (MCShrinkers: a call of either of the first two)
InvariantRules -- InvariantRulesProofs                         (TLAPS)
DbBindings -- DbBindingsProofs                                 (TLAPS)
      +------ MCDbBindings  (an instance of it)
```

**CacheDb** is revm's `CacheDB` as the crates use it.  A word is abstracted to
who wrote it last: the block it was fetched at, `Local` for the session itself,
`Default` for the zero of a fresh `AccountInfo`.  `Committed` is what
`transact_commit` can leave: the transactions are not chosen, so any accounts may
be touched and any of their slots written; an account that a transaction creates
starts without the slots it had, any other keeps them.  The module is external in
`PROJECT.json`'s map, being a library the code calls.

**Simulator** has one action per method that takes `&mut self`.  `ExecuteTx` has
the order of the code: the nonce override goes into the simulator's own database
before the clone is made, so it is there also when the EVM refuses.  Methods that
take `&self` change none of these variables.

**StateLoader** adds the loads.  `phase` is the await a load is at.
`LoadStateFromRpc` and `LoadStateAtBlock` start one (the latter clears and pins
first), `BlockNumberAnswer` pins, `RpcAnswer(i, f)` and `RpcFails(i)` are the
node's side of task `i`, `AwaitAccount`, `AwaitFailure` and `InsertAccounts` are
the loop over the handles and the insertion after it.  `load_storage_slots`
inserts as it goes.  `DropFuture` is the caller dropping a load at one of its
awaits.  A JSON-RPC error, a transport error, a timeout and an answer that does
not parse are the same `RpcFails`; so is a task that panics.

**AtomicLoads** is what a user of the loader sees: whole batches at the pinned
block, never of an address already marked.  `StateLoader` implements it with the
identity on the session's variables; the requests are the part that is hidden.

**SequenceRun** is `simulate_sequence`; a database is a model value, its
contents.  **SequenceAudit** is the three audited runs with `mode` for which;
its `Run!Spec` refinement says they execute the same thing.  Each mode has its own end:
`FinishInspected`, `FinishFinal` and `FinishPerTx` return the reports,
`TxEvaluationFails` and `FinalEvaluationFails` are the `?` of an evaluation, after
one transaction and at the end.  What the rules say of a database is an unknown
function `verdict` of its contents, with a third value for an evaluation that fails.

**ShrinkSequence**, **ShrinkBisect** quantify over every predicate, as the set of
what it accepts.  A sequence is the set of original positions kept (**ShrinkItems**).
**MCShrinkers** composes the two for model checking: one call of either, the other at
rest.
**ShrinkSimTx** runs both on sequences of values, by `INSTANCE`; its predicate is
an oracle whose answers are chosen when they are first asked for, which is every
deterministic predicate without enumerating them.

**InvariantRules** is one rule being checked on the part of a context it reads.
`WrappingMul` is `*` of `U256`, `SaturatingAdd` and `SaturatingMul` the functions
of those names.  The two rules over loan positions take them in any order, the
order of a `HashMap`; both ratio rules share `Within`.

**DbBindings** is an audit's whole evaluation of a database:
`DbInvariantBindings::evaluate`, which extracts a context, and
`CompositeInvariant::evaluate`, which judges it.  `ExtractPrice` and
`ExtractBinding` are the iterations of the loops of `extract_context`,
`ExtractionFails` is its `?`; `RuleHolds`, `RuleViolated` and `RuleErrs` are an
iteration of the loop over the rules.  A database maps a contract to the slots that
are in it, so a slot that was never loaded differs from one that holds zero, until
`ReadRawSlot` reads it.  The `HashMap`s of the context are two functions, one for
prices and one for all the rest, from an entry (a map and its key) to the words
extracted for it.  A contract's `getReserves` is external: `reply` is an error or any of
the lists of words in `Replies`, chosen once, because every call is made on a clone of
the same database, and independent of what the contract's slots hold.  Two types of rules stand for all, as the order of evaluation does not
depend on the type.  **MCDbBindings** names one instance: its bindings, rules and
pool.

## Runs

| Run | Instance | Shows |
|---|---|---|
| `loads` | 2 addresses, 1 slot, slices up to 2, 2 blocks, fairness | `NoTornAccount`, `AnswersOfThePin`, `LoadsAreAtomic`: accounts arrive whole and of the pin; `SlotsKept`: no slot is lost but to going back or to a transaction of another caller, whose commit is left open; `LoadsReturn` |
| `session` | 1 address, 1 slot, 2 snapshots, 3 blocks | `PinnedBlockKept`, `MarkedAddressesCached`, `SnapshotIdsNeverReused` |
| `shrinkers` | 4 items; words of 3 bits; every predicate; fairness of the search | `HoldsFailingSequence`, `MinimalWhenMonotone` of the deletion pass; `BestViolates`, `NoDecrement`, `SmallestWhenMonotonic`, `Returns` of the search |
| `shrink_simtx` | 3 transactions, words of 2 bits, every option, fairness | `CurrentViolates`, `ResultMinimal`, `SummaryAccurate`, `OnlyShrinks`, `ShrinkingEnds` |
| `audit` | 3 transactions, 3 contents, 3 steps, every verdict | `SlicesAttributeSteps`, `SnapshotsInStep`, `PerTxFindsFinal`, `ErrorsAreNotVerdicts`, `SameExecution` |
| `rules` | words below 8, scale 3 for 10 000, two parties, lists of up to two holders | `ConstantProductExact`, `CdpExact`, `LiquidationExact`, `FeeExact`, `SumsExact`, `ErrsIfMissing` |
| `bindings` | words of 2 bits, a pool with a direct and a hashed slot, 5 replies, 9 bindings, lists up to 3 (prices 2), 2 rules | `ContextOfLastBindings`, `PackedFieldsRecombine`, `ErrsOnlyIfUnbound`, `FirstFailureDecides` |

`TypeOK` is an invariant of `loads`, `shrinkers` (of the search), `rules` and `bindings`;
for the deletion pass, the transactions and the audits it is only proved.

Deadlock is not checked: a session may stop calling, and a search, a run or an
evaluation that is done has no next step.

**Bounds.**  `MaxArgs = 2` lets a slice hold an address twice and two tasks race;
`MaxBlock = 1` or `2` lets the chain move during a load and lets block 0, which
the code reads as "none", be one of the blocks.  Two snapshots let an id be
released and another one taken, and a restore cross a pin.  `loads` has no
snapshots and `session` one address, which keeps each below two minutes; what
`NoTornAccount` says of snapshots is therefore empty in `loads`, and only the theorem
`AccountsUntorn` covers it.  `loads` checks liveness, so it uses no symmetry.
Four items let every kind of neighbour of a deletion occur; words of three bits have both ends, and searches of every parity.
Three contents give a per-transaction audit a violation, a recovery and an error
in one run; `MaxSteps` and `NumTxs` bound only the length.  A scale of 3 in
words below 8 makes the products of the rules overflow and fit, at and next to the
limit; `MaxHolders = 2` lets a holder be listed twice and a sum overflow.  In `bindings` a word of two bits is split in its middle and at its end; the nine bindings
have every kind of field, both layouts of a mapping, a word beyond what the call
answers, a mapping that misses its slot, and four of one entry, so that a list of
three replaces twice; every database, every list, and replies of an error and of no, one and two words
are initial states.

**Fairness.**  `LoadStep` is weakly fair: the client has a timeout
(`simulator.rs:39`), so a request ends in an answer or a failure, and tokio polls a
future that can go on.  Calls, dropped futures and new blocks are not fair: nobody
owes them.  The shrinkers are loops without awaits; their step is weakly fair and
the predicate is assumed to return.

## Where documentation and code differ

Each is a run that TLC must find violated.

- `loaded_on_return`: `load_state_from_rpc` (`state.rs:199`, "Load on-chain state
  for the given addresses") returns `Ok` without an address whose mark survived a
  `restore`: take a snapshot, prefund or load the address, restore, load.
- `cached_skipped`: "Skips addresses that are already cached" (`state.rs:201`), but
  an account put into the database by a committed transaction is replaced.
- `bisect_returns`: `shrink_u256_bisect` "returns the smallest value"
  (`shrink.rs:275`), but loops forever when started at `U256::MAX` on a predicate that
  refuses it.  `shrink_simtx_sequence` does not check that the original violates, so
  a caller with a flaky predicate can meet it; with a violating start the search
  always ends (`shrinkers`).
- `cdp_documented`: "The rule fails if: `debt_value * 10_000 > collateral_value *
  max_ltv_bps`" (`rules.rs:101`), but `*` wraps around, so a debt above 2^256 / 10 000
  can pass.  `extract_context` saturates a value times its price, so the largest word
  is one the rule really meets.

- `sums_documented`: "sum of tracked balances must equal total supply" (`rules.rs:68`),
  and the loans' total "must equal the sum" (`rules.rs:132`), but both sums saturate, so
  one that is no word passes for a total of `U256::MAX`.

More shows in what the passing properties presuppose.  `CdpExact`, `LiquidationExact`
and `FeeExact` need products that fit: all three rules multiply as the CDP rule does,
and what they decide when a product wraps is not a property of any run but
`cdp_documented`.  `SumsExact` says that a saturated sum misleads in that one case only:
the exact sum decides unless it is no word and the total is the largest one.
`MinimalWhenMonotone` needs a monotone
predicate: a single pass never tries an item again after later ones went, so for
others an item may be left that could be removed.  And `prefund` on a contract that
was loaded takes its code away, and no later load brings it back.

## Proofs

`tlapm` proves, from the modules' named assumptions only (sentinels are distinct,
bounds are naturals, parties are finitely many), for any addresses, slots, lengths and word sizes:

- *StateLoaderProofs.*  `IInv` is `TypeOK`, `AnswersOfThePin` and `NoTornAccount`.
  `NoTornAccount` alone is not inductive: a state with answers of two blocks in
  `fetched`, or a joined task with an answer missing, would be one step from a torn
  account; `AnswersOfThePin` excludes both, and needs in turn that a block number is
  awaited only while there is none.  `Invariance`, and from it `TypeCorrect`,
  `AnswersArePinned`, `AccountsUntorn` and `LoadingIsAtomic`, the refinement of
  AtomicLoads.  What of `LoadsReturn` is safety is proved too.  `LoadsCanGoOn`: in
  every reachable state of a load the guard of one of its steps holds; of the handles
  that are not joined the first is awaited, it has ended or misses an answer that can
  come, and of the results of a batch each address has a last one.  It needs that only
  tasks of this load were joined (`JoinedAreTasks`, an invariant of its own).
  `LoadsAdvance`: every step of a load adds to its answers, failures or joined handles
  and takes none back, or takes one slot off, and nothing else touches these.
- *SessionProofs.*  The action properties `SnapshotIdsStable`, `PinKept` and
  `MarksKept`, each by showing that every method and every step of a load keeps it.
- *ShrinkSequenceProofs.*  `AlwaysFailing` is inductive as it stands;
  `OnePassMinimizes` needs that every kept position before the cursor is one the
  violation cannot do without, which monotonicity carries to the end.
- *ShrinkBisectProofs.*  `BestAlwaysViolates`, `LocallyMinimal` and `FindsSmallest`
  from one invariant of the search: what it says about `lo - 1` and `hi + 1` is what
  was asked there, saturation included.  `EveryQuestionHalves`: from a value that
  violates, each question halves the values between the ends, because a refused middle
  is never the largest word.
- *ShrinkSimTxProofs.*  `CurrentAlwaysViolates`, `ResultIsMinimal`,
  `SummaryIsAccurate`, `ShrinksOnly` and `Typing` from one invariant over both passes.
  Its heart is `NeededSoFar` and `SmallSoFar`: what a pass has left behind is ruled out
  by a candidate that was rejected and is no smaller.  Rejections were of earlier, larger
  sequences, so these survive later steps because a part of what is ruled out is ruled
  out (`SmallerRuled`), and not because anything is monotonic.  `EveryStepAdvances`: each step of either pass and each
  answer decreases `Left`, six naturals in lexicographic order, so no behaviour has
  infinitely many steps, whatever the predicate answers.
- *SequenceAuditProofs.*  `TracesAttributed`, `SnapshotsAreInStep`, `FinalIsFound`,
  `FailuresAreNotVerdicts`, `Typing`, and `ExecutionIsTheSame`, the refinement of
  SequenceRun.  The invariant adds to `SlicesAttributeSteps` that the offsets rise up to
  `step_index` (`OffsetsRise`), that entries, count and first violation are those of the
  databases recorded so far, one fewer while an evaluation is due (`InStep`), and what
  an entered and an answered audit has (`Entered`, `Answered`).
- *InvariantRulesProofs.*  `TypeCorrect`, and from it `ProductDecided`, `CdpDecided`
  and `FeeDecided`: an open check is answered by its one step, whose words are
  compared as the exact numbers are (`FittingProduct`: a product that fits does not
  wrap; `RoundedDown`: dividing one side rounds the same way as multiplying the
  other).  The rules with a loop, `ErrsExactlyIfMissing`, `SumsDecided` and
  `LiquidationDecided`, need an invariant of the loop: the items seen let it go on
  (`Passed`), a verdict on positions is about all of them (`PositionsJudged`), and the
  running sum is that of the items seen, capped (`SumsSoFar`; capping after each
  addition is capping once, by `AddKeepsSum`), so that a judged total was compared with
  the capped sum of all (`SumsCapped`), which differs from the exact one only above
  every total but the largest word.  `SumFunctionOnSet` removes chosen
  elements one by one, the loop others: `SumsDefined` shows that the recursion has a
  solution on every finite set and `SumsAdd` that any element may be taken first.  Both
  are inductions, done by a least counterexample (`SmallestSet`, `LeastNumber`), which the
  library's theorems on well-founded relations give without an operator parameter.
  That `Parties` is finite is assumed: they are the keys of a `HashMap`.
- *DbBindingsProofs.*  `ContextIsOfLastBindings`, `ErrsExactlyIfUnbound`,
  `FirstFailureIsTheVerdict` and `PackedFieldsGiveBackTheSlot`, for any lists, rules,
  slots, replies and word width.
  `ContextOfLastBindings` speaks of the entries set so far, and is inductive with the order of the three loops (no binding before the
  last price, no rule before the last binding), that everything extracted could be, and
  what an answer was given for.  The laws of powers of two that the packed fields need,
  which the provers lack, come from counting: 2^n is the number of subsets of a set of n
  elements (`SubsetsOfInterval`, `PowerPositive`, `PowerOfSum`).

*SessionProofs* also has `SlotsStay`: a slot leaves the database only by going back or
by a transaction of another caller.

Only model-checked: the liveness properties `LoadsReturn`, `Returns` and
`ShrinkingEnds`.  They need ENABLED, which the provers do not have.  What they rest on
is proved as far as it is safety: for loads both that some step can be taken and that
each takes the load further, for the shrinkers that each step takes them further.
Every other property of a passing run is the statement of a theorem.

## Plan

What is left, in this order:

1. The verdicts of SequenceAudit from the answers of DbBindings: today they are an
   unknown function of the contents of a database, which DbBindings shows to be right,
   as nothing else goes into an answer.
2. The block environment in Simulator, if a property is found that it decides.

No refinement of ShrinkSequence by the first pass of ShrinkSimTx, or of ShrinkBisect
by a search of its second, is planned: both have all answers of the predicate from the
start, ShrinkSimTx has those asked for so far, and a mapping would have to foresee the
rest.  `ResultIsMinimal` states what such a refinement would be for.

## Not modelled

- The EVM and `CacheDB` beyond their use.  A transaction may do anything a commit can
  leave, so nothing here depends on which transactions they are.
- The block environment and the configuration.  They are assigned and then only
  handed to the EVM; no code of the kit reads them.  Two hazards are about them and
  no property: `load_state_at_block` leaves `block_env` where it was, and the
  bindings' `getReserves` runs in the default environment (`bindings.rs:253`).
- `PredicateRule`, a closure of the caller, and the liquidation thresholds, which are
  copied from the bindings to the context as they are.
- The JSON-RPC format and hex parsing, the decoding of revert reasons, gas numbers,
  logs and outputs of results, program counters of the trace: no state depends on them.
- Trait-object plumbing, re-exports and the examples.

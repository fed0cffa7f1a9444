--------------------------- MODULE InvariantRules ---------------------------
(***************************************************************************)
(* The rules of crates/invariant-rules/src/rules.rs, on words whose        *)
(* arithmetic is that of the code: alloy's * on U256 wraps around, and     *)
(* saturating_add and saturating_mul stop at the largest word.  A state is *)
(* one rule being checked on the part of an InvariantContext it reads;     *)
(* rules with a loop take a step per item.  The loan positions come from a *)
(* HashMap, in any order.                                                  *)
(***************************************************************************)
EXTENDS Integers, Sequences, FiniteSets, Functions

CONSTANTS
    MaxWord,      \* U256::MAX
    Scale,        \* the 10_000 basis points a ratio of one has
    Bps,          \* the limits and tolerances, in basis points
    Parties,      \* token holders and borrowers
    MaxHolders,   \* bound: the holders a rule lists, with repetitions
    None          \* Option::None

Words == 0 .. MaxWord

CdpPositions  == [collateral_value : Words, debt_value : Words]
FeeRecords    == [collected : Words, expected : Words]
LoanPositions == [borrowed : Words, collateral : Words, liquidation_threshold_bps : Bps]

ASSUME WordsAssumption ==
    /\ MaxWord \in Nat /\ Scale \in Words \ {0}
    /\ Bps \subseteq Words         \* a u64 always fits
    /\ IsFiniteSet(Parties)        \* the keys of a HashMap
    /\ MaxHolders \in Nat
    /\ None \notin Words \cup CdpPositions \cup FeeRecords \cup LoanPositions \cup (Words \X Words)

VARIABLES
    rule,      \* the rule being checked
    ctx,       \* its parameters and what it reads of the context
    pending,   \* the items its loop has not seen: indices or borrowers
    sum,       \* the running sum of its loop
    answer     \* "open" until check returns

vars == <<rule, ctx, pending, sum, answer>>

OrNone(S) == S \cup {None}
Lists     == UNION {[1 .. n -> Parties] : n \in 0 .. MaxHolders}

\* The loan total reads nothing of a position but the amount borrowed.
Loans == {p \in LoanPositions : p.collateral = 0 /\ \A b \in Bps : p.liquidation_threshold_bps <= b}

\* What each rule reads.
Inputs == [
    balance_gap                 |-> [balance : OrNone(Words), reserve : OrNone(Words)],
    constant_product            |-> [reserves : OrNone(Words \X Words), baseline_k : Words],
    supply_consistency          |-> [holders : Lists, balances : [Parties -> OrNone(Words)],
                                     total : OrNone(Words)],
    cdp_ltv                     |-> [position : OrNone(CdpPositions), max_ltv_bps : Bps],
    loan_collateral_consistency |-> [positions : [Parties -> OrNone(Loans)],
                                     total : OrNone(Words)],
    liquidation_threshold       |-> [positions : [Parties -> OrNone(LoanPositions)]],
    fee_accounting              |-> [record : OrNone(FeeRecords), tolerance_bps : Bps]]

LoanRules == {"loan_collateral_consistency", "liquidation_threshold"}

Items == CASE rule = "supply_consistency" -> DOMAIN ctx.holders
           [] rule \in LoanRules -> {b \in Parties : ctx.positions[b] # None}
           [] OTHER -> {}

TypeOK ==
    /\ rule \in DOMAIN Inputs
    /\ ctx \in Inputs[rule]
    /\ pending \subseteq Items
    /\ sum \in Words
    /\ answer \in {"open", "holds", "violated", "error"}

Init ==
    /\ rule \in DOMAIN Inputs
    /\ ctx \in Inputs[rule]
    /\ pending = Items
    /\ sum = 0
    /\ answer = "open"

-----------------------------------------------------------------------------
(* Words *)

\* Mutants of SaturatingAdd and SaturatingMul: no bound, or around it.
UncheckedAdd(x, y) == x + y
WrappingAdd(x, y)  == (x + y) % (MaxWord + 1)
WrappingMul(x, y)  == (x * y) % (MaxWord + 1)

SaturatingAdd(x, y) == IF x + y > MaxWord THEN MaxWord ELSE x + y
SaturatingMul(x, y) == IF x * y > MaxWord THEN MaxWord ELSE x * y
Difference(x, y)    == IF x > y THEN x - y ELSE y - x

\* Mutant of Within: a debt at the limit is refused.
StrictlyWithin(debt, collateral, bps) ==
    \/ debt = 0
    \/ collateral # 0 /\ WrappingMul(debt, Scale) < WrappingMul(collateral, bps)

\* A debt is within the limit if it is zero, or there is collateral and the
\* ratio of the two, cross-multiplied, is at most the limit.
Within(debt, collateral, bps) ==
    \/ debt = 0
    \/ collateral # 0 /\ WrappingMul(debt, Scale) <= WrappingMul(collateral, bps)

\* Mutant of MaxDeviation: the division comes first.
MaxDeviationOfUnits(expected, bps) == WrappingMul(expected \div Scale, bps)

MaxDeviation(expected, bps) == WrappingMul(expected, bps) \div Scale

-----------------------------------------------------------------------------
(* Rules without a loop *)

Checking(name) == rule = name /\ answer = "open"

Return(result) == answer' = result /\ UNCHANGED <<rule, ctx, pending, sum>>

ReturnIf(condition) == Return(IF condition THEN "holds" ELSE "violated")

CheckBalanceGap ==
    /\ Checking("balance_gap")
    /\ IF None \in {ctx.balance, ctx.reserve}
       THEN Return("error")
       ELSE ReturnIf(ctx.balance >= ctx.reserve)

CheckConstantProduct ==
    /\ Checking("constant_product")
    /\ IF ctx.reserves = None
       THEN Return("error")
       ELSE ReturnIf(SaturatingMul(ctx.reserves[1], ctx.reserves[2]) >= ctx.baseline_k)

CheckCdpLtv ==
    /\ Checking("cdp_ltv")
    /\ IF ctx.position = None
       THEN Return("error")
       ELSE ReturnIf(Within(ctx.position.debt_value, ctx.position.collateral_value,
                            ctx.max_ltv_bps))

CheckFeeAccounting ==
    /\ Checking("fee_accounting")
    /\ IF ctx.record = None
       THEN Return("error")
       ELSE ReturnIf(IF ctx.record.expected = 0
                     THEN ctx.record.collected = 0
                     ELSE Difference(ctx.record.collected, ctx.record.expected)
                            <= MaxDeviation(ctx.record.expected, ctx.tolerance_bps))

-----------------------------------------------------------------------------
(* Rules with a loop *)

Add(i, amount) ==
    /\ sum' = SaturatingAdd(sum, amount)
    /\ pending' = pending \ {i}
    /\ UNCHANGED <<rule, ctx, answer>>

Balance(i) == ctx.balances[ctx.holders[i]]

\* Holders are added in the order they are listed.
NextHolder(i) ==
    /\ Checking("supply_consistency")
    /\ i \in pending /\ \A j \in pending : i <= j

\* Mutant of AddHolder: a balance that is missing counts as zero.
AddHolderOrZero(i) == NextHolder(i) /\ Add(i, IF Balance(i) = None THEN 0 ELSE Balance(i))

AddHolder(i) ==
    /\ NextHolder(i)
    /\ IF Balance(i) = None THEN Return("error") ELSE Add(i, Balance(i))

SupplyDone ==
    /\ Checking("supply_consistency") /\ pending = {}
    /\ IF ctx.total = None THEN Return("error") ELSE ReturnIf(sum = ctx.total)

LoanTotalMissing ==
    /\ Checking("loan_collateral_consistency") /\ ctx.total = None
    /\ Return("error")

AddLoan(b) ==
    /\ Checking("loan_collateral_consistency") /\ ctx.total # None
    /\ b \in pending
    /\ Add(b, ctx.positions[b].borrowed)

LoanDone ==
    /\ Checking("loan_collateral_consistency") /\ ctx.total # None
    /\ pending = {}
    /\ ReturnIf(ctx.total = sum)

Healthy(p) == Within(p.borrowed, p.collateral, p.liquidation_threshold_bps)

\* Mutant of PassPosition: the loop returns at the first healthy position.
PassAll(b) ==
    /\ Checking("liquidation_threshold")
    /\ b \in pending /\ Healthy(ctx.positions[b])
    /\ pending' = {}
    /\ UNCHANGED <<rule, ctx, sum, answer>>

PassPosition(b) ==
    /\ Checking("liquidation_threshold")
    /\ b \in pending /\ Healthy(ctx.positions[b])
    /\ pending' = pending \ {b}
    /\ UNCHANGED <<rule, ctx, sum, answer>>

FailPosition(b) ==
    /\ Checking("liquidation_threshold")
    /\ b \in pending /\ ~Healthy(ctx.positions[b])
    /\ Return("violated")

LiquidationDone ==
    /\ Checking("liquidation_threshold") /\ pending = {}
    /\ Return("holds")

Next ==
    \/ CheckBalanceGap
    \/ CheckConstantProduct
    \/ CheckCdpLtv
    \/ CheckFeeAccounting
    \/ \E i \in pending : AddHolder(i)
    \/ SupplyDone
    \/ LoanTotalMissing
    \/ \E b \in pending : AddLoan(b)
    \/ LoanDone
    \/ \E b \in pending : PassPosition(b)
    \/ \E b \in pending : FailPosition(b)
    \/ LiquidationDone

Spec == Init /\ [][Next]_vars

-----------------------------------------------------------------------------
(* Properties *)

\* The rule was checked, and it holds exactly if the condition is true.
Decides(name, condition) ==
    (rule = name /\ answer \in {"holds", "violated"}) => (answer = "holds" <=> condition)

\* The product of the reserves is compared as if it were exact: it saturates
\* only above every baseline.  (rules.rs, ConstantProductRule)
ConstantProductExact ==
    Decides("constant_product", ctx.reserves[1] * ctx.reserves[2] >= ctx.baseline_k)

\* As long as no product overflows, the two special cases and the
\* cross-multiplication decide the ratio.  (rules.rs, CdpLtvRule)
ExactlyWithin(debt, collateral, bps) == debt * Scale <= collateral * bps
Fits(debt, collateral, bps)          == debt * Scale <= MaxWord /\ collateral * bps <= MaxWord

CdpExact ==
    (rule = "cdp_ltv" /\ ctx.position # None
       /\ Fits(ctx.position.debt_value, ctx.position.collateral_value, ctx.max_ltv_bps))
      => Decides("cdp_ltv", ExactlyWithin(ctx.position.debt_value,
                                          ctx.position.collateral_value, ctx.max_ltv_bps))

\* Likewise of all positions together, whatever order the map gives them in.
\* (rules.rs, LiquidationThresholdRule)
AllPositions(P(_, _, _)) ==
    \A b \in Items :
        LET p == ctx.positions[b] IN P(p.borrowed, p.collateral, p.liquidation_threshold_bps)

LiquidationExact ==
    (rule = "liquidation_threshold" /\ AllPositions(Fits))
        => Decides("liquidation_threshold", AllPositions(ExactlyWithin))

\* The largest deviation is rounded down, and still the rule decides the
\* ratio, as long as the product does not overflow.  (rules.rs,
\* FeeAccountingRule)
FeeExact ==
    (rule = "fee_accounting" /\ ctx.record # None
       /\ ctx.record.expected * ctx.tolerance_bps <= MaxWord)
      => Decides("fee_accounting",
                 Difference(ctx.record.collected, ctx.record.expected) * Scale
                   <= ctx.record.expected * ctx.tolerance_bps)

\* The exact sum decides, in whatever order the items came, one item counted
\* as often as it is listed, and also if that sum is no word, as long as the
\* total is not the largest word.  (rules.rs, SupplyConsistencyRule and
\* LoanCollateralConsistencyRule)
Amounts == [i \in Items |-> IF rule = "supply_consistency"
                            THEN Balance(i)
                            ELSE ctx.positions[i].borrowed]
ExactSum == SumFunctionOnSet(Amounts, Items)

\* The rules that add up have judged what they read.
SumJudged ==
    /\ rule \in {"supply_consistency", "loan_collateral_consistency"}
    /\ answer \in {"holds", "violated"}

SumsExact ==
    (SumJudged /\ (ctx.total # MaxWord \/ ExactSum <= MaxWord))
        => (answer = "holds" <=> ctx.total = ExactSum)

\* A check errs exactly if something it needs is missing; a rule never
\* judges a value it does not have.  A protocol without loan positions has
\* nothing missing.  (rules.rs, all the ok_or_else of check)
SomethingMissing ==
    CASE rule = "balance_gap"                 -> None \in {ctx.balance, ctx.reserve}
      [] rule = "constant_product"            -> ctx.reserves = None
      [] rule = "supply_consistency"          -> \/ ctx.total = None
                                                 \/ \E i \in Items : Balance(i) = None
      [] rule = "cdp_ltv"                     -> ctx.position = None
      [] rule = "loan_collateral_consistency" -> ctx.total = None
      [] rule = "liquidation_threshold"       -> FALSE
      [] rule = "fee_accounting"              -> ctx.record = None

ErrsIfMissing == answer # "open" => (answer = "error" <=> SomethingMissing)

-----------------------------------------------------------------------------
(* What the documentation says and the code does not do *)

\* "The rule fails if: debt_value * 10_000 > collateral_value * max_ltv_bps".
\* (rules.rs:101)
CdpAsDocumented ==
    (rule = "cdp_ltv" /\ ctx.position # None)
        => Decides("cdp_ltv", ExactlyWithin(ctx.position.debt_value,
                                            ctx.position.collateral_value, ctx.max_ltv_bps))

\* "Sum of tracked balances must equal total supply", and "the protocol's
\* tracked total must equal the sum of all individual loan positions'
\* borrowed amounts".  (rules.rs:68, rules.rs:132-133)
SumsAsDocumented == SumJudged => (answer = "holds" <=> ctx.total = ExactSum)
=============================================================================

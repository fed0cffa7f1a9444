------------------------ MODULE InvariantRulesProofs ------------------------
(***************************************************************************)
(* What the rules decide, proved for every size of word, every scale, any  *)
(* number of parties and any number of listed holders.  The sums are folds *)
(* over finite sets: what they compute is proved by a least counterexample *)
(* in place of an induction over the sets.                                 *)
(***************************************************************************)
EXTENDS InvariantRules, FiniteSetTheorems, WellFoundedInduction, TLAPS

\* A product that fits does not wrap around.
LEMMA FittingProduct ==
    ASSUME NEW x \in Words, NEW y \in Words, x * y <= MaxWord
    PROVE  WrappingMul(x, y) = x * y
<1>1. x * y \in Nat
  BY WordsAssumption DEF Words
<1>2. \A n \in Nat : n <= MaxWord => n % (MaxWord + 1) = n
  BY WordsAssumption
<1> QED BY <1>1, <1>2 DEF WrappingMul

\* Dividing the larger side by the scale is multiplying the smaller one.
LEMMA RoundedDown ==
    ASSUME NEW d \in Nat, NEW n \in Nat, NEW s \in Nat \ {0}
    PROVE  d <= n \div s <=> d * s <= n
<1> DEFINE q == n \div s
<1>1. q \in Nat /\ s * q <= n /\ n < s * (q + 1)
  OBVIOUS
<1>2. CASE d <= q
  <2>1. d * s <= q * s
    BY <1>1, <1>2
  <2> QED BY <1>1, <1>2, <2>1
<1>3. CASE d >= q + 1
  <2>1. d * s >= (q + 1) * s
    BY <1>1, <1>3
  <2> QED BY <1>1, <1>3, <2>1
<1> QED BY <1>1, <1>2, <1>3

-----------------------------------------------------------------------------
(* Types *)

LEMMA InputsOf ==
    ASSUME TypeOK
    PROVE  /\ rule = "constant_product" =>
                 /\ ctx.reserves \in OrNone(Words \X Words) /\ ctx.baseline_k \in Words
           /\ rule = "supply_consistency" =>
                 /\ ctx.holders \in Lists /\ ctx.balances \in [Parties -> OrNone(Words)]
                 /\ ctx.total \in OrNone(Words)
           /\ rule = "cdp_ltv" =>
                 /\ ctx.position \in OrNone(CdpPositions) /\ ctx.max_ltv_bps \in Bps
           /\ rule = "loan_collateral_consistency" =>
                 /\ ctx.positions \in [Parties -> OrNone(Loans)]
                 /\ ctx.total \in OrNone(Words)
           /\ rule = "liquidation_threshold" =>
                 ctx.positions \in [Parties -> OrNone(LoanPositions)]
           /\ rule = "fee_accounting" =>
                 /\ ctx.record \in OrNone(FeeRecords) /\ ctx.tolerance_bps \in Bps
<1>1. ctx \in Inputs[rule]
  BY DEF TypeOK
<1>2. CASE rule = "constant_product"
  <2>1. ctx \in [reserves : OrNone(Words \X Words), baseline_k : Words]
    BY <1>1, <1>2 DEF Inputs
  <2> QED BY <1>2, <2>1
<1>3. CASE rule = "supply_consistency"
  <2>1. ctx \in [holders : Lists, balances : [Parties -> OrNone(Words)], total : OrNone(Words)]
    BY <1>1, <1>3 DEF Inputs
  <2> QED BY <1>3, <2>1
<1>4. CASE rule = "cdp_ltv"
  <2>1. ctx \in [position : OrNone(CdpPositions), max_ltv_bps : Bps]
    BY <1>1, <1>4 DEF Inputs
  <2> QED BY <1>4, <2>1
<1>5. CASE rule = "loan_collateral_consistency"
  <2>1. ctx \in [positions : [Parties -> OrNone(Loans)], total : OrNone(Words)]
    BY <1>1, <1>5 DEF Inputs
  <2> QED BY <1>5, <2>1
<1>6. CASE rule = "fee_accounting"
  <2>1. ctx \in [record : OrNone(FeeRecords), tolerance_bps : Bps]
    BY <1>1, <1>6 DEF Inputs
  <2> QED BY <1>6, <2>1
<1>7. CASE rule = "liquidation_threshold"
  <2>1. ctx \in [positions : [Parties -> OrNone(LoanPositions)]]
    BY <1>1, <1>7 DEF Inputs
  <2> QED BY <1>7, <2>1
<1> QED BY <1>2, <1>3, <1>4, <1>5, <1>6, <1>7

LEMMA AddKeeps ==
    ASSUME TypeOK, NEW i, NEW amount \in Words, Add(i, amount)
    PROVE  TypeOK'
<1>1. Items' = Items
  BY DEF Add, Items, LoanRules
<1>2. sum' \in Words
  BY WordsAssumption DEF Add, SaturatingAdd, TypeOK, Words
<1> QED BY <1>1, <1>2 DEF Add, TypeOK

LEMMA ReturnKeeps ==
    ASSUME TypeOK, NEW result \in {"holds", "violated", "error"}, Return(result)
    PROVE  TypeOK'
<1>1. Items' = Items
  BY DEF Return, Items, LoanRules
<1> QED BY <1>1 DEF Return, TypeOK

LEMMA NextKeeps == TypeOK /\ [Next]_vars => TypeOK'
<1> SUFFICES ASSUME TypeOK, [Next]_vars PROVE TypeOK'
  OBVIOUS
<1>1. ASSUME NEW condition, ReturnIf(condition)
      PROVE  TypeOK'
  BY <1>1, ReturnKeeps DEF ReturnIf
<1>2. ASSUME NEW i \in pending, AddHolder(i)
      PROVE  TypeOK'
  <2>1. CASE Balance(i) = None
    BY <1>2, <2>1, ReturnKeeps DEF AddHolder
  <2>2. CASE Balance(i) # None
    <3>1. i \in DOMAIN ctx.holders
      <4>1. rule = "supply_consistency"
        BY <1>2 DEF AddHolder, NextHolder, Checking
      <4>2. Items = DOMAIN ctx.holders
        BY <4>1 DEF Items, LoanRules
      <4> QED BY <4>2 DEF TypeOK
    <3>2. ctx.holders[i] \in Parties
      BY <1>2, <3>1, InputsOf DEF AddHolder, NextHolder, Checking, Lists
    <3>3. Balance(i) \in Words
      BY <1>2, <2>2, <3>2, InputsOf DEF AddHolder, NextHolder, Checking, Balance, OrNone
    <3> QED BY <1>2, <2>2, <3>3, AddKeeps DEF AddHolder
  <2> QED BY <2>1, <2>2
<1>3. ASSUME NEW b \in pending, AddLoan(b)
      PROVE  TypeOK'
  <2>1. b \in Parties /\ ctx.positions[b] # None
    BY <1>3 DEF AddLoan, Checking, TypeOK, Items, LoanRules
  <2>2. ctx.positions[b] \in Loans
    BY <1>3, <2>1, InputsOf DEF AddLoan, Checking, OrNone
  <2>3. ctx.positions[b].borrowed \in Words
    BY <2>2 DEF Loans, LoanPositions
  <2> QED BY <1>3, <2>3, AddKeeps DEF AddLoan
<1>4. ASSUME NEW b \in pending, PassPosition(b)
      PROVE  TypeOK'
  <2>1. Items' = Items
    BY <1>4 DEF PassPosition, Items, LoanRules
  <2> QED BY <1>4, <2>1 DEF PassPosition, TypeOK
<1>5. CASE UNCHANGED vars
  <2>1. Items' = Items
    BY <1>5 DEF vars, Items, LoanRules
  <2> QED BY <1>5, <2>1 DEF vars, TypeOK
<1>6. CASE CheckBalanceGap \/ CheckConstantProduct \/ CheckCdpLtv \/ CheckFeeAccounting
  BY <1>1, <1>6, ReturnKeeps
     DEF CheckBalanceGap, CheckConstantProduct, CheckCdpLtv, CheckFeeAccounting
<1>7. CASE SupplyDone \/ LoanTotalMissing \/ LoanDone \/ LiquidationDone
  BY <1>1, <1>7, ReturnKeeps DEF SupplyDone, LoanTotalMissing, LoanDone, LiquidationDone
<1>8. ASSUME NEW b \in pending, FailPosition(b)
      PROVE  TypeOK'
  BY <1>8, ReturnKeeps DEF FailPosition
<1> QED BY <1>2, <1>3, <1>4, <1>5, <1>6, <1>7, <1>8 DEF Next

\* The check of a rule holds values of its types; the sum never leaves the word.
THEOREM TypeCorrect == Spec => []TypeOK
<1>1. Init => TypeOK
  BY WordsAssumption DEF Init, TypeOK, Words
<1> QED BY <1>1, NextKeeps, PTL DEF Spec

-----------------------------------------------------------------------------
(* What is decided *)

\* A step of a rule without a loop is its one check.
LEMMA OneCheck ==
    ASSUME TypeOK, [Next]_vars, answer = "open", answer' # "open"
    PROVE  /\ rule' = rule /\ ctx' = ctx
           /\ rule = "constant_product" => CheckConstantProduct
           /\ rule = "cdp_ltv" => CheckCdpLtv
           /\ rule = "fee_accounting" => CheckFeeAccounting
BY DEF Next, CheckBalanceGap, CheckConstantProduct, CheckCdpLtv, CheckFeeAccounting, AddHolder,
       NextHolder, SupplyDone, LoanTotalMissing, AddLoan, LoanDone, PassPosition, FailPosition,
       LiquidationDone, Checking, Add, Return, ReturnIf, vars

\* What was read and answered does not change any more.
LEMMA AnswerStays ==
    ASSUME [Next]_vars
    PROVE  /\ UNCHANGED <<rule, ctx>>
           /\ answer # "open" => UNCHANGED answer
BY DEF Next, CheckBalanceGap, CheckConstantProduct, CheckCdpLtv, CheckFeeAccounting, AddHolder,
       NextHolder, SupplyDone, LoanTotalMissing, AddLoan, LoanDone, PassPosition, FailPosition,
       LiquidationDone, Checking, Add, Return, ReturnIf, vars

\* The saturated product is compared as the exact one would be.
THEOREM ProductDecided == Spec => []ConstantProductExact
<1>1. Init => ConstantProductExact
  BY DEF Init, ConstantProductExact, Decides
<1>2. ASSUME TypeOK, ConstantProductExact, [Next]_vars
      PROVE  ConstantProductExact'
  <2>1. CASE answer # "open"
    BY <1>2, <2>1, AnswerStays DEF ConstantProductExact, Decides
  <2>2. CASE answer = "open" /\ rule = "constant_product" /\ answer' \in {"holds", "violated"}
    <3>1. CheckConstantProduct /\ UNCHANGED <<rule, ctx>>
      BY <1>2, <2>2, OneCheck
    <3>2. ctx.reserves # None
      BY <2>2, <3>1 DEF CheckConstantProduct, Return
    <3>3. /\ ctx.reserves[1] \in Words /\ ctx.reserves[2] \in Words
          /\ ctx.baseline_k \in Words
      BY <1>2, <2>2, <3>2, InputsOf DEF OrNone
    <3> DEFINE product == ctx.reserves[1] * ctx.reserves[2]
    <3>4. product \in Nat
      BY <3>3, WordsAssumption DEF Words
    <3>5. SaturatingMul(ctx.reserves[1], ctx.reserves[2]) >= ctx.baseline_k
             <=> product >= ctx.baseline_k
      <4> HIDE DEF product
      <4>1. SaturatingMul(ctx.reserves[1], ctx.reserves[2])
               = IF product > MaxWord THEN MaxWord ELSE product
        BY DEF SaturatingMul, product
      <4> QED BY <3>3, <3>4, <4>1, WordsAssumption DEF Words
    <3>6. answer' = IF SaturatingMul(ctx.reserves[1], ctx.reserves[2]) >= ctx.baseline_k
                    THEN "holds" ELSE "violated"
      BY <3>1, <3>2 DEF CheckConstantProduct, ReturnIf, Return
    <3> QED BY <3>1, <3>5, <3>6 DEF ConstantProductExact, Decides
  <2> QED BY <1>2, <2>1, <2>2, AnswerStays DEF ConstantProductExact, Decides
<1> QED BY <1>1, <1>2, TypeCorrect, PTL DEF Spec

\* Below overflow the two products decide the ratio, special cases included.
LEMMA WithinExactly ==
    ASSUME NEW debt \in Words, NEW collateral \in Words, NEW bps \in Words,
           Fits(debt, collateral, bps)
    PROVE  Within(debt, collateral, bps) <=> ExactlyWithin(debt, collateral, bps)
<1>1. /\ WrappingMul(debt, Scale) = debt * Scale
      /\ WrappingMul(collateral, bps) = collateral * bps
  BY FittingProduct, WordsAssumption DEF Fits
<1>2. CASE debt = 0
  <2>1. debt * Scale = 0 /\ collateral * bps >= 0
    BY <1>2, WordsAssumption DEF Words
  <2> QED BY <1>2, <2>1 DEF Within, ExactlyWithin
<1>3. CASE debt # 0 /\ collateral = 0
  <2>1. debt * Scale \in Nat /\ debt * Scale # 0 /\ collateral * bps = 0
    <3>1. \A m, n \in Nat \ {0} : m * n \in Nat \ {0}
      OBVIOUS
    <3> QED BY <1>3, <3>1, WordsAssumption DEF Words
  <2> QED BY <1>3, <2>1 DEF Within, ExactlyWithin
<1>4. CASE debt # 0 /\ collateral # 0
  BY <1>1, <1>4 DEF Within, ExactlyWithin
<1> QED BY <1>2, <1>3, <1>4

\* A position whose products fit is judged by the documented inequality.
THEOREM CdpDecided == Spec => []CdpExact
<1> DEFINE within == Within(ctx.position.debt_value, ctx.position.collateral_value,
                            ctx.max_ltv_bps)
<1>1. Init => CdpExact
  BY DEF Init, CdpExact, Decides
<1>2. ASSUME TypeOK, CdpExact, [Next]_vars
      PROVE  CdpExact'
  <2>1. CASE answer # "open"
    BY <1>2, <2>1, AnswerStays DEF CdpExact, Decides
  <2>2. CASE /\ answer = "open" /\ rule = "cdp_ltv" /\ answer' \in {"holds", "violated"}
             /\ ctx.position # None
             /\ Fits(ctx.position.debt_value, ctx.position.collateral_value, ctx.max_ltv_bps)
    <3>1. CheckCdpLtv /\ UNCHANGED <<rule, ctx>>
      BY <1>2, <2>2, OneCheck
    <3>2. /\ ctx.position.debt_value \in Words /\ ctx.position.collateral_value \in Words
          /\ ctx.max_ltv_bps \in Words
      BY <1>2, <2>2, InputsOf, WordsAssumption DEF OrNone, CdpPositions
    <3>3. within <=> ExactlyWithin(ctx.position.debt_value, ctx.position.collateral_value,
                                   ctx.max_ltv_bps)
      BY <2>2, <3>2, WithinExactly
    <3>4. answer' = IF within THEN "holds" ELSE "violated"
      BY <2>2, <3>1 DEF CheckCdpLtv, ReturnIf, Return
    <3> QED BY <3>1, <3>3, <3>4 DEF CdpExact, Decides
  <2> QED BY <1>2, <2>1, <2>2, AnswerStays DEF CdpExact, Decides
<1> QED BY <1>1, <1>2, TypeCorrect, PTL DEF Spec

\* Rounding the largest deviation down loses nothing, and an expectation of
\* zero is no special case.
LEMMA FeeExactly ==
    ASSUME NEW collected \in Words, NEW expected \in Words, NEW bps \in Words,
           expected * bps <= MaxWord
    PROVE  (IF expected = 0
            THEN collected = 0
            ELSE Difference(collected, expected) <= MaxDeviation(expected, bps))
             <=> Difference(collected, expected) * Scale <= expected * bps
<1>1. /\ Difference(collected, expected) \in Nat
      /\ expected * bps \in Nat /\ Scale \in Nat \ {0}
      /\ expected \in Nat /\ collected \in Nat /\ bps \in Nat
  BY WordsAssumption DEF Difference, Words
<1>2. CASE expected = 0
  <2>1. expected * bps = 0 /\ Difference(collected, expected) = collected
    BY <1>1, <1>2 DEF Difference
  <2>2. collected * Scale <= 0 <=> collected = 0
    BY <1>1
  <2> QED BY <1>2, <2>1, <2>2
<1>3. CASE expected # 0
  <2>1. MaxDeviation(expected, bps) = (expected * bps) \div Scale
    BY FittingProduct DEF MaxDeviation
  <2> QED BY <1>1, <1>3, <2>1, RoundedDown
<1> QED BY <1>2, <1>3

\* A record whose product fits is judged by the exact ratio.
THEOREM FeeDecided == Spec => []FeeExact
<1> DEFINE close == IF ctx.record.expected = 0
                    THEN ctx.record.collected = 0
                    ELSE Difference(ctx.record.collected, ctx.record.expected)
                           <= MaxDeviation(ctx.record.expected, ctx.tolerance_bps)
<1>1. Init => FeeExact
  BY DEF Init, FeeExact, Decides
<1>2. ASSUME TypeOK, FeeExact, [Next]_vars
      PROVE  FeeExact'
  <2>1. CASE answer # "open"
    BY <1>2, <2>1, AnswerStays DEF FeeExact, Decides
  <2>2. CASE /\ answer = "open" /\ rule = "fee_accounting" /\ answer' \in {"holds", "violated"}
             /\ ctx.record # None
             /\ ctx.record.expected * ctx.tolerance_bps <= MaxWord
    <3>1. CheckFeeAccounting /\ UNCHANGED <<rule, ctx>>
      BY <1>2, <2>2, OneCheck
    <3>2. /\ ctx.record.collected \in Words /\ ctx.record.expected \in Words
          /\ ctx.tolerance_bps \in Words
      BY <1>2, <2>2, InputsOf, WordsAssumption DEF OrNone, FeeRecords
    <3>3. close <=> Difference(ctx.record.collected, ctx.record.expected) * Scale
                      <= ctx.record.expected * ctx.tolerance_bps
      BY <2>2, <3>2, FeeExactly
    <3>4. answer' = IF close THEN "holds" ELSE "violated"
      BY <2>2, <3>1 DEF CheckFeeAccounting, ReturnIf, Return
    <3> HIDE DEF close
    <3> QED BY <3>1, <3>3, <3>4 DEF FeeExact, Decides, Difference
  <2> QED BY <1>2, <2>1, <2>2, AnswerStays DEF FeeExact, Decides, Difference
<1> QED BY <1>1, <1>2, TypeCorrect, PTL DEF Spec

-----------------------------------------------------------------------------
(* Sums over finite sets *)

\* A nonempty set of finite sets has one that contains no other: what the
\* inductions below choose their least counterexample by.
LEMMA SmallestSet ==
    ASSUME NEW F, F # {}, \A s \in F : IsFiniteSet(s)
    PROVE  \E s \in F : \A t \in F : t \subseteq s => t = s
<1> DEFINE S == UNION F
<1>1. F \subseteq FiniteSubsetsOf(S)
  BY DEF FiniteSubsetsOf
<1>2. \E s \in F : \A t \in F : <<t, s>> \notin StrictSubsetOrdering(S)
  BY <1>1, FS_StrictSubsetOrderingWellFounded, WFMin
<1> QED BY <1>2 DEF StrictSubsetOrdering

LEMMA LeastNumber ==
    ASSUME NEW T \in SUBSET Nat, T # {}
    PROVE  \E n \in T : \A m \in T : n <= m
<1> DEFINE R == OpToRel(<, Nat)
<1>1. IsWellFoundedOn(R, Nat)
  BY NatLessThanWellFounded
<1>2. \A m, n \in Nat : m < n => <<m, n>> \in R
  BY DEF OpToRel
<1> HIDE DEF R
<1>3. PICK n \in T : \A m \in T : <<m, n>> \notin R
  BY <1>1, WFMin
<1>4. \A m \in T : ~(m < n)
  BY <1>2, <1>3
<1> QED BY <1>3, <1>4

\* The recursion of SumFunctionOnSet: its step, and the function it defines.
SumStep(f, g, s) == IF s = {} THEN 0
                    ELSE LET x == CHOOSE x \in s : TRUE IN f[x] + g[s \ {x}]
Sums(f, S) == CHOOSE g : g = [s \in SUBSET S |-> SumStep(f, g, s)]

LEMMA SumIsLast ==
    ASSUME NEW f, NEW S
    PROVE  SumFunctionOnSet(f, S) = Sums(f, S)[S]
BY DEF SumFunctionOnSet, FoldFunctionOnSet, MapThenFoldSet, Sums, SumStep

\* There is such a function: it extends from the sets of up to n elements to
\* those of one more.
LEMMA SumsDefined ==
    ASSUME NEW f, NEW S, IsFiniteSet(S)
    PROVE  \A s \in SUBSET S : Sums(f, S)[s] = SumStep(f, Sums(f, S), s)
<1> DEFINE UpTo(n)     == {s \in SUBSET S : Cardinality(s) <= n}
           Solves(g, n) == g = [s \in UpTo(n) |-> SumStep(f, g, s)]
           Bad          == {n \in Nat : ~ \E g : Solves(g, n)}
<1>1. \A s \in SUBSET S : IsFiniteSet(s) /\ Cardinality(s) \in Nat
                             /\ Cardinality(s) <= Cardinality(S)
  BY FS_Subset, FS_CardinalityType
<1>2. ASSUME NEW n \in Bad, \A m \in Bad : n <= m
      PROVE  FALSE
  <2>1. CASE n = 0
    <3>1. UpTo(0) = {{}}
      BY <1>1, FS_EmptySet
    <3>2. Solves([s \in {{}} |-> 0], 0)
      BY <3>1 DEF SumStep
    <3> QED BY <2>1, <3>2
  <2>2. CASE n # 0
    <3>1. n - 1 \in Nat /\ n - 1 \notin Bad
      <4>1. n \in Nat \ {0} /\ Bad \subseteq Nat
        BY <2>2
      <4> HIDE DEF Bad
      <4> QED BY <1>2, <4>1
    <3>2. PICK g : Solves(g, n - 1)
      BY <3>1
    <3> DEFINE h == [s \in UpTo(n) |-> IF s \in UpTo(n - 1) THEN g[s] ELSE SumStep(f, g, s)]
    <3>3. ASSUME NEW s \in UpTo(n)
          PROVE  h[s] = SumStep(f, h, s)
      <4>1. CASE s = {}
        <5>1. s \in UpTo(n - 1)
          BY <3>1, <4>1, FS_EmptySet
        <5> QED BY <3>2, <4>1, <5>1 DEF SumStep
      <4>2. CASE s # {}
        <5> DEFINE x == CHOOSE x \in s : TRUE
        <5>1. x \in s
          BY <4>2
        <5>2. s \ {x} \in UpTo(n - 1) /\ s \ {x} \in UpTo(n)
          <6>1. Cardinality(s \ {x}) = Cardinality(s) - 1
            BY <1>1, <5>1, FS_RemoveElement
          <6> QED BY <1>1, <3>1, <6>1
        <5>3. h[s \ {x}] = g[s \ {x}]
          BY <5>2
        <5>4. SumStep(f, h, s) = SumStep(f, g, s)
          BY <4>2, <5>3 DEF SumStep
        <5>5. CASE s \in UpTo(n - 1)
          BY <3>2, <5>4, <5>5
        <5>6. CASE s \notin UpTo(n - 1)
          BY <5>4, <5>6
        <5> QED BY <5>5, <5>6
      <4> QED BY <4>1, <4>2
    <3>4. Solves(h, n)
      BY <3>3
    <3> QED BY <3>4
  <2> QED BY <2>1, <2>2
<1>3. Cardinality(S) \notin Bad
  BY <1>2, LeastNumber
<1>4. Cardinality(S) \in Nat /\ UpTo(Cardinality(S)) = SUBSET S
  BY <1>1, FS_CardinalityType
<1>5. \E g : g = [s \in SUBSET S |-> SumStep(f, g, s)]
  BY <1>3, <1>4
<1>6. Sums(f, S) = [s \in SUBSET S |-> SumStep(f, Sums(f, S), s)]
  BY <1>5 DEF Sums
<1> DEFINE G == Sums(f, S)
<1> HIDE DEF G
<1>7. G = [s \in SUBSET S |-> SumStep(f, G, s)]
  BY <1>6 DEF G
<1>8. \A s \in SUBSET S : G[s] = SumStep(f, G, s)
  BY <1>7
<1> QED BY <1>8 DEF G

\* The order of the elements does not matter.
LEMMA SumsAdd ==
    ASSUME NEW S, IsFiniteSet(S), NEW f \in [S -> Nat]
    PROVE  \A s \in SUBSET S : /\ Sums(f, S)[s] \in Nat
                               /\ \A a \in s : Sums(f, S)[s] = f[a] + Sums(f, S)[s \ {a}]
<1> DEFINE G    == Sums(f, S)
           Good(s) == G[s] \in Nat /\ \A a \in s : G[s] = f[a] + G[s \ {a}]
           Bad  == {s \in SUBSET S : ~Good(s)}
<1>1. \A s \in SUBSET S : G[s] = SumStep(f, G, s)
  BY SumsDefined
<1> HIDE DEF G
<1>2. ASSUME NEW s \in Bad, \A t \in Bad : t \subseteq s => t = s
      PROVE  FALSE
  <2>1. CASE s = {}
    BY <1>1, <2>1 DEF SumStep
  <2>2. CASE s # {}
    <3> DEFINE x == CHOOSE x \in s : TRUE
    <3>1. x \in s /\ G[s] = f[x] + G[s \ {x}]
      BY <1>1, <2>2 DEF SumStep
    <3> HIDE DEF x
    <3>2. \A t \in SUBSET s : t # s => Good(t)
      BY <1>2
    <3>3. Good(s \ {x}) /\ f[x] \in Nat
      BY <3>1, <3>2
    <3>4. G[s] \in Nat
      BY <3>1, <3>3
    <3>5. ASSUME NEW a \in s
          PROVE  G[s] = f[a] + G[s \ {a}]
      <4>1. CASE a = x
        BY <3>1, <4>1
      <4>2. CASE a # x
        <5>1. G[s \ {x}] = f[a] + G[(s \ {x}) \ {a}]
          BY <3>3, <4>2
        <5>2. Good(s \ {a}) /\ x \in s \ {a}
          BY <3>1, <3>2, <4>2
        <5>3. G[s \ {a}] = f[x] + G[(s \ {a}) \ {x}]
          BY <5>2
        <5>4. (s \ {x}) \ {a} = (s \ {a}) \ {x}
          OBVIOUS
        <5>5. /\ f[a] \in Nat /\ f[x] \in Nat
              /\ G[(s \ {a}) \ {x}] \in Nat
          <6>1. (s \ {a}) \ {x} \in SUBSET s /\ (s \ {a}) \ {x} # s
            OBVIOUS
          <6> QED BY <3>1, <3>2, <6>1
        <5> HIDE DEF x
        <5>6. G[s \ {x}] = f[a] + G[(s \ {a}) \ {x}]
          BY <5>1, <5>4
        <5>7. \A k, l, m \in Nat : k + (l + m) = l + (k + m)
          OBVIOUS
        <5> QED BY <3>1, <5>3, <5>5, <5>6, <5>7
      <4> QED BY <4>1, <4>2
    <3> QED BY <3>4, <3>5
  <2> QED BY <2>1, <2>2
<1>3. Bad = {}
  <2>1. \A s \in Bad : IsFiniteSet(s)
    BY FS_Subset
  <2> HIDE DEF Bad
  <2> QED BY <1>2, <2>1, SmallestSet
<1> QED BY <1>3 DEF G

-----------------------------------------------------------------------------
(* The rules with a loop *)

\* Every item the loop has seen let it go on.
Passed ==
    answer = "open" =>
        /\ rule = "supply_consistency" => \A i \in Items \ pending : Balance(i) # None
        /\ rule = "liquidation_threshold" =>
              \A b \in Items \ pending : Healthy(ctx.positions[b])

\* The answer about the positions is that about all of them.
PositionsJudged ==
    rule = "liquidation_threshold" =>
        /\ answer # "error"
        /\ answer = "holds" => \A b \in Items : Healthy(ctx.positions[b])
        /\ answer = "violated" => \E b \in Items : ~Healthy(ctx.positions[b])

SumRules == {"supply_consistency", "loan_collateral_consistency"}

Capped(n) == IF n > MaxWord THEN MaxWord ELSE n

\* The running sum is that of the items seen, unless that is no word.
SumsSoFar ==
    (answer = "open" /\ rule \in SumRules /\ Amounts \in [Items -> Nat])
        => sum = Capped(Sums(Amounts, Items)[Items \ pending])

\* A judged total is that sum, of all the items.
SumsCapped == SumJudged => (answer = "holds" <=> ctx.total = Capped(ExactSum))

IInv == TypeOK /\ Passed /\ PositionsJudged /\ SumsSoFar /\ ErrsIfMissing /\ SumsCapped

LEMMA ItemsFinite == TypeOK => IsFiniteSet(Items)
<1> SUFFICES ASSUME TypeOK PROVE IsFiniteSet(Items)
  OBVIOUS
<1>1. CASE rule = "supply_consistency"
  <2>1. PICK n \in 0 .. MaxHolders : ctx.holders \in [1 .. n -> Parties]
    BY <1>1, InputsOf DEF Lists
  <2>2. n \in Int
    BY <2>1, WordsAssumption
  <2>3. IsFiniteSet(1 .. n)
    BY <2>2, FS_Interval
  <2> QED BY <1>1, <2>1, <2>3 DEF Items, LoanRules
<1>2. CASE rule \in LoanRules
  <2>1. Items \subseteq Parties
    BY <1>2 DEF Items, LoanRules
  <2> QED BY <2>1, WordsAssumption, FS_Subset
<1>3. CASE rule # "supply_consistency" /\ rule \notin LoanRules
  BY <1>3, FS_EmptySet DEF Items
<1> QED BY <1>1, <1>2, <1>3

\* What is added up are words, once the loop has met no missing balance.
LEMMA AmountsAreWords ==
    ASSUME TypeOK,
           \/ rule = "supply_consistency" /\ \A i \in Items : Balance(i) # None
           \/ rule = "loan_collateral_consistency"
    PROVE  Amounts \in [Items -> Nat]
<1>1. CASE rule = "supply_consistency" /\ \A i \in Items : Balance(i) # None
  <2>1. ASSUME NEW i \in Items
        PROVE  Balance(i) \in Words
    <3>1. ctx.holders[i] \in Parties
      BY <1>1, InputsOf DEF Items, LoanRules, Lists
    <3> QED BY <1>1, <3>1, InputsOf DEF Balance, OrNone
  <2> QED BY <1>1, <2>1, WordsAssumption DEF Amounts, Words
<1>2. CASE rule = "loan_collateral_consistency"
  <2>1. ASSUME NEW b \in Items
        PROVE  ctx.positions[b].borrowed \in Words
    <3>1. b \in Parties /\ ctx.positions[b] # None
      BY <1>2 DEF Items, LoanRules
    <3>2. ctx.positions[b] \in Loans
      BY <1>2, <3>1, InputsOf DEF OrNone
    <3> QED BY <3>2 DEF Loans, LoanPositions
  <2> QED BY <1>2, <2>1, WordsAssumption DEF Amounts, Words
<1> QED BY <1>1, <1>2

\* What was read does not change, and with it what is derived from it.
LEMMA ReadStays ==
    ASSUME [Next]_vars
    PROVE  /\ UNCHANGED <<rule, ctx, Items, Amounts>>
           /\ SomethingMissing' = SomethingMissing
           /\ \A i : Balance(i)' = Balance(i)
<1>1. rule' = rule /\ ctx' = ctx
  BY AnswerStays
<1>2. Items' = Items
  BY <1>1 DEF Items, LoanRules
<1>3. \A i : Balance(i)' = Balance(i)
  BY <1>1 DEF Balance
<1>4. Amounts' = Amounts
  BY <1>1, <1>2, <1>3 DEF Amounts
<1>5. SomethingMissing' = SomethingMissing
  BY <1>1, <1>2, <1>3 DEF SomethingMissing
<1> QED BY <1>1, <1>2, <1>3, <1>4, <1>5

LEMMA AnsweredIsDone ==
    ASSUME [Next]_vars, answer # "open"
    PROVE  UNCHANGED vars
BY DEF Next, CheckBalanceGap, CheckConstantProduct, CheckCdpLtv, CheckFeeAccounting, AddHolder,
       NextHolder, SupplyDone, LoanTotalMissing, AddLoan, LoanDone, PassPosition, FailPosition,
       LiquidationDone, Checking, vars

\* A step adds an item, passes a position, or answers.
LEMMA PassedKept ==
    ASSUME TypeOK, Passed, [Next]_vars
    PROVE  Passed'
<1> SUFFICES ASSUME answer' = "open" PROVE Passed'
  BY DEF Passed
<1>1. answer = "open"
  BY AnswerStays
<1>2. /\ rule' = rule /\ ctx' = ctx /\ Items' = Items
      /\ \A i : Balance(i)' = Balance(i)
  BY ReadStays
<1>3. ASSUME NEW i \in pending, AddHolder(i)
      PROVE  Passed'
  <2>1. Balance(i) # None /\ Add(i, Balance(i)) /\ rule = "supply_consistency"
    BY <1>3 DEF AddHolder, NextHolder, Checking, Return
  <2>2. Items' \ pending' \subseteq (Items \ pending) \cup {i}
    BY <1>2, <2>1 DEF Add
  <2> QED BY <1>1, <1>2, <2>1, <2>2 DEF Passed, Balance
<1>4. ASSUME NEW b \in pending, PassPosition(b)
      PROVE  Passed'
  <2>1. Items' \ pending' \subseteq (Items \ pending) \cup {b} /\ Healthy(ctx.positions[b])
    BY <1>2, <1>4 DEF PassPosition
  <2> QED BY <1>1, <1>2, <1>4, <2>1 DEF Passed, PassPosition, Checking
<1>5. ASSUME NEW b \in pending, AddLoan(b)
      PROVE  Passed'
  BY <1>2, <1>5 DEF Passed, AddLoan, Checking
<1>6. ASSUME UNCHANGED vars
      PROVE  Passed'
  BY <1>1, <1>2, <1>6 DEF Passed, vars, Balance
<1> QED BY <1>3, <1>4, <1>5, <1>6
        DEF Next, CheckBalanceGap, CheckConstantProduct, CheckCdpLtv, CheckFeeAccounting,
            SupplyDone, LoanTotalMissing, LoanDone, FailPosition, LiquidationDone, Return, ReturnIf

LEMMA PositionsJudgedKept ==
    ASSUME TypeOK, Passed, PositionsJudged, [Next]_vars
    PROVE  PositionsJudged'
<1>1. rule' = rule /\ ctx' = ctx /\ Items' = Items
  BY ReadStays
<1>2. CASE answer # "open"
  BY <1>1, <1>2, AnsweredIsDone DEF PositionsJudged, vars
<1>3. CASE answer = "open" /\ rule = "liquidation_threshold"
  <2>1. ASSUME NEW b \in pending, FailPosition(b)
        PROVE  PositionsJudged'
    <3>1. b \in Items /\ ~Healthy(ctx.positions[b]) /\ answer' = "violated"
      BY <2>1 DEF FailPosition, Return, TypeOK
    <3> QED BY <1>1, <3>1 DEF PositionsJudged
  <2>2. CASE LiquidationDone
    <3>1. pending = {} /\ answer' = "holds"
      BY <2>2 DEF LiquidationDone, Return
    <3> QED BY <1>1, <1>3, <3>1 DEF PositionsJudged, Passed
  <2>3. CASE answer' = "open"
    BY <2>3 DEF PositionsJudged
  <2> QED BY <1>3, <2>1, <2>2, <2>3
          DEF Next, CheckBalanceGap, CheckConstantProduct, CheckCdpLtv, CheckFeeAccounting,
              AddHolder, NextHolder, SupplyDone, LoanTotalMissing, AddLoan, LoanDone,
              PassPosition, Checking, vars
<1>4. CASE rule # "liquidation_threshold"
  BY <1>1, <1>4 DEF PositionsJudged
<1> QED BY <1>2, <1>3, <1>4

\* Once at the largest word the sum stays there, and below it, it is exact.
LEMMA AddKeepsSum ==
    ASSUME TypeOK, SumsSoFar, [Next]_vars, answer = "open", rule \in SumRules,
           NEW i \in pending, Add(i, Amounts[i])
    PROVE  SumsSoFar'
<1>1. rule' = rule /\ ctx' = ctx /\ Items' = Items /\ Amounts' = Amounts
  BY ReadStays
<1> SUFFICES ASSUME Amounts \in [Items -> Nat]
             PROVE  sum' = Capped(Sums(Amounts, Items)[Items \ pending'])
  BY <1>1 DEF SumsSoFar
<1> DEFINE seen == Items \ pending
           G    == Sums(Amounts, Items)
<1>2. /\ i \in Items /\ i \notin seen
      /\ Items \ pending' = seen \cup {i}
      /\ (seen \cup {i}) \ {i} = seen
  BY DEF TypeOK, Add
<1>3. G[seen] \in Nat /\ G[seen \cup {i}] = Amounts[i] + G[seen]
  <2>1. IsFiniteSet(Items)
    BY ItemsFinite
  <2>2. \A s \in SUBSET Items : G[s] \in Nat /\ \A a \in s : G[s] = Amounts[a] + G[s \ {a}]
    BY <2>1, SumsAdd
  <2> HIDE DEF G
  <2> QED BY <1>2, <2>2
<1>4. sum = Capped(G[seen]) /\ sum' = SaturatingAdd(sum, Amounts[i])
  BY DEF SumsSoFar, Add
<1>5. Amounts[i] \in Nat
  BY <1>2
<1> HIDE DEF G, seen
<1>6. ASSUME NEW n \in Nat, NEW a \in Nat
      PROVE  SaturatingAdd(Capped(n), a) = Capped(a + n)
  BY WordsAssumption DEF SaturatingAdd, Capped
<1>7. sum' = Capped(G[Items \ pending'])
  BY <1>2, <1>3, <1>4, <1>5, <1>6
<1> QED BY <1>7 DEF G

LEMMA SumsSoFarKept ==
    ASSUME TypeOK, SumsSoFar, [Next]_vars
    PROVE  SumsSoFar'
<1>1. rule' = rule /\ ctx' = ctx /\ Items' = Items /\ Amounts' = Amounts
  BY ReadStays
<1>2. CASE answer' # "open" \/ rule \notin SumRules
  BY <1>1, <1>2 DEF SumsSoFar
<1>3. CASE answer' = "open" /\ rule \in SumRules
  <2>1. answer = "open"
    BY <1>3, AnswerStays
  <2>2. ASSUME NEW i \in pending, AddHolder(i)
        PROVE  SumsSoFar'
    <3>1. Balance(i) # None /\ Add(i, Balance(i)) /\ rule = "supply_consistency"
      BY <1>3, <2>2 DEF AddHolder, NextHolder, Checking, Return
    <3>2. i \in Items /\ Amounts[i] = Balance(i)
      BY <3>1 DEF Amounts, TypeOK
    <3> QED BY <1>3, <2>1, <3>1, <3>2, AddKeepsSum
  <2>3. ASSUME NEW b \in pending, AddLoan(b)
        PROVE  SumsSoFar'
    <3>1. Add(b, ctx.positions[b].borrowed) /\ rule = "loan_collateral_consistency"
      BY <2>3 DEF AddLoan, Checking
    <3>2. b \in Items /\ Amounts[b] = ctx.positions[b].borrowed
      BY <3>1 DEF Amounts, TypeOK
    <3> QED BY <1>3, <2>1, <3>1, <3>2, AddKeepsSum
  <2>4. ASSUME UNCHANGED vars
        PROVE  SumsSoFar'
    BY <1>1, <2>4 DEF SumsSoFar, vars
  <2> QED BY <1>3, <2>2, <2>3, <2>4
          DEF Next, CheckBalanceGap, CheckConstantProduct, CheckCdpLtv, CheckFeeAccounting,
              SupplyDone, LoanTotalMissing, LoanDone, PassPosition, FailPosition,
              LiquidationDone, Checking, Return, ReturnIf, SumRules
<1> QED BY <1>2, <1>3

LEMMA ErrsKept ==
    ASSUME TypeOK, Passed, PositionsJudged, ErrsIfMissing, [Next]_vars
    PROVE  ErrsIfMissing'
<1>1. rule' = rule /\ ctx' = ctx /\ SomethingMissing' = SomethingMissing
  BY ReadStays
<1>2. CASE answer # "open"
  <2>1. answer' = answer
    BY <1>2, AnsweredIsDone DEF vars
  <2> QED BY <1>1, <1>2, <2>1 DEF ErrsIfMissing
<1>3. CASE answer = "open" /\ answer' # "open"
  <2> SUFFICES answer' = "error" <=> SomethingMissing
    BY <1>1 DEF ErrsIfMissing
  <2>1. CASE CheckBalanceGap
    BY <2>1 DEF CheckBalanceGap, Checking, Return, ReturnIf, SomethingMissing
  <2>2. CASE CheckConstantProduct
    BY <2>2 DEF CheckConstantProduct, Checking, Return, ReturnIf, SomethingMissing
  <2>3. CASE CheckCdpLtv
    BY <2>3 DEF CheckCdpLtv, Checking, Return, ReturnIf, SomethingMissing
  <2>4. CASE CheckFeeAccounting
    BY <2>4 DEF CheckFeeAccounting, Checking, Return, ReturnIf, SomethingMissing
  <2>5. ASSUME NEW i \in pending, AddHolder(i)
        PROVE  answer' = "error" <=> SomethingMissing
    <3>1. Balance(i) = None /\ answer' = "error" /\ rule = "supply_consistency" /\ i \in Items
      BY <1>3, <2>5 DEF AddHolder, NextHolder, Checking, Return, Add, TypeOK
    <3> QED BY <3>1 DEF SomethingMissing
  <2>6. CASE SupplyDone
    <3>1. /\ rule = "supply_consistency"
          /\ answer' = "error" <=> ctx.total = None
      BY <2>6 DEF SupplyDone, Checking, Return, ReturnIf
    <3>2. \A i \in Items : Balance(i) # None
      BY <1>3, <2>6 DEF SupplyDone, Checking, Passed
    <3> QED BY <3>1, <3>2 DEF SomethingMissing
  <2>7. CASE LoanTotalMissing \/ LoanDone
    BY <2>7 DEF LoanTotalMissing, LoanDone, Checking, Return, ReturnIf, SomethingMissing
  <2>8. CASE rule = "liquidation_threshold"
    <3>1. answer' # "error"
      BY <1>1, <2>8, PositionsJudgedKept DEF PositionsJudged
    <3> QED BY <2>8, <3>1 DEF SomethingMissing
  <2>9. ASSUME NEW b \in pending, AddLoan(b)
        PROVE  FALSE
    BY <1>3, <2>9 DEF AddLoan, Add
  <2> QED BY <1>3, <2>1, <2>2, <2>3, <2>4, <2>5, <2>6, <2>7, <2>8, <2>9
          DEF Next, PassPosition, FailPosition, LiquidationDone, Checking, vars
<1>4. CASE answer' = "open"
  BY <1>4 DEF ErrsIfMissing
<1> QED BY <1>2, <1>3, <1>4

\* When nothing is left to see, the running sum is the sum.
LEMMA SumWhenDone ==
    ASSUME TypeOK, Passed, SumsSoFar, answer = "open", rule \in SumRules, pending = {}
    PROVE  sum = Capped(ExactSum)
<1>1. Amounts \in [Items -> Nat]
  BY AmountsAreWords DEF Passed, SumRules
<1>2. Items \ pending = Items
  OBVIOUS
<1>3. sum = Capped(Sums(Amounts, Items)[Items])
  BY <1>1, <1>2 DEF SumsSoFar
<1> QED BY <1>3, SumIsLast DEF ExactSum

LEMMA SumsCappedKept ==
    ASSUME TypeOK, Passed, SumsSoFar, SumsCapped, [Next]_vars
    PROVE  SumsCapped'
<1>1. rule' = rule /\ ctx' = ctx /\ Items' = Items /\ Amounts' = Amounts
  BY ReadStays
<1>2. ExactSum' = ExactSum
  BY <1>1 DEF ExactSum
<1>3. CASE answer # "open"
  <2>1. answer' = answer
    BY <1>3, AnsweredIsDone DEF vars
  <2> QED BY <1>1, <1>2, <2>1 DEF SumsCapped, SumJudged
<1>4. CASE answer = "open" /\ rule \in SumRules /\ answer' \in {"holds", "violated"}
  <2>1. SupplyDone \/ LoanDone
    BY <1>4 DEF Next, CheckBalanceGap, CheckConstantProduct, CheckCdpLtv, CheckFeeAccounting,
                AddHolder, NextHolder, LoanTotalMissing, AddLoan, Add, PassPosition,
                FailPosition, LiquidationDone, Checking, Return, SumRules, vars
  <2>2. sum = Capped(ExactSum)
    BY <1>4, <2>1, SumWhenDone DEF SupplyDone, LoanDone
  <2>3. answer' = "holds" <=> ctx.total = sum
    BY <1>4, <2>1 DEF SupplyDone, LoanDone, Return, ReturnIf
  <2> QED BY <1>1, <1>2, <2>2, <2>3 DEF SumsCapped, SumJudged
<1>5. CASE rule \notin SumRules \/ answer' \notin {"holds", "violated"}
  BY <1>1, <1>5 DEF SumsCapped, SumJudged, SumRules
<1> QED BY <1>1, <1>3, <1>4, <1>5

LEMMA Invariance == Spec => []IInv
<1>1. Init => IInv
  <2> SUFFICES ASSUME Init PROVE IInv
    OBVIOUS
  <2>1. TypeOK
    BY WordsAssumption DEF Init, TypeOK, Words
  <2>2. Passed /\ PositionsJudged /\ ErrsIfMissing /\ SumsCapped
    BY DEF Init, Passed, PositionsJudged, ErrsIfMissing, SumsCapped, SumJudged
  <2>3. SumsSoFar
    <3> SUFFICES ASSUME Amounts \in [Items -> Nat]
                 PROVE  sum = Capped(Sums(Amounts, Items)[{}])
      <4>1. Items \ pending = {}
        BY DEF Init
      <4> QED BY <4>1 DEF SumsSoFar
    <3>1. \A s \in SUBSET Items :
             Sums(Amounts, Items)[s] = SumStep(Amounts, Sums(Amounts, Items), s)
      BY <2>1, ItemsFinite, SumsDefined
    <3>2. Sums(Amounts, Items)[{}] = 0
      BY <3>1 DEF SumStep
    <3> QED BY <3>2, WordsAssumption DEF Init, Capped
  <2> QED BY <2>1, <2>2, <2>3 DEF IInv
<1>2. IInv /\ [Next]_vars => IInv'
  BY NextKeeps, PassedKept, PositionsJudgedKept, SumsSoFarKept, ErrsKept, SumsCappedKept
     DEF IInv
<1> QED BY <1>1, <1>2, PTL DEF Spec

\* A rule errs exactly if it reads something that is not there.
THEOREM ErrsExactlyIfMissing == Spec => []ErrsIfMissing
BY Invariance, PTL DEF IInv

\* A rule that adds up has judged only what was there: words, with a sum.
LEMMA JudgedSum ==
    ASSUME IInv, SumJudged
    PROVE  ctx.total \in Words /\ ExactSum \in Nat
<1>1. rule \in SumRules /\ ~SomethingMissing
  BY DEF IInv, ErrsIfMissing, SumJudged, SumRules
<1>2. ctx.total \in Words
  BY <1>1, InputsOf DEF IInv, OrNone, SumRules, SomethingMissing
<1>3. Amounts \in [Items -> Nat]
  BY <1>1, AmountsAreWords DEF IInv, SumRules, SomethingMissing
<1>4. Sums(Amounts, Items)[Items] \in Nat
  BY <1>3, ItemsFinite, SumsAdd DEF IInv
<1> QED BY <1>2, <1>4, SumIsLast DEF ExactSum

\* The rules that add up compare the total with the exact sum of the items,
\* in whatever order they came.  A sum that is no word is told from every
\* total but the largest word: that is all the saturation loses.
THEOREM SumsDecided == Spec => []SumsExact
<1>1. IInv => SumsExact
  <2> SUFFICES ASSUME IInv, SumJudged, ctx.total # MaxWord \/ ExactSum <= MaxWord
               PROVE  answer = "holds" <=> ctx.total = ExactSum
    BY DEF SumsExact
  <2>1. answer = "holds" <=> ctx.total = Capped(ExactSum)
    BY DEF IInv, SumsCapped
  <2>2. ctx.total <= MaxWord /\ ExactSum \in Nat /\ MaxWord \in Nat
    BY JudgedSum, WordsAssumption DEF Words
  <2>3. CASE ExactSum <= MaxWord
    BY <2>1, <2>2, <2>3 DEF Capped
  <2>4. CASE ExactSum > MaxWord
    BY <2>1, <2>2, <2>4 DEF Capped
  <2> QED BY <2>2, <2>3, <2>4
<1> QED BY <1>1, Invariance, PTL

\* If no product overflows, the positions hold together exactly if each is
\* within its threshold.
THEOREM LiquidationDecided == Spec => []LiquidationExact
<1>1. IInv => LiquidationExact
  <2> SUFFICES ASSUME IInv, rule = "liquidation_threshold", AllPositions(Fits),
                      answer \in {"holds", "violated"}
               PROVE  answer = "holds" <=> AllPositions(ExactlyWithin)
    BY DEF LiquidationExact, Decides
  <2>1. ASSUME NEW b \in Items
        PROVE  LET p == ctx.positions[b]
               IN  Healthy(p) <=> ExactlyWithin(p.borrowed, p.collateral,
                                                p.liquidation_threshold_bps)
    <3> DEFINE p == ctx.positions[b]
    <3>1. b \in Parties /\ p # None
      BY DEF Items, LoanRules
    <3>2. p \in LoanPositions
      BY <3>1, InputsOf DEF IInv, OrNone
    <3>3. Fits(p.borrowed, p.collateral, p.liquidation_threshold_bps)
      BY DEF AllPositions
    <3> HIDE DEF p
    <3>4. p.borrowed \in Words /\ p.collateral \in Words /\ p.liquidation_threshold_bps \in Words
      BY <3>2, WordsAssumption DEF LoanPositions
    <3>5. Healthy(p) <=> ExactlyWithin(p.borrowed, p.collateral, p.liquidation_threshold_bps)
      BY <3>3, <3>4, WithinExactly DEF Healthy
    <3> QED BY <3>5 DEF p
  <2>2. answer = "holds" <=> \A b \in Items : Healthy(ctx.positions[b])
    BY DEF IInv, PositionsJudged
  <2> QED BY <2>1, <2>2 DEF AllPositions
<1> QED BY <1>1, Invariance, PTL

=============================================================================

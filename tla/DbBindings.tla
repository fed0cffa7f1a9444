----------------------------- MODULE DbBindings -----------------------------
(***************************************************************************)
(* DbInvariantBindings::evaluate of crates/invariant-rules/src/bindings.rs *)
(* and CompositeInvariant::evaluate of rules.rs: the bindings say where in *)
(* a database the values are that the rules judge.  A step is an iteration *)
(* of a loop: prices come first, then the other eight lists of bindings,   *)
(* then the rules, in their order, up to the first that does not hold.     *)
(*                                                                         *)
(* The eight lists are one sequence: none reads what another extracted.    *)
(* An entry is a HashMap of the context with a key of it.  What a binding  *)
(* copies to the context (the liquidation thresholds) is left out.  Rules  *)
(* of two types stand for all of them; InvariantRules has their checks.    *)
(* Keccak has no collisions: a hashed slot is the pair of words it is of.  *)
(***************************************************************************)
EXTENDS Integers, Sequences

CONSTANTS
    WordBits,        \* the 256 bits of a word
    Contracts, Slots, Keys, Assets, Entries,
    PriceBindings,   \* the prices and
    Bindings,        \*   the bindings a caller may list
    MaxPrices,       \* bounds: how many it lists of each
    MaxBindings,
    Rules,           \* the rules of the composite, in order
    Replies,         \* external: the words a getReserves may answer
    None,            \* Option::None
    Err              \* Result::Err

Words   == 0 .. (2^WordBits - 1)
MaxWord == 2^WordBits - 1

DbFields ==
    [kind : {"RawSlot"}, contract : Contracts, slot : Slots]
    \cup [kind : {"RawBits"}, contract : Contracts, slot : Slots,
          offset_bits : Nat, width_bits : Nat]
    \cup [kind : {"Mapping"}, contract : Contracts, key : Keys, mapping_slot : Slots,
          layout : {"Solidity", "Vyper"}]
    \cup [kind : {"GetReservesWord"}, contract : Contracts, word_index : Nat]

BalanceGapRules      == [name : {"balance_gap"}, balance : Entries, reserve : Entries]
ConstantProductRules == [name : {"constant_product"}, reserves : Entries, baseline_k : Words]

ASSUME BindingsAssumption ==
    /\ WordBits \in Nat \ {0}
    /\ MaxPrices \in Nat /\ MaxBindings \in Nat
    /\ PriceBindings \subseteq [asset : Assets, price : Words]
    /\ Bindings \subseteq [entry : Entries, fields : Seq(DbFields),
                           assets : Seq(Assets \cup {None})]
    /\ \A b \in Bindings : DOMAIN b.assets = DOMAIN b.fields
    /\ Rules \in Seq(BalanceGapRules \cup ConstantProductRules)
    /\ Replies \subseteq Seq(Words)
    /\ None \notin Assets
    /\ Err \notin Words /\ Err \notin Seq(Words)

VARIABLES
    reply,        \* external: contract -> what its getReserves answers
    db,           \* contract -> the slots that are in the database
    prices,       \* DbInvariantBindings.prices
    bindings,     \*   and its other lists
    priced,       \* prices set
    extracted,    \* bindings extracted
    checked,      \* rules that held
    ctx_prices,   \* the InvariantContext: asset -> price
    ctx_values,   \*   and entry -> the words extracted for it
    answer        \* "open" until evaluate returns

given == <<reply, db, prices, bindings>>
ctx   == <<ctx_prices, ctx_values>>
vars  == <<given, priced, extracted, checked, ctx, answer>>

MapsOf(K, V)  == UNION {[S -> V] : S \in SUBSET K}
Lists(S, max) == UNION {[1 .. n -> S] : n \in 0 .. max}
EmptyMap      == [k \in {} |-> k]

TypeOK ==
    /\ reply \in [Contracts -> Replies \cup {Err}]
    /\ db \in [Contracts -> MapsOf(Slots, Words)]
    /\ prices \in Lists(PriceBindings, MaxPrices) /\ bindings \in Lists(Bindings, MaxBindings)
    /\ priced \in 0 .. Len(prices)
    /\ extracted \in 0 .. Len(bindings)
    /\ checked \in 0 .. Len(Rules)
    /\ ctx_prices \in MapsOf(Assets, Words)
    /\ DOMAIN ctx_values \subseteq Entries
    /\ \A e \in DOMAIN ctx_values : ctx_values[e] \in Seq(Words)
    /\ answer \in {"open", "holds", "violated", "error"}

Init ==
    /\ reply \in [Contracts -> Replies \cup {Err}]
    /\ db \in [Contracts -> MapsOf(Slots, Words)]
    /\ prices \in Lists(PriceBindings, MaxPrices) /\ bindings \in Lists(Bindings, MaxBindings)
    /\ priced = 0 /\ extracted = 0 /\ checked = 0
    /\ ctx_prices = EmptyMap /\ ctx_values = EmptyMap
    /\ answer = "open"

\* Mutant of Insert: an entry that is there is kept.
InsertIfAbsent(map, k, v) ==
    [j \in DOMAIN map \cup {k} |-> IF j \in DOMAIN map THEN map[j] ELSE v]

\* HashMap::insert
Insert(map, k, v) == [j \in DOMAIN map \cup {k} |-> IF j = k THEN v ELSE map[j]]

-----------------------------------------------------------------------------
(* Reading a field *)

\* A slot that was never loaded is zero.
ReadRawSlot(d, c, s) == IF s \in DOMAIN d[c] THEN d[c][s] ELSE 0

\* Mutant of ExtractBits: the mask is for the low bits of the word.
MaskThenShift(raw, offset, width) == (raw % 2^width) \div 2^offset

\* A shift by the width of a word or more leaves nothing.
ExtractBits(raw, offset, width) ==
    LET shifted == IF offset >= WordBits THEN 0 ELSE raw \div 2^offset
    IN  IF width >= WordBits THEN shifted ELSE shifted % 2^width

MappingSlotKey(key, slot, layout) ==
    IF layout = "Solidity" THEN <<key, slot>> ELSE <<slot, key>>

\* What a contract's code computes is not known, and need not be what its
\* slots hold; without code the call succeeds and answers nothing.  It is
\* committed to a clone that is dropped, so every call finds the database
\* evaluate was given and answers the same.  A reply of Err is an EVM error, a
\* revert or a halt; one that is too short is an error of the word asked for.
ReadGetReservesWord(c, index) ==
    IF reply[c] = Err \/ index >= Len(reply[c]) THEN Err ELSE reply[c][index + 1]

ReadDbField(d, f) ==
    CASE f.kind = "RawSlot" -> ReadRawSlot(d, f.contract, f.slot)
      [] f.kind = "RawBits" -> ExtractBits(ReadRawSlot(d, f.contract, f.slot),
                                           f.offset_bits, f.width_bits)
      [] f.kind = "Mapping" -> ReadRawSlot(d, f.contract,
                                           MappingSlotKey(f.key, f.mapping_slot, f.layout))
      [] f.kind = "GetReservesWord" -> ReadGetReservesWord(f.contract, f.word_index)

-----------------------------------------------------------------------------
(* extract_context *)

\* Mutants of SaturatingMul and MultiplyByPrice: no bound; an asset without
\* a price is worth what it counts.
UncheckedMul(x, y) == x * y

SaturatingMul(x, y) == IF x * y > MaxWord THEN MaxWord ELSE x * y

MultiplyByKnownPrice(raw, asset) ==
    IF raw = Err \/ asset \notin DOMAIN ctx_prices THEN raw
    ELSE SaturatingMul(raw, ctx_prices[asset])

MultiplyByPrice(raw, asset) ==
    IF raw = Err \/ asset = None THEN raw
    ELSE IF asset \in DOMAIN ctx_prices THEN SaturatingMul(raw, ctx_prices[asset]) ELSE Err

Values(b) == [i \in DOMAIN b.fields |-> MultiplyByPrice(ReadDbField(db, b.fields[i]), b.assets[i])]
Fails(b)  == \E i \in DOMAIN b.fields : Values(b)[i] = Err

ExtractPrice ==
    /\ answer = "open" /\ priced < Len(prices)
    /\ LET p == prices[priced + 1] IN ctx_prices' = Insert(ctx_prices, p.asset, p.price)
    /\ priced' = priced + 1
    /\ UNCHANGED <<given, extracted, checked, ctx_values, answer>>

Extracting == answer = "open" /\ priced = Len(prices) /\ extracted < Len(bindings)

ExtractBinding ==
    /\ Extracting
    /\ LET b == bindings[extracted + 1]
       IN  ~Fails(b) /\ ctx_values' = Insert(ctx_values, b.entry, Values(b))
    /\ extracted' = extracted + 1
    /\ UNCHANGED <<given, priced, checked, ctx_prices, answer>>

\* The ? operator gives up the context and all it holds.
ExtractionFails ==
    /\ Extracting /\ Fails(bindings[extracted + 1])
    /\ answer' = "error"
    /\ UNCHANGED <<given, priced, extracted, checked, ctx>>

-----------------------------------------------------------------------------
(* CompositeInvariant::evaluate *)

AllExtracted == answer = "open" /\ priced = Len(prices) /\ extracted = Len(bindings)

Checking(rule) == AllExtracted /\ checked < Len(Rules) /\ rule = Rules[checked + 1]

Needs(rule) == IF rule.name = "balance_gap" THEN {rule.balance, rule.reserve} ELSE {rule.reserves}

\* What a rule answers if value is what the entries hold.
Holds(rule, value) ==
    IF rule.name = "balance_gap"
    THEN value[rule.balance][1] >= value[rule.reserve][1]
    ELSE SaturatingMul(value[rule.reserves][1], value[rule.reserves][2]) >= rule.baseline_k

Missing(rule) == ~(Needs(rule) \subseteq DOMAIN ctx_values)

Return(result) ==
    /\ answer' = result
    /\ UNCHANGED <<given, priced, extracted, checked, ctx>>

Proceed == checked' = checked + 1 /\ UNCHANGED <<given, priced, extracted, ctx, answer>>

\* Mutant of RuleHolds: the last rule decides.
LastDecides(rule) ==
    /\ Checking(rule) /\ ~Missing(rule)
    /\ Holds(rule, ctx_values) \/ checked + 1 < Len(Rules)
    /\ Proceed

RuleHolds(rule)    == Checking(rule) /\ ~Missing(rule) /\ Holds(rule, ctx_values) /\ Proceed
RuleViolated(rule) == Checking(rule) /\ ~Missing(rule) /\ ~Holds(rule, ctx_values) /\ Return("violated")
RuleErrs(rule)     == Checking(rule) /\ Missing(rule) /\ Return("error")
AllHold            == AllExtracted /\ checked = Len(Rules) /\ Return("holds")

Next ==
    \/ ExtractPrice
    \/ ExtractBinding
    \/ ExtractionFails
    \/ \E k \in DOMAIN Rules : RuleHolds(Rules[k])
    \/ \E k \in DOMAIN Rules : RuleViolated(Rules[k])
    \/ \E k \in DOMAIN Rules : RuleErrs(Rules[k])
    \/ AllHold

Spec == Init /\ [][Next]_vars

-----------------------------------------------------------------------------
(* Properties *)

\* Until evaluate returns, the context is what the last binding of each
\* entry says: read from the database evaluate was given and multiplied by
\* the final price of its asset, wherever in the lists that price is.
\* (bindings.rs, extract_context)
LastPrice(i)   == \A j \in (i + 1) .. priced : prices[j].asset # prices[i].asset
LastBinding(i) == \A j \in (i + 1) .. extracted : bindings[j].entry # bindings[i].entry

ContextOfLastBindings ==
    /\ DOMAIN ctx_prices = {prices[i].asset : i \in 1 .. priced}
    /\ DOMAIN ctx_values = {bindings[i].entry : i \in 1 .. extracted}
    /\ \A i \in 1 .. priced :
          LastPrice(i) => ctx_prices[prices[i].asset] = prices[i].price
    /\ \A i \in 1 .. extracted :
          LastBinding(i) => ctx_values[bindings[i].entry] = Values(bindings[i])

\* A pair of fields that splits a slot in two gives back the slot: no bit is
\* lost, doubled or moved, wherever the slot is split.  (bindings.rs:326)
Splits(lo, hi) ==
    /\ lo.kind = "RawBits" /\ hi.kind = "RawBits"
    /\ lo.contract = hi.contract /\ lo.slot = hi.slot
    /\ lo.offset_bits = 0 /\ hi.offset_bits = lo.width_bits
    /\ hi.offset_bits + hi.width_bits >= WordBits

PackedFieldsRecombine ==
    \A i \in 1 .. extracted :
        LET b  == bindings[i]
            lo == b.fields[1]
            hi == b.fields[2]
        IN  (/\ LastBinding(i)
             /\ Len(b.fields) = 2 /\ b.assets = <<None, None>> /\ Splits(lo, hi))
            => ctx_values[b.entry][1] + ctx_values[b.entry][2] * 2^lo.width_bits
                  = ReadRawSlot(db, lo.contract, lo.slot)

\* evaluate errs exactly if a call it was told to make gave no such word, an
\* amount is of an asset that has no price, or the first rule that does not
\* hold is about an entry nobody bound.  Nothing else counts as missing, a
\* slot that was never loaded least of all.  (bindings.rs, evaluate)
NoWord(f)   ==
    /\ f.kind = "GetReservesWord"
    /\ reply[f.contract] = Err \/ f.word_index >= Len(reply[f.contract])
NoPrice(a)  == a # None /\ a \notin {prices[i].asset : i \in DOMAIN prices}
Unusable(b) == \E k \in DOMAIN b.fields : NoWord(b.fields[k]) \/ NoPrice(b.assets[k])
Unbound(k)  == ~(Needs(Rules[k]) \subseteq {bindings[i].entry : i \in DOMAIN bindings})

ErrsOnlyIfUnbound ==
    answer # "open" =>
        (answer = "error" <=> \/ \E i \in DOMAIN bindings : Unusable(bindings[i])
                              \/ checked < Len(Rules) /\ Unbound(checked + 1))

\* The verdict is that of the first rule, in their order, that does not hold
\* of the database: every rule before it was checked and holds, also if a
\* later one is violated or misses its values.  (rules.rs, CompositeInvariant)
Index(e)   == CHOOSE i \in 1 .. extracted :
                 bindings[i].entry = e /\ LastBinding(i)
OfTheDb(k) == [e \in Needs(Rules[k]) |-> Values(bindings[Index(e)])]

FirstFailureDecides ==
    /\ \A k \in 1 .. checked : ~Unbound(k) /\ Holds(Rules[k], OfTheDb(k))
    /\ answer = "holds" => checked = Len(Rules)
    /\ answer = "violated" =>
          /\ checked < Len(Rules) /\ ~Unbound(checked + 1)
          /\ ~Holds(Rules[checked + 1], OfTheDb(checked + 1))
=============================================================================

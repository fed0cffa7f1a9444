-------------------------- MODULE DbBindingsProofs --------------------------
(***************************************************************************)
(* Proofs about DbBindings, for every list of prices, bindings and rules.  *)
(***************************************************************************)
EXTENDS DbBindings, FiniteSetTheorems, SequenceTheorems, TLAPS

-----------------------------------------------------------------------------
(* Powers of two, which are the numbers of subsets *)

LEMMA SubsetsOfInterval ==
    ASSUME NEW m \in Nat, NEW n \in Nat
    PROVE  /\ IsFiniteSet(SUBSET ((m + 1) .. (m + n)))
           /\ Cardinality(SUBSET ((m + 1) .. (m + n))) = 2^n
  <1>. DEFINE a == m + 1
              b == m + n
  <1>1. a \in Int /\ b \in Int /\ (IF a > b THEN 0 ELSE b - a + 1) = n
    OBVIOUS
  <1>. HIDE DEF a, b
  <1>2. IsFiniteSet(a .. b) /\ Cardinality(a .. b) = n
    BY <1>1, FS_Interval
  <1>3. IsFiniteSet(SUBSET (a .. b)) /\ Cardinality(SUBSET (a .. b)) = 2^n
    BY <1>2, FS_SUBSET
  <1>. QED BY <1>3 DEF a, b

LEMMA PowerPositive ==
    ASSUME NEW n \in Nat
    PROVE  2^n \in Nat \ {0}
  <1>. DEFINE S == SUBSET ((0 + 1) .. (0 + n))
  <1>1. IsFiniteSet(S) /\ Cardinality(S) = 2^n /\ S # {}
    BY SubsetsOfInterval
  <1>. HIDE DEF S
  <1>. QED BY <1>1, FS_CardinalityType, FS_EmptySet

\* A subset of two disjoint sets is a pair of subsets.
LEMMA PowerOfSum ==
    ASSUME NEW m \in Nat, NEW n \in Nat
    PROVE  2^(m + n) = 2^m * 2^n
  <1>. DEFINE A == (0 + 1) .. (0 + m)
              B == (m + 1) .. (m + n)
              C == (0 + 1) .. (0 + (m + n))
              P == (SUBSET A) \X (SUBSET B)
              f == [p \in P |-> p[1] \cup p[2]]
  <1>1. /\ IsFiniteSet(SUBSET A) /\ Cardinality(SUBSET A) = 2^m
        /\ IsFiniteSet(SUBSET B) /\ Cardinality(SUBSET B) = 2^n
        /\ Cardinality(SUBSET C) = 2^(m + n)
    <2>1. m + n \in Nat /\ 0 \in Nat
      OBVIOUS
    <2>2. IsFiniteSet(SUBSET A) /\ Cardinality(SUBSET A) = 2^m
      BY <2>1, SubsetsOfInterval
    <2>3. IsFiniteSet(SUBSET B) /\ Cardinality(SUBSET B) = 2^n
      BY SubsetsOfInterval
    <2>4. Cardinality(SUBSET C) = 2^(m + n)
      BY <2>1, SubsetsOfInterval
    <2>. QED BY <2>2, <2>3, <2>4
  <1>2. C = A \cup B /\ A \cap B = {}
    OBVIOUS
  <1>. HIDE DEF A, B, C
  <1>3. IsFiniteSet(P) /\ Cardinality(P) = 2^m * 2^n
    BY <1>1, FS_Product
  <1>4. f \in Bijection(P, SUBSET C)
    <2>1. f \in [P -> SUBSET C]
      BY <1>2
    <2>2. ASSUME NEW p \in P, NEW q \in P, f[p] = f[q] PROVE p = q
      <3>1. p[1] \cup p[2] = q[1] \cup q[2]
        BY <2>2
      <3>2. p[1] = q[1]
        BY <1>2, <3>1
      <3>3. p[2] = q[2]
        BY <1>2, <3>1
      <3>. QED BY <3>2, <3>3
    <2>3. ASSUME NEW c \in SUBSET C PROVE \E p \in P : f[p] = c
      <3>1. <<c \cap A, c \cap B>> \in P
        OBVIOUS
      <3>2. f[<<c \cap A, c \cap B>>] = c
        BY <1>2, <3>1
      <3>. QED BY <3>1, <3>2
    <2>. QED BY <2>1, <2>2, <2>3 DEF Bijection, Injection, Surjection, IsInjective
  <1>5. Cardinality(SUBSET C) = Cardinality(P)
    BY <1>3, <1>4, FS_Bijection DEF ExistsBijection
  <1>. QED BY <1>1, <1>3, <1>5

-----------------------------------------------------------------------------
(* What a field yields *)

\* Zero is a word, and a word is a natural number below 2^WordBits.
LEMMA WordFacts ==
    /\ 2^WordBits \in Nat \ {0}
    /\ 0 \in Words /\ MaxWord \in Words
    /\ \A w : w \in Words <=> w \in Nat /\ w < 2^WordBits
    /\ Err \notin Words
  <1>1. 2^WordBits \in Nat \ {0}
    BY BindingsAssumption, PowerPositive
  <1>2. Words = 0 .. (2^WordBits - 1) /\ MaxWord = 2^WordBits - 1
    BY DEF Words, MaxWord
  <1>. QED
    <2>. DEFINE p == 2^WordBits
    <2>1. p \in Nat \ {0} /\ Words = 0 .. (p - 1) /\ MaxWord = p - 1
      BY <1>1, <1>2
    <2>. HIDE DEF p
    <2>2. 0 \in Words /\ MaxWord \in Words /\ \A w : w \in Words <=> w \in Nat /\ w < p
      BY <2>1
    <2>. QED BY <1>1, <2>2, BindingsAssumption DEF p

\* A stored word or the zero of an absent one.
LEMMA RawSlotIsWord ==
    ASSUME NEW d \in [Contracts -> MapsOf(Slots, Words)], NEW c \in Contracts, NEW s
    PROVE  ReadRawSlot(d, c, s) \in Words
  <1>1. d[c] \in MapsOf(Slots, Words)
    OBVIOUS
  <1>2. PICK S \in SUBSET Slots : d[c] \in [S -> Words]
    BY <1>1 DEF MapsOf
  <1>. QED BY <1>2, WordFacts DEF ReadRawSlot

\* Bits of a word are a word.
LEMMA BitsAreWord ==
    ASSUME NEW raw \in Words, NEW offset \in Nat, NEW width \in Nat
    PROVE  ExtractBits(raw, offset, width) \in Words
  <1>. DEFINE shifted == IF offset >= WordBits THEN 0 ELSE raw \div 2^offset
  <1>1. shifted \in Nat /\ shifted <= raw
    <2>1. CASE offset >= WordBits
      BY <2>1, WordFacts
    <2>2. CASE ~(offset >= WordBits)
      <3>. DEFINE p == 2^offset
      <3>2. p \in Nat \ {0}
        BY PowerPositive
      <3>. HIDE DEF p
      <3>3. raw \in Nat
        BY WordFacts
      <3>4. raw \div p \in Nat /\ raw \div p <= raw
        BY <3>2, <3>3, Z3
      <3>. QED BY <2>2, <3>4 DEF p
    <2>. QED BY <2>1, <2>2
  <1>2. CASE width >= WordBits
    <2>1. ExtractBits(raw, offset, width) = shifted
      BY <1>2 DEF ExtractBits
    <2>. HIDE DEF shifted
    <2>. QED BY <1>1, <2>1, WordFacts
  <1>3. CASE ~(width >= WordBits)
    <2>. DEFINE q == 2^width
    <2>2. q \in Nat \ {0}
      BY PowerPositive
    <2>3. ExtractBits(raw, offset, width) = shifted % q
      BY <1>3 DEF ExtractBits
    <2>. HIDE DEF q, shifted
    <2>4. shifted % q \in Nat /\ shifted % q <= shifted
      BY <1>1, <2>2, Z3
    <2>5. \A p \in Nat : raw < p /\ raw \in Nat => shifted % q < p
      BY <1>1, <2>4
    <2>. QED BY <2>3, <2>4, <2>5, WordFacts
  <1>. QED BY <1>2, <1>3

\* The bits below k and the bits from k up are the word they were taken from.
LEMMA SplitWord ==
    ASSUME NEW raw \in Words, NEW k \in Nat, NEW width \in Nat, k + width >= WordBits
    PROVE  ExtractBits(raw, 0, k) + ExtractBits(raw, k, width) * 2^k = raw
  <1>. DEFINE p == 2^k
              q == 2^width
              all == 2^WordBits
  <1>1. /\ p \in Nat \ {0} /\ q \in Nat \ {0} /\ all \in Nat \ {0}
        /\ raw \in Nat /\ raw < all /\ WordBits \in Nat \ {0}
    BY BindingsAssumption, PowerPositive, WordFacts
  <1>2. all <= p * q
    <2>. DEFINE d == k + width - WordBits
    <2>1. d \in Nat /\ k + width = WordBits + d
      BY <1>1
    <2>. HIDE DEF d
    <2>2. 2^(k + width) = p * q /\ 2^(WordBits + d) = all * 2^d
      BY <1>1, <2>1, PowerOfSum
    <2>3. 2^d \in Nat \ {0}
      BY <2>1, PowerPositive
    <2>. HIDE DEF p, q, all
    <2>4. \A e \in Nat \ {0} : all * e >= all
      BY <1>1
    <2>. QED BY <2>1, <2>2, <2>3, <2>4
  <1>3. raw \div 2^0 = raw
    <2>1. 2^0 = 1
      OBVIOUS
    <2>. QED BY <1>1, <2>1
  <1>4. ExtractBits(raw, 0, k) = IF k >= WordBits THEN raw ELSE raw % p
    BY <1>1, <1>3 DEF ExtractBits
  <1>5. CASE k >= WordBits
    <2>1. 0 % q = 0 /\ 0 * p = 0
      BY <1>1
    <2>2. ExtractBits(raw, k, width) = 0
      BY <1>5, <2>1 DEF ExtractBits
    <2>. QED BY <1>1, <1>4, <1>5, <2>1, <2>2
  <1>6. CASE ~(k >= WordBits)
    <2>. DEFINE high == raw \div p
    <2>1. ExtractBits(raw, k, width) = IF width >= WordBits THEN high ELSE high % q
      BY <1>6 DEF ExtractBits
    <2>. HIDE DEF p, q, all
    <2>2. high \in Nat /\ raw % p \in Nat /\ raw = high * p + (raw % p)
      BY <1>1, Z3
    <2>. HIDE DEF high
    <2>3. high < q
      <3>1. high * p < q * p
        BY <1>1, <1>2, <2>2
      <3>2. ASSUME high >= q PROVE FALSE
        <4>1. high * p >= q * p
          BY <1>1, <2>2, <3>2
        <4>2. high * p \in Nat /\ q * p \in Nat
          BY <1>1, <2>2
        <4>. QED BY <3>1, <4>1, <4>2
      <3>. QED BY <1>1, <2>2, <3>2
    <2>4. high % q = high
      BY <1>1, <2>2, <2>3
    <2>5. ExtractBits(raw, k, width) * p = high * p
      BY <2>1, <2>4
    <2>6. ExtractBits(raw, 0, k) + ExtractBits(raw, k, width) * p = raw
      BY <1>1, <1>4, <1>6, <2>2, <2>5
    <2>. QED BY <2>6 DEF p
  <1>. QED BY <1>5, <1>6

\* A reply is an error or words.
LEMMA ReplyIsWords ==
    ASSUME TypeOK, NEW c \in Contracts
    PROVE  /\ reply[c] = Err \/ reply[c] \in Seq(Words)
           /\ reply[c] \in Seq(Words) => reply[c] # Err
  BY BindingsAssumption DEF TypeOK

\* A field yields a word, or an error exactly if a call gave no such word.
LEMMA FieldErrs ==
    ASSUME TypeOK, NEW f \in DbFields
    PROVE  /\ ReadDbField(db, f) \in Words \cup {Err}
           /\ ReadDbField(db, f) = Err <=> NoWord(f)
  <1>1. db \in [Contracts -> MapsOf(Slots, Words)]
    BY DEF TypeOK
  <1>2. f.contract \in Contracts
    BY DEF DbFields
  <1>3. CASE f.kind = "RawSlot"
    BY <1>1, <1>2, <1>3, RawSlotIsWord, WordFacts DEF ReadDbField, NoWord
  <1>4. CASE f.kind = "RawBits"
    <2>1. f.offset_bits \in Nat /\ f.width_bits \in Nat
      BY <1>4 DEF DbFields
    <2>2. ReadRawSlot(db, f.contract, f.slot) \in Words
      BY <1>1, <1>2, RawSlotIsWord
    <2>3. ExtractBits(ReadRawSlot(db, f.contract, f.slot), f.offset_bits, f.width_bits) \in Words
      BY <2>1, <2>2, BitsAreWord
    <2>. QED BY <1>4, <2>3, WordFacts DEF ReadDbField, NoWord
  <1>5. CASE f.kind = "Mapping"
    BY <1>1, <1>2, <1>5, RawSlotIsWord, WordFacts DEF ReadDbField, NoWord
  <1>6. CASE f.kind = "GetReservesWord"
    <2>1. f.word_index \in Nat
      BY <1>6 DEF DbFields
    <2>2. reply[f.contract] = Err \/ reply[f.contract] \in Seq(Words)
      BY <1>2, ReplyIsWords
    <2>3. ReadDbField(db, f) = ReadGetReservesWord(f.contract, f.word_index)
      BY <1>6 DEF ReadDbField
    <2>4. CASE NoWord(f)
      BY <2>3, <2>4 DEF NoWord, ReadGetReservesWord
    <2>5. CASE ~NoWord(f)
      <3>1. reply[f.contract] \in Seq(Words) /\ f.word_index < Len(reply[f.contract])
        BY <1>6, <2>1, <2>2, <2>5 DEF NoWord
      <3>2. reply[f.contract][f.word_index + 1] \in Words
        BY <2>1, <3>1
      <3>3. ReadDbField(db, f) = reply[f.contract][f.word_index + 1]
        BY <1>6, <2>3, <2>5 DEF NoWord, ReadGetReservesWord
      <3>. QED BY <2>5, <3>2, <3>3, WordFacts
    <2>. QED BY <2>4, <2>5
  <1>. QED
    <2>1. f.kind \in {"RawSlot", "RawBits", "Mapping", "GetReservesWord"}
      BY DEF DbFields
    <2>. QED BY <1>3, <1>4, <1>5, <1>6, <2>1

Unpriced(asset) == asset # None /\ asset \notin DOMAIN ctx_prices

\* An amount is worth a word, or an error exactly if its asset has no price.
LEMMA PriceErrs ==
    ASSUME TypeOK, NEW raw \in Words \cup {Err}, NEW asset \in Assets \cup {None}
    PROVE  /\ MultiplyByPrice(raw, asset) \in Words \cup {Err}
           /\ MultiplyByPrice(raw, asset) = Err
                 <=> (raw = Err \/ Unpriced(asset))
  <1>1. CASE raw = Err \/ asset = None \/ asset \notin DOMAIN ctx_prices
    BY <1>1, WordFacts DEF MultiplyByPrice, Unpriced
  <1>2. CASE raw # Err /\ asset # None /\ asset \in DOMAIN ctx_prices
    <2>1. PICK S \in SUBSET Assets : ctx_prices \in [S -> Words]
      BY DEF TypeOK, MapsOf
    <2>. DEFINE price == ctx_prices[asset]
                p     == 2^WordBits
    <2>2. raw \in Nat /\ price \in Nat /\ p \in Nat \ {0}
      BY <1>2, <2>1, WordFacts
    <2>3. MultiplyByPrice(raw, asset) = SaturatingMul(raw, price)
      BY <1>2 DEF MultiplyByPrice
    <2>. HIDE DEF price
    <2>4. raw * price \in Nat
      BY <2>2
    <2>5. SaturatingMul(raw, price) \in Words
      <3>1. CASE raw * price > MaxWord
        BY <3>1, WordFacts DEF SaturatingMul
      <3>2. CASE ~(raw * price > MaxWord)
        <4>1. raw * price < p
          BY <2>2, <2>4, <3>2 DEF MaxWord
        <4>. QED BY <2>4, <3>2, <4>1, WordFacts DEF SaturatingMul
      <3>. QED BY <3>1, <3>2
    <2>. QED BY <1>2, <2>3, <2>5, WordFacts DEF Unpriced
  <1>. QED BY <1>1, <1>2

\* A binding that can be extracted yields a word for each of its fields.
LEMMA ValuesAreWords ==
    ASSUME TypeOK, NEW b \in Bindings
    PROVE  /\ b.fields \in Seq(DbFields) /\ b.entry \in Entries /\ DOMAIN b.assets = DOMAIN b.fields
           /\ \A k \in DOMAIN b.fields :
                 /\ b.fields[k] \in DbFields /\ b.assets[k] \in Assets \cup {None}
                 /\ Values(b)[k] \in Words \cup {Err}
                 /\ Values(b)[k] = Err <=> (NoWord(b.fields[k]) \/ Unpriced(b.assets[k]))
           /\ ~Fails(b) => Values(b) \in Seq(Words)
  <1>1. /\ b.fields \in Seq(DbFields) /\ b.assets \in Seq(Assets \cup {None})
        /\ b.entry \in Entries /\ DOMAIN b.assets = DOMAIN b.fields
    BY BindingsAssumption
  <1>2. \A k \in DOMAIN b.fields : b.fields[k] \in DbFields /\ b.assets[k] \in Assets \cup {None}
    BY <1>1
  <1>3. ASSUME NEW k \in DOMAIN b.fields
        PROVE  /\ Values(b)[k] \in Words \cup {Err}
               /\ Values(b)[k] = Err <=> (NoWord(b.fields[k]) \/ Unpriced(b.assets[k]))
    <2>. DEFINE raw == ReadDbField(db, b.fields[k])
    <2>1. raw \in Words \cup {Err} /\ (raw = Err <=> NoWord(b.fields[k]))
      BY <1>2, FieldErrs
    <2>2. Values(b)[k] = MultiplyByPrice(raw, b.assets[k])
      BY DEF Values
    <2>. HIDE DEF raw
    <2>. QED BY <1>2, <2>1, <2>2, PriceErrs
  <1>4. ASSUME ~Fails(b) PROVE Values(b) \in Seq(Words)
    <2>1. \A k \in DOMAIN b.fields : Values(b)[k] \in Words
      BY <1>3, <1>4 DEF Fails
    <2>2. DOMAIN b.fields = 1 .. Len(b.fields) /\ Len(b.fields) \in Nat
      BY <1>1
    <2>3. Values(b) = [k \in 1 .. Len(b.fields) |-> Values(b)[k]]
      BY <2>2 DEF Values
    <2>. QED BY <2>1, <2>2, <2>3
  <1>. QED BY <1>1, <1>2, <1>3, <1>4

\* What a binding yields depends on the database and the prices alone.
LEMMA ValuesKept ==
    ASSUME UNCHANGED <<reply, db, ctx_prices>>
    PROVE  \A b : Values(b)' = Values(b) /\ (Fails(b)' <=> Fails(b))
  <1>1. \A d, f : ReadDbField(d, f)' = ReadDbField(d, f)
    BY DEF ReadDbField, ReadGetReservesWord
  <1>2. \A raw, a : MultiplyByPrice(raw, a)' = MultiplyByPrice(raw, a)
    BY DEF MultiplyByPrice
  <1>3. \A b : Values(b)' = Values(b)
    BY <1>1, <1>2 DEF Values
  <1>. QED BY <1>3 DEF Fails

-----------------------------------------------------------------------------
(* The inductive invariant *)

\* ContextOfLastBindings says what the last binding of an entry left; that
\* an entry has a last binding is an induction of its own.
LastBound ==
    \A e \in DOMAIN ctx_values : \E i \in 1 .. extracted :
        bindings[i].entry = e /\ LastBinding(i)

\* The loops follow each other, and what they passed was in order.
InOrder ==
    /\ priced < Len(prices) => extracted = 0 /\ checked = 0
    /\ extracted < Len(bindings) => checked = 0
    /\ \A i \in 1 .. extracted : ~Fails(bindings[i])
    /\ \A k \in 1 .. checked : ~Missing(Rules[k]) /\ Holds(Rules[k], ctx_values)

\* evaluate has returned for the reason its answer gives.
Answered ==
    /\ answer # "open" => priced = Len(prices)
    /\ answer = "error" =>
          \/ extracted < Len(bindings) /\ Fails(bindings[extracted + 1])
          \/ extracted = Len(bindings) /\ checked < Len(Rules) /\ Missing(Rules[checked + 1])
    /\ answer = "violated" =>
          /\ extracted = Len(bindings) /\ checked < Len(Rules)
          /\ ~Missing(Rules[checked + 1]) /\ ~Holds(Rules[checked + 1], ctx_values)
    /\ answer = "holds" => extracted = Len(bindings) /\ checked = Len(Rules)

Inv == TypeOK /\ ContextOfLastBindings /\ LastBound /\ InOrder /\ Answered

\* What a caller lists are sequences.
LEMMA ListsAreSeqs ==
    ASSUME TypeOK
    PROVE  prices \in Seq(PriceBindings) /\ bindings \in Seq(Bindings)
  <1>1. /\ prices \in UNION {[1 .. n -> PriceBindings] : n \in 0 .. MaxPrices}
        /\ bindings \in UNION {[1 .. n -> Bindings] : n \in 0 .. MaxBindings}
    BY DEF TypeOK, Lists
  <1>2. PICK n \in 0 .. MaxPrices : prices \in [1 .. n -> PriceBindings]
    BY <1>1
  <1>3. PICK m \in 0 .. MaxBindings : bindings \in [1 .. m -> Bindings]
    BY <1>1
  <1>4. n \in Nat /\ m \in Nat
    BY BindingsAssumption
  <1>. QED BY <1>2, <1>3, <1>4

\* An insertion adds one key.
LEMMA InsertIsMap ==
    ASSUME NEW K, NEW V, NEW map \in MapsOf(K, V), NEW k \in K, NEW v \in V
    PROVE  Insert(map, k, v) \in MapsOf(K, V)
  <1>1. PICK S \in SUBSET K : map \in [S -> V]
    BY DEF MapsOf
  <1>2. Insert(map, k, v) \in [S \cup {k} -> V]
    BY <1>1 DEF Insert
  <1>3. S \cup {k} \in SUBSET K
    OBVIOUS
  <1>. QED BY <1>2, <1>3 DEF MapsOf

LEMMA InitInv == Init => Inv
  <1>. SUFFICES ASSUME Init PROVE Inv
    OBVIOUS
  <1>1. prices \in Seq(PriceBindings) /\ bindings \in Seq(Bindings)
    <2>1. /\ prices \in UNION {[1 .. n -> PriceBindings] : n \in 0 .. MaxPrices}
          /\ bindings \in UNION {[1 .. n -> Bindings] : n \in 0 .. MaxBindings}
      BY DEF Init, Lists
    <2>2. PICK n \in 0 .. MaxPrices : prices \in [1 .. n -> PriceBindings]
      BY <2>1
    <2>3. PICK m \in 0 .. MaxBindings : bindings \in [1 .. m -> Bindings]
      BY <2>1
    <2>4. n \in Nat /\ m \in Nat
      BY BindingsAssumption
    <2>. QED BY <2>2, <2>3, <2>4
  <1>2. Len(Rules) \in Nat /\ Len(prices) \in Nat /\ Len(bindings) \in Nat
    BY <1>1, BindingsAssumption
  <1>3. DOMAIN EmptyMap = {} /\ EmptyMap \in MapsOf(Assets, Words)
    BY DEF EmptyMap, MapsOf
  <1>4. TypeOK
    BY <1>2, <1>3 DEF Init, TypeOK
  <1>5. ContextOfLastBindings /\ LastBound
    <2>1. 1 .. priced = {} /\ 1 .. extracted = {}
      BY DEF Init
    <2>. QED BY <1>3, <2>1 DEF Init, ContextOfLastBindings, LastBound
  <1>6. InOrder /\ Answered
    BY <1>2 DEF Init, InOrder, Answered
  <1>. QED BY <1>4, <1>5, <1>6 DEF Inv

\* A step that only moves to the next rule, or returns, leaves the context.
LEMMA ContextKept ==
    ASSUME Inv, UNCHANGED <<given, priced, extracted, ctx>>
    PROVE  ContextOfLastBindings' /\ LastBound' /\ \A i \in 1 .. extracted : ~Fails(bindings[i])'
  <1>1. UNCHANGED <<reply, db, prices, bindings, priced, extracted, ctx_prices, ctx_values>>
    BY DEF given, ctx
  <1>2. \A b : Values(b)' = Values(b) /\ (Fails(b)' <=> Fails(b))
    BY <1>1, ValuesKept
  <1>3. LastBound'
    BY <1>1 DEF Inv, LastBound, LastBinding
  <1>4. ContextOfLastBindings'
    BY <1>1, <1>2 DEF Inv, ContextOfLastBindings, LastPrice, LastBinding
  <1>. QED BY <1>1, <1>2, <1>3, <1>4 DEF Inv, InOrder

LEMMA ExtractPriceStep == ASSUME Inv, ExtractPrice PROVE Inv'
  <1>. DEFINE p == prices[priced + 1]
  <1>1. /\ priced < Len(prices) /\ priced' = priced + 1 /\ answer = "open"
        /\ ctx_prices' = Insert(ctx_prices, p.asset, p.price)
        /\ UNCHANGED <<reply, db, prices, bindings, extracted, checked, ctx_values, answer>>
    BY DEF ExtractPrice, given
  <1>2. prices \in Seq(PriceBindings) /\ bindings \in Seq(Bindings)
    BY ListsAreSeqs DEF Inv
  <1>3. /\ priced \in Nat /\ Len(prices) \in Nat /\ Len(bindings) \in Nat /\ Len(Rules) \in Nat
        /\ extracted = 0 /\ checked = 0
    BY <1>1, <1>2, BindingsAssumption DEF Inv, TypeOK, InOrder
  <1>4. p \in PriceBindings /\ p.asset \in Assets /\ p.price \in Words
    BY <1>1, <1>2, <1>3, BindingsAssumption
  <1>5. ctx_prices' \in MapsOf(Assets, Words)
    BY <1>1, <1>4, InsertIsMap DEF Inv, TypeOK
  <1>6. TypeOK'
    BY <1>1, <1>3, <1>5 DEF Inv, TypeOK
  <1>7. 1 .. extracted' = {} /\ 1 .. extracted = {} /\ 1 .. checked' = {}
    BY <1>1, <1>3
  <1>8. 1 .. priced' = (1 .. priced) \cup {priced + 1} /\ priced + 1 \notin 1 .. priced
    BY <1>1, <1>3
  <1>9. DOMAIN ctx_prices' = {prices'[i].asset : i \in 1 .. priced'}
    BY <1>1, <1>8 DEF Inv, ContextOfLastBindings, Insert
  <1>10. ASSUME NEW i \in 1 .. priced', LastPrice(i)'
         PROVE  ctx_prices'[prices'[i].asset] = prices'[i].price
    <2>1. CASE i = priced + 1
      BY <1>1, <2>1 DEF Insert
    <2>2. CASE i # priced + 1
      <3>1. i \in 1 .. priced /\ priced + 1 \in (i + 1) .. priced'
        BY <1>1, <1>3, <1>8, <2>2
      <3>2. prices[priced + 1].asset # prices[i].asset
        BY <1>1, <1>10, <3>1 DEF LastPrice
      <3>3. \A j \in (i + 1) .. priced : j \in (i + 1) .. priced'
        BY <1>1, <1>3
      <3>4. LastPrice(i)
        BY <1>1, <1>10, <3>1, <3>3 DEF LastPrice
      <3>5. ctx_prices[prices[i].asset] = prices[i].price /\ prices[i].asset \in DOMAIN ctx_prices
        BY <3>1, <3>4 DEF Inv, ContextOfLastBindings
      <3>. QED BY <1>1, <3>2, <3>5 DEF Insert
    <2>. QED BY <2>1, <2>2
  <1>11. ContextOfLastBindings' /\ LastBound'
    <2>1. DOMAIN ctx_values = {}
      BY <1>7 DEF Inv, ContextOfLastBindings
    <2>2. \A i \in 1 .. priced' : LastPrice(i)'
                                  => ctx_prices'[prices'[i].asset] = prices'[i].price
      BY <1>10 DEF LastPrice
    <2>. QED BY <1>1, <1>7, <1>9, <2>1, <2>2 DEF ContextOfLastBindings, LastBound
  <1>12. InOrder' /\ Answered'
    BY <1>1, <1>3, <1>7 DEF InOrder, Answered
  <1>. QED BY <1>6, <1>11, <1>12 DEF Inv

LEMMA ExtractBindingStep == ASSUME Inv, ExtractBinding PROVE Inv'
  <1>. DEFINE b == bindings[extracted + 1]
  <1>1. /\ priced = Len(prices) /\ extracted < Len(bindings) /\ extracted' = extracted + 1
        /\ answer = "open" /\ ~Fails(b)
        /\ ctx_values' = Insert(ctx_values, b.entry, Values(b))
        /\ UNCHANGED <<reply, db, prices, bindings, priced, checked, ctx_prices, answer>>
    BY DEF ExtractBinding, Extracting, given
  <1>2. prices \in Seq(PriceBindings) /\ bindings \in Seq(Bindings)
    BY ListsAreSeqs DEF Inv
  <1>3. /\ extracted \in Nat /\ Len(prices) \in Nat /\ Len(bindings) \in Nat /\ Len(Rules) \in Nat
        /\ checked = 0
    BY <1>1, <1>2, BindingsAssumption DEF Inv, TypeOK, InOrder
  <1>4. b \in Bindings
    BY <1>1, <1>2, <1>3
  <1>5. b.entry \in Entries /\ Values(b) \in Seq(Words)
    BY <1>1, <1>4, ValuesAreWords DEF Inv
  <1>6. TypeOK'
    BY <1>1, <1>3, <1>5 DEF Inv, TypeOK, Insert
  <1>7. 1 .. extracted' = (1 .. extracted) \cup {extracted + 1} /\ extracted + 1 \notin 1 .. extracted
    BY <1>1, <1>3
  <1>8. \A c : Values(c)' = Values(c) /\ (Fails(c)' <=> Fails(c))
    BY <1>1, ValuesKept
  <1>9. DOMAIN ctx_values' = {bindings'[i].entry : i \in 1 .. extracted'}
    BY <1>1, <1>7 DEF Inv, ContextOfLastBindings, Insert
  <1>10. ASSUME NEW i \in 1 .. extracted
         PROVE  LastBinding(i)'
                  <=> LastBinding(i) /\ bindings[i].entry # b.entry
    <2>1. (i + 1) .. extracted' = ((i + 1) .. extracted) \cup {extracted + 1}
      BY <1>1, <1>3
    <2>2. i \in 1 .. extracted'
      BY <1>7
    <2>. QED BY <1>1, <2>1, <2>2 DEF LastBinding
  <1>11. ASSUME NEW i, i = extracted + 1 PROVE LastBinding(i)'
    <2>1. (i + 1) .. extracted' = {}
      BY <1>1, <1>3, <1>11
    <2>. QED BY <2>1 DEF LastBinding
  <1>12. ASSUME NEW i \in 1 .. extracted', LastBinding(i)'
         PROVE  ctx_values'[bindings'[i].entry] = Values(bindings[i])'
    <2>1. CASE i = extracted + 1
      BY <1>1, <1>8, <2>1 DEF Insert
    <2>2. CASE i # extracted + 1
      <3>1. i \in 1 .. extracted /\ bindings[i].entry # b.entry
        BY <1>7, <1>10, <1>12, <2>2
      <3>2. /\ ctx_values[bindings[i].entry] = Values(bindings[i])
            /\ bindings[i].entry \in DOMAIN ctx_values
        BY <1>10, <1>12, <3>1 DEF Inv, ContextOfLastBindings
      <3>. QED BY <1>1, <1>8, <3>1, <3>2 DEF Insert
    <2>. QED BY <2>1, <2>2
  <1>13. ContextOfLastBindings'
    <2>1. /\ DOMAIN ctx_prices' = {prices'[i].asset : i \in 1 .. priced'}
          /\ \A i \in 1 .. priced' : LastPrice(i)'
                                       => ctx_prices'[prices'[i].asset] = prices'[i].price
      BY <1>1 DEF Inv, ContextOfLastBindings, LastPrice
    <2>. QED BY <1>9, <1>12, <2>1 DEF ContextOfLastBindings
  <1>14. LastBound'
    <2>. SUFFICES ASSUME NEW e \in DOMAIN ctx_values'
                  PROVE  \E i \in 1 .. extracted' :
                            bindings'[i].entry = e /\ LastBinding(i)'
      BY DEF LastBound
    <2>1. CASE e = b.entry
      BY <1>1, <1>7, <1>11, <2>1
    <2>2. CASE e # b.entry
      <3>1. e \in DOMAIN ctx_values
        BY <1>1, <2>2 DEF Insert
      <3>2. PICK i \in 1 .. extracted :
               bindings[i].entry = e /\ LastBinding(i)
        BY <3>1 DEF Inv, LastBound
      <3>. QED BY <1>1, <1>7, <1>10, <2>2, <3>2
    <2>. QED BY <2>1, <2>2
  <1>15. InOrder'
    <2>1. \A i \in 1 .. extracted' : ~Fails(bindings[i])'
      BY <1>1, <1>7, <1>8 DEF Inv, InOrder
    <2>2. 1 .. checked' = {}
      BY <1>1, <1>3
    <2>. QED BY <1>1, <1>3, <2>1, <2>2 DEF InOrder
  <1>16. Answered'
    BY <1>1 DEF Answered
  <1>. QED BY <1>6, <1>13, <1>14, <1>15, <1>16 DEF Inv

LEMMA ExtractionFailsStep == ASSUME Inv, ExtractionFails PROVE Inv'
  <1>1. /\ priced = Len(prices) /\ extracted < Len(bindings) /\ Fails(bindings[extracted + 1])
        /\ answer' = "error"
        /\ UNCHANGED <<reply, db, prices, bindings, priced, extracted, checked, ctx_prices, ctx_values>>
    BY DEF ExtractionFails, Extracting, given, ctx
  <1>2. \A c : Values(c)' = Values(c) /\ (Fails(c)' <=> Fails(c))
    BY <1>1, ValuesKept
  <1>3. TypeOK'
    BY <1>1 DEF Inv, TypeOK
  <1>4. ContextOfLastBindings' /\ LastBound' /\ \A i \in 1 .. extracted : ~Fails(bindings[i])'
    BY <1>1, ContextKept DEF given, ctx
  <1>5. InOrder'
    BY <1>1, <1>4 DEF Inv, InOrder, Missing
  <1>6. Answered'
    BY <1>1, <1>2 DEF Answered
  <1>. QED BY <1>3, <1>4, <1>5, <1>6 DEF Inv

LEMMA RuleStep ==
    ASSUME Inv, NEW rule, Checking(rule),
           RuleHolds(rule) \/ RuleViolated(rule) \/ RuleErrs(rule)
    PROVE  Inv'
  <1>1. /\ priced = Len(prices) /\ extracted = Len(bindings) /\ checked < Len(Rules)
        /\ rule = Rules[checked + 1]
        /\ UNCHANGED <<reply, db, prices, bindings, priced, extracted, ctx_prices, ctx_values>>
    BY DEF Checking, AllExtracted, RuleHolds, RuleViolated, RuleErrs, Proceed, Return, given, ctx
  <1>2. checked \in Nat /\ Len(Rules) \in Nat /\ Len(prices) \in Nat /\ Len(bindings) \in Nat
    BY ListsAreSeqs, BindingsAssumption DEF Inv, TypeOK
  <1>3. ContextOfLastBindings' /\ LastBound' /\ \A i \in 1 .. extracted : ~Fails(bindings[i])'
    BY <1>1, ContextKept DEF given, ctx
  <1>4. \A r : Missing(r)' <=> Missing(r)
    BY <1>1 DEF Missing
  <1>5. CASE RuleHolds(rule)
    <2>1. checked' = checked + 1 /\ answer' = "open" /\ ~Missing(rule) /\ Holds(rule, ctx_values)
      BY <1>5 DEF RuleHolds, Checking, AllExtracted, Proceed
    <2>2. TypeOK'
      BY <1>1, <1>2, <2>1 DEF Inv, TypeOK
    <2>3. 1 .. checked' = (1 .. checked) \cup {checked + 1}
      BY <1>2, <2>1
    <2>4. InOrder'
      BY <1>1, <1>2, <1>3, <1>4, <2>1, <2>3 DEF Inv, InOrder
    <2>5. Answered'
      BY <2>1 DEF Answered
    <2>. QED BY <1>3, <2>2, <2>4, <2>5 DEF Inv
  <1>6. CASE RuleViolated(rule) \/ RuleErrs(rule)
    <2>1. /\ checked' = checked
          /\ \/ answer' = "violated" /\ ~Missing(rule) /\ ~Holds(rule, ctx_values)
             \/ answer' = "error" /\ Missing(rule)
      BY <1>6 DEF RuleViolated, RuleErrs, Return
    <2>2. TypeOK'
      BY <1>1, <1>2, <2>1 DEF Inv, TypeOK
    <2>3. InOrder'
      BY <1>1, <1>3, <1>4, <2>1 DEF Inv, InOrder
    <2>4. Answered'
      BY <1>1, <1>2, <1>4, <2>1 DEF Answered
    <2>. QED BY <1>3, <2>2, <2>3, <2>4 DEF Inv
  <1>. QED BY <1>5, <1>6

LEMMA AllHoldStep == ASSUME Inv, AllHold PROVE Inv'
  <1>1. /\ priced = Len(prices) /\ extracted = Len(bindings) /\ checked = Len(Rules) /\ answer' = "holds"
        /\ UNCHANGED <<reply, db, prices, bindings, priced, extracted, checked, ctx_prices, ctx_values>>
    BY DEF AllHold, AllExtracted, Return, given, ctx
  <1>2. ContextOfLastBindings' /\ LastBound' /\ \A i \in 1 .. extracted : ~Fails(bindings[i])'
    BY <1>1, ContextKept DEF given, ctx
  <1>3. TypeOK' /\ InOrder' /\ Answered'
    BY <1>1, <1>2 DEF Inv, TypeOK, InOrder, Missing, Answered
  <1>. QED BY <1>2, <1>3 DEF Inv

\* Inv is inductive.
LEMMA NextInv == Inv /\ [Next]_vars => Inv'
  <1>. SUFFICES ASSUME Inv, [Next]_vars PROVE Inv'
    OBVIOUS
  <1>1. CASE ExtractPrice
    BY <1>1, ExtractPriceStep
  <1>2. CASE ExtractBinding
    BY <1>2, ExtractBindingStep
  <1>3. CASE ExtractionFails
    BY <1>3, ExtractionFailsStep
  <1>4. CASE \E k \in DOMAIN Rules :
               RuleHolds(Rules[k]) \/ RuleViolated(Rules[k]) \/ RuleErrs(Rules[k])
    BY <1>4, RuleStep DEF RuleHolds, RuleViolated, RuleErrs
  <1>5. CASE AllHold
    BY <1>5, AllHoldStep
  <1>6. CASE UNCHANGED vars
    <2>1. UNCHANGED <<given, priced, extracted, ctx>> /\ UNCHANGED <<checked, answer>>
      BY <1>6 DEF vars
    <2>2. UNCHANGED <<reply, db, prices, bindings, priced, extracted, checked, ctx_prices, ctx_values, answer>>
      BY <2>1 DEF given, ctx
    <2>3. ContextOfLastBindings' /\ LastBound' /\ \A i \in 1 .. extracted : ~Fails(bindings[i])'
      BY <2>1, ContextKept
    <2>4. \A c : Fails(c)' <=> Fails(c)
      BY <2>2, ValuesKept
    <2>5. TypeOK' /\ InOrder'
      BY <2>2, <2>3 DEF Inv, TypeOK, InOrder, Missing
    <2>6. Answered'
      BY <2>2, <2>4 DEF Inv, Answered, Missing
    <2>. QED BY <2>3, <2>5, <2>6 DEF Inv
  <1>. QED BY <1>1, <1>2, <1>3, <1>4, <1>5, <1>6 DEF Next

LEMMA Invariance == Spec => []Inv
  BY InitInv, NextInv, PTL DEF Spec

-----------------------------------------------------------------------------
(* Theorems *)

\* Whatever is listed, every value in the context is a word: amounts
\* saturate, bits are masked, and an error never gets in.
THEOREM Typing == Spec => []TypeOK
  BY Invariance, PTL DEF Inv

\* The context is what the last binding of each entry reads in the database,
\* at the final prices.
THEOREM ContextIsOfLastBindings == Spec => []ContextOfLastBindings
  BY Invariance, PTL DEF Inv

\* What the last binding of an entry reads by a field without a price.
LEMMA UnpricedValue ==
    ASSUME Inv, NEW i \in 1 .. extracted, LastBinding(i),
           NEW k \in DOMAIN bindings[i].fields, bindings[i].assets[k] = None
    PROVE  /\ ctx_values[bindings[i].entry][k] = ReadDbField(db, bindings[i].fields[k])
           /\ ~NoWord(bindings[i].fields[k])
           /\ bindings[i].fields[k] \in DbFields
  <1>. DEFINE b == bindings[i]
  <1>1. b \in Bindings
    <2>1. bindings \in Seq(Bindings) /\ extracted \in 0 .. Len(bindings)
      BY ListsAreSeqs DEF Inv, TypeOK
    <2>. QED BY <2>1
  <1>2. ctx_values[b.entry] = Values(b) /\ ~Fails(b)
    BY DEF Inv, ContextOfLastBindings, InOrder
  <1>3. ~NoWord(b.fields[k]) /\ b.fields[k] \in DbFields
    BY <1>1, <1>2, ValuesAreWords DEF Inv, Fails
  <1>4. Values(b)[k] = ReadDbField(db, b.fields[k])
    BY DEF Values, MultiplyByPrice
  <1>. QED BY <1>2, <1>3, <1>4

LEMMA InvRecombine == Inv => PackedFieldsRecombine
  <1>. DEFINE lo(i) == bindings[i].fields[1]
              hi(i) == bindings[i].fields[2]
  <1>. SUFFICES ASSUME Inv, NEW i \in 1 .. extracted, LastBinding(i),
                       Len(bindings[i].fields) = 2, bindings[i].assets = <<None, None>>,
                       Splits(lo(i), hi(i))
                PROVE  ctx_values[bindings[i].entry][1]
                         + ctx_values[bindings[i].entry][2] * 2^lo(i).width_bits
                           = ReadRawSlot(db, lo(i).contract, lo(i).slot)
    BY DEF PackedFieldsRecombine
  <1>1. bindings[i].fields \in Seq(DbFields)
    <2>1. bindings \in Seq(Bindings) /\ extracted \in 0 .. Len(bindings)
      BY ListsAreSeqs DEF Inv, TypeOK
    <2>2. bindings[i] \in Bindings
      BY <2>1
    <2>. QED BY <2>2, BindingsAssumption
  <1>2. DOMAIN bindings[i].fields = {1, 2}
    BY <1>1
  <1>3. bindings[i].assets[1] = None /\ bindings[i].assets[2] = None
    OBVIOUS
  <1>4. /\ ctx_values[bindings[i].entry][1] = ReadDbField(db, lo(i)) /\ lo(i) \in DbFields
        /\ ctx_values[bindings[i].entry][2] = ReadDbField(db, hi(i)) /\ hi(i) \in DbFields
    BY <1>2, <1>3, UnpricedValue
  <1>. DEFINE raw == ReadRawSlot(db, lo(i).contract, lo(i).slot)
  <1>5. /\ ReadDbField(db, lo(i)) = ExtractBits(raw, 0, lo(i).width_bits)
        /\ ReadDbField(db, hi(i)) = ExtractBits(raw, lo(i).width_bits, hi(i).width_bits)
        /\ lo(i).width_bits + hi(i).width_bits >= WordBits
    BY DEF ReadDbField, Splits
  <1>6. lo(i).width_bits \in Nat /\ hi(i).width_bits \in Nat /\ lo(i).contract \in Contracts
    BY <1>4 DEF DbFields, Splits
  <1>7. raw \in Words
    BY <1>6, RawSlotIsWord DEF Inv, TypeOK
  <1>8. ExtractBits(raw, 0, lo(i).width_bits)
          + ExtractBits(raw, lo(i).width_bits, hi(i).width_bits) * 2^lo(i).width_bits = raw
    BY <1>5, <1>6, <1>7, SplitWord
  <1>. QED BY <1>4, <1>5, <1>8

\* Two fields that split a slot give back the slot, wherever it is split, for
\* every width of the word.
THEOREM PackedFieldsGiveBackTheSlot == Spec => []PackedFieldsRecombine
  BY Invariance, InvRecombine, PTL

\* At the final prices a binding cannot be extracted exactly if it is
\* unusable.
LEMMA FailsIfUnusable ==
    ASSUME Inv, priced = Len(prices), NEW b \in Bindings
    PROVE  Fails(b) <=> Unusable(b)
  <1>1. prices \in Seq(PriceBindings)
    BY ListsAreSeqs DEF Inv
  <1>2. DOMAIN prices = 1 .. priced
    BY <1>1
  <1>3. \A a : Unpriced(a) <=> NoPrice(a)
    BY <1>2 DEF Inv, ContextOfLastBindings, Unpriced, NoPrice
  <1>. QED BY <1>3, ValuesAreWords DEF Inv, Fails, Unusable

LEMMA InvErrs == Inv => ErrsOnlyIfUnbound
  <1>. SUFFICES ASSUME Inv, answer # "open"
                PROVE  answer = "error" <=> \/ \E i \in DOMAIN bindings : Unusable(bindings[i])
                                            \/ checked < Len(Rules) /\ Unbound(checked + 1)
    BY DEF ErrsOnlyIfUnbound
  <1>1. /\ bindings \in Seq(Bindings) /\ Len(bindings) \in Nat /\ DOMAIN bindings = 1 .. Len(bindings)
        /\ extracted \in 0 .. Len(bindings) /\ checked \in 0 .. Len(Rules) /\ Len(Rules) \in Nat
        /\ answer \in {"holds", "violated", "error"}
    <2>1. bindings \in Seq(Bindings) /\ Len(Rules) \in Nat
      BY ListsAreSeqs, BindingsAssumption DEF Inv
    <2>. QED BY <2>1 DEF Inv, TypeOK
  <1>2. \A i \in DOMAIN bindings : Fails(bindings[i]) <=> Unusable(bindings[i])
    <2>1. priced = Len(prices)
      BY DEF Inv, Answered
    <2>2. \A i \in DOMAIN bindings : bindings[i] \in Bindings
      BY <1>1
    <2>. QED BY <2>1, <2>2, FailsIfUnusable
  <1>3. ASSUME extracted = Len(bindings), NEW k
        PROVE  Missing(Rules[k]) <=> Unbound(k)
    BY <1>1, <1>3 DEF Inv, ContextOfLastBindings, Missing, Unbound
  <1>4. CASE answer = "error"
    <2>1. CASE extracted < Len(bindings) /\ Fails(bindings[extracted + 1])
      <3>1. extracted + 1 \in DOMAIN bindings
        BY <1>1, <2>1
      <3>. QED BY <1>2, <1>4, <2>1, <3>1
    <2>2. CASE extracted = Len(bindings) /\ checked < Len(Rules) /\ Missing(Rules[checked + 1])
      BY <1>3, <1>4, <2>2
    <2>. QED BY <1>4, <2>1, <2>2 DEF Inv, Answered
  <1>5. CASE answer \in {"holds", "violated"}
    <2>1. extracted = Len(bindings)
      BY <1>5 DEF Inv, Answered
    <2>2. \A i \in DOMAIN bindings : ~Unusable(bindings[i])
      BY <1>1, <1>2, <2>1 DEF Inv, InOrder
    <2>3. ~(checked < Len(Rules) /\ Unbound(checked + 1))
      <3>1. CASE answer = "holds"
        BY <1>1, <3>1 DEF Inv, Answered
      <3>2. CASE answer = "violated"
        BY <1>3, <2>1, <3>2 DEF Inv, Answered
      <3>. QED BY <1>5, <3>1, <3>2
    <2>. QED BY <1>5, <2>2, <2>3
  <1>. QED BY <1>1, <1>4, <1>5

\* evaluate errs exactly for a call without the word, an amount without a
\* price, or a rule about an entry nobody bound.
THEOREM ErrsExactlyIfUnbound == Spec => []ErrsOnlyIfUnbound
  BY Invariance, InvErrs, PTL

LEMMA InvVerdict == Inv => FirstFailureDecides
  <1>. SUFFICES ASSUME Inv PROVE FirstFailureDecides
    OBVIOUS
  <1>1. /\ Len(bindings) \in Nat /\ DOMAIN bindings = 1 .. Len(bindings)
        /\ extracted \in 0 .. Len(bindings) /\ checked \in 0 .. Len(Rules) /\ Len(Rules) \in Nat
    <2>1. bindings \in Seq(Bindings) /\ Len(Rules) \in Nat
      BY ListsAreSeqs, BindingsAssumption DEF Inv
    <2>. QED BY <2>1 DEF Inv, TypeOK
  <1>2. ASSUME NEW e \in DOMAIN ctx_values PROVE ctx_values[e] = Values(bindings[Index(e)])
    <2>1. \E i \in 1 .. extracted : bindings[i].entry = e /\ LastBinding(i)
      BY <1>2 DEF Inv, LastBound
    <2>2. /\ Index(e) \in 1 .. extracted
          /\ bindings[Index(e)].entry = e /\ LastBinding(Index(e))
      BY <2>1 DEF Index
    <2>. QED BY <2>2 DEF Inv, ContextOfLastBindings
  <1>3. ASSUME extracted = Len(bindings), NEW k, ~Missing(Rules[k])
        PROVE  ~Unbound(k) /\ (Holds(Rules[k], OfTheDb(k)) <=> Holds(Rules[k], ctx_values))
    <2>1. Needs(Rules[k]) \subseteq DOMAIN ctx_values
      BY <1>3 DEF Missing
    <2>2. ~Unbound(k)
      BY <1>1, <1>3, <2>1 DEF Inv, ContextOfLastBindings, Unbound
    <2>3. \A e \in Needs(Rules[k]) : OfTheDb(k)[e] = ctx_values[e]
      BY <1>2, <2>1 DEF OfTheDb
    <2>4. CASE Rules[k].name = "balance_gap"
      BY <2>2, <2>3, <2>4 DEF Needs, Holds
    <2>5. CASE Rules[k].name # "balance_gap"
      <3>1. OfTheDb(k)[Rules[k].reserves] = ctx_values[Rules[k].reserves]
        BY <2>3, <2>5 DEF Needs
      <3>2. Holds(Rules[k], OfTheDb(k)) <=> Holds(Rules[k], ctx_values)
        BY <2>5, <3>1, Zenon DEF Holds
      <3>. QED BY <2>2, <3>2
    <2>. QED BY <2>4, <2>5
  <1>4. ASSUME NEW k \in 1 .. checked PROVE ~Unbound(k) /\ Holds(Rules[k], OfTheDb(k))
    <2>1. extracted = Len(bindings)
      <3>1. extracted < Len(bindings) => checked = 0
        BY DEF Inv, InOrder
      <3>2. checked # 0
        BY <1>1
      <3>. DEFINE n == Len(bindings)
      <3>3. n \in Nat /\ extracted \in 0 .. n /\ ~(extracted < n)
        BY <1>1, <3>1, <3>2
      <3>. HIDE DEF n
      <3>4. extracted = n
        BY <3>3
      <3>. QED BY <3>4 DEF n
    <2>2. ~Missing(Rules[k]) /\ Holds(Rules[k], ctx_values)
      BY DEF Inv, InOrder
    <2>. QED BY <1>3, <2>1, <2>2
  <1>5. answer = "violated" => /\ checked < Len(Rules) /\ ~Unbound(checked + 1)
                               /\ ~Holds(Rules[checked + 1], OfTheDb(checked + 1))
    BY <1>3 DEF Inv, Answered
  <1>6. answer = "holds" => checked = Len(Rules)
    BY DEF Inv, Answered
  <1>. QED BY <1>4, <1>5, <1>6 DEF FirstFailureDecides

\* The answer is that of the first rule that does not hold of the database.
THEOREM FirstFailureIsTheVerdict == Spec => []FirstFailureDecides
  BY Invariance, InvVerdict, PTL
=============================================================================

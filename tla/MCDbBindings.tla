---------------------------- MODULE MCDbBindings ----------------------------
(***************************************************************************)
(* A pool that keeps one reserve in the slot s1 and one in a mapping at s1 *)
(* and whose getReserves answers two words, one or none, of two bits:      *)
(* bindings of each kind of field, and some that cannot be extracted.      *)
(***************************************************************************)
EXTENDS DbBindings

CONSTANTS pool, token, s1

Hashed    == MappingSlotKey(token, s1, "Solidity")
MCSlots   == {s1, Hashed}
MCReplies == {<<>>, <<1>>, <<3, 2>>, <<0, 1>>}
MCPrices  == [asset : Assets, price : {1, 3}]

Balance  == <<"token_balances", token, pool>>
Reserve  == <<"token_reserves", pool, token>>
Pair     == <<"pool_reserves", pool>>
Position == <<"cdp_positions", pool>>

MCEntries == {Balance, Reserve, Pair, Position}
MCRules   == <<[name |-> "balance_gap", balance |-> Balance, reserve |-> Reserve],
               [name |-> "constant_product", reserves |-> Pair, baseline_k |-> 2]>>

Raw           == [kind |-> "RawSlot", contract |-> pool, slot |-> s1]
Bits(from, n) == [kind |-> "RawBits", contract |-> pool, slot |-> s1,
                  offset_bits |-> from, width_bits |-> n]
Word(n)       == [kind |-> "GetReservesWord", contract |-> pool, word_index |-> n]
Map(layout)   == [kind |-> "Mapping", contract |-> pool, key |-> token,
                  mapping_slot |-> s1, layout |-> layout]

One(entry, field) == [entry |-> entry, fields |-> <<field>>, assets |-> <<None>>]
PairOf(f1, f2)    == [entry |-> Pair, fields |-> <<f1, f2>>, assets |-> <<None, None>>]
Cdp(f1, f2)       == [entry |-> Position, fields |-> <<f1, f2>>, assets |-> <<token, None>>]

MCBindings ==
    {One(Balance, Map("Solidity")), One(Balance, Map("Vyper")),
     One(Reserve, Word(1)), One(Reserve, Word(2)),
     PairOf(Word(0), Word(1)), PairOf(Bits(0, 1), Bits(1, 1)), PairOf(Bits(0, 2), Bits(2, 2)),
     PairOf(Bits(0, 0), Raw),
     Cdp(Raw, Word(0))}
=============================================================================

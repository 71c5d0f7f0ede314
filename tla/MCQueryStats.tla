---------------------------- MODULE MCQueryStats ----------------------------
EXTENDS QueryStats

(* Columns of three rows: distinct values, equal ones, one twice, a span   *)
(* beyond the bit vector, the whole range of a word, and two values apart. *)
Columns == {<<1, 3, 4>>, <<6, 6, 6>>, <<3, 2, 3>>, <<0, 20, 8>>, <<0, 63, 5>>, <<9, 1, 9>>}
MCDatabases == {<< <<a, b>> >> : a, b \in Columns}

FilterOn(col, op, value) ==
  [join |-> FALSE, rel1 |-> 0, col1 |-> col, op |-> op, value |-> value]
Eq(rel1, col1, rel2, col2) ==
  [join |-> TRUE, rel1 |-> rel1, col1 |-> col1, op |-> "=", rel2 |-> rel2, col2 |-> col2]
Query(rels, predicates) ==
  [rels |-> rels, predicates |-> predicates,
   sums |-> <<[rel |-> 0, col |-> 1], [rel |-> Len(rels) - 1, col |-> 0]>>]

(* Two filters and a self join of one relation, in any order.              *)
MCFilters == {FilterOn(col, op, value) : col \in {0, 1}, op \in {"<", ">", "="}, value \in {0, 2, 4}}
Chains == {<<f, g>> : f, g \in MCFilters} \cup {<<f, Eq(0, 0, 0, 1), g>> : f, g \in MCFilters}

(* Batches of two queries: relations of two digits and one digit, a value  *)
(* that an int does not hold, a query without predicates.                  *)
Eleven == [i \in 1..11 |-> 0]
Mixed == {Query(<<0, 0>>, <<FilterOn(1, ">", 3), Eq(0, 1, 1, 0)>>),
          Query(Eleven, <<Eq(10, 0, 9, 1), Eq(0, 1, 10, 0), FilterOn(0, "=", 5)>>),
          Query(<<0>>, <<FilterOn(1, "=", 17)>>),
          Query(<<0, 0>>, <<>>)}
MCBatches == {<<Query(<<0>>, chain)>> : chain \in Chains} \cup (Mixed \X Mixed)
=============================================================================

---------------------------- MODULE MCQueryExec ----------------------------
EXTENDS QueryExec, TLC

(* Relation 1 has two columns, relation 2 has one.                         *)
MCTables == {1 :> <<a, b>> @@ 2 :> <<c>> :
               a, b \in [1..2 -> 0..1], c \in [1..3 -> 0..1]}

Col(r, c) == [rel |-> r, col |-> c]
Filter(r, c, o, v) == [part |-> Col(r, c), op |-> o, value |-> v]
Eq(r1, c1, r2, c2) == [part1 |-> Col(r1, c1), part2 |-> Col(r2, c2)]

(* A filtered relation, a cycle of three relations and a self join.        *)
Cycle == [rels |-> <<1, 2, 1>>,
          filters |-> <<Filter(1, 1, GREATER, 0), Filter(1, 2, LESS, 1)>>,
          joins |-> <<Eq(1, 2, 2, 1), Eq(2, 1, 3, 1), Eq(3, 2, 1, 1), Eq(3, 1, 3, 2)>>,
          sums |-> <<Col(3, 2), Col(2, 1)>>]

(* Two pairs joined apart and then to each other, one of them filtered.    *)
Chain == [rels |-> <<2, 1, 1, 2>>,
          filters |-> <<Filter(4, 1, EQUAL, 1)>>,
          joins |-> <<Eq(1, 1, 2, 1), Eq(3, 1, 4, 1), Eq(2, 2, 3, 2)>>,
          sums |-> <<Col(1, 1), Col(4, 1)>>]

(* No filter and a self join.                                              *)
Loop == [rels |-> <<1, 2>>,
         filters |-> <<>>,
         joins |-> <<Eq(1, 1, 1, 2), Eq(2, 1, 1, 1)>>,
         sums |-> <<Col(2, 1)>>]

MCQueries == {Cycle, Chain, Loop}
=============================================================================

---------------------------- MODULE MCJoinOrder ----------------------------
EXTENDS JoinOrder

Eq(r1, c1, r2, c2) == [rel1 |-> r1, col1 |-> c1, rel2 |-> r2, col2 |-> c2]

(* Joins of four relations, written with the smaller relation first.       *)
UpwardJoins == {Eq(a, 0, b, 0) : <<a, b>> \in {<<0, 1>>, <<0, 2>>, <<0, 3>>, <<1, 2>>, <<1, 3>>, <<2, 3>>}}

(* A triangle, one side of it also joined on another column, written       *)
(* either way round, and two self joins of a relation.                     *)
ColumnJoins == {Eq(0, 0, 1, 0), Eq(1, 0, 2, 0), Eq(0, 0, 2, 0),
                Eq(0, 1, 1, 1), Eq(1, 1, 0, 1), Eq(1, 0, 1, 1), Eq(1, 1, 1, 2)}

QueriesOf(rels, from, max) ==
  {[numOfRels |-> rels, joins |-> js] : js \in UNION {[0..n-1 -> from] : n \in 1..max}}

MCQueries == QueriesOf(4, UpwardJoins, 4) \cup QueriesOf(3, ColumnJoins, 5)
TwoLeftOver == QueriesOf(3, ColumnJoins, 4)
=============================================================================

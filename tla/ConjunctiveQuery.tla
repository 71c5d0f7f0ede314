-------------------------- MODULE ConjunctiveQuery --------------------------
(***************************************************************************)
(* What executing a query promises, without intermediates, indexes or an   *)
(* order of evaluation: the predicates are applied one at a time, groups   *)
(* hold the relations that predicates have connected and the combinations  *)
(* of their rows that satisfy the predicates applied so far, and the       *)
(* answer sums columns over the combinations that are left.                *)
(*                                                                         *)
(* A query names its relations by position; a table is a function from     *)
(* relations and columns to the values of the rows.                        *)
(***************************************************************************)
EXTENDS Integers, Sequences, FiniteSetsExt

CONSTANT WordRange \* sums are taken modulo 2^64

VARIABLES table,   \* table[rel][col][row]
          query,   \* relations, filters, joins and sums
          pending, \* predicates that are not applied yet
          groups,  \* connected relations and the combinations of their rows
          answer   \* the sums, <<>> until they are known

vars == <<table, query, pending, groups, answer>>

QueryRels == DOMAIN query.rels
RowsOf(rel) == DOMAIN table[query.rels[rel]][1]
Value(c, row) == table[query.rels[c.rel]][c.col][row]

LESS == 1
GREATER == 2
EQUAL == 3

ApplyFilter(value, op, target) ==
  CASE op = LESS    -> value < target
    [] op = GREATER -> value > target
    [] op = EQUAL   -> value = target

(* Predicates are the filters and the joins of the query, by position.     *)
Predicates == ({"filter"} \X DOMAIN query.filters) \cup ({"join"} \X DOMAIN query.joins)

RelsOf(p) == IF p[1] = "filter" THEN {query.filters[p[2]].part.rel}
             ELSE {query.joins[p[2]].part1.rel, query.joins[p[2]].part2.rel}

(* The combination of rows f satisfies predicate p.                        *)
Holds(p, f) ==
  IF p[1] = "filter"
  THEN LET q == query.filters[p[2]]
       IN  ApplyFilter(Value(q.part, f[q.part.rel]), q.op, q.value)
  ELSE LET q == query.joins[p[2]]
       IN  Value(q.part1, f[q.part1.rel]) = Value(q.part2, f[q.part2.rel])

Combinations(rels) ==
  {f \in [rels -> UNION {RowsOf(r) : r \in rels}] : \A r \in rels : f[r] \in RowsOf(r)}

Single(rel) == [rels |-> {rel}, rows |-> Combinations({rel})]

Sum(c, rows) == FoldSet(LAMBDA f, acc : (acc + Value(c, f[c.rel])) % WordRange, 0, rows)

Init == /\ pending = Predicates
        /\ groups = {Single(r) : r \in QueryRels}
        /\ answer = <<>>

Apply(p) ==
  LET touched == {g \in groups : g.rels \cap RelsOf(p) # {}}
      rels == UNION {g.rels : g \in touched}
      rows == {f \in Combinations(rels) :
                 /\ \A g \in touched : [r \in g.rels |-> f[r]] \in g.rows
                 /\ Holds(p, f)}
  IN  /\ p \in pending
      /\ pending' = pending \ {p}
      /\ groups' = (groups \ touched) \cup {[rels |-> rels, rows |-> rows]}
      /\ UNCHANGED <<table, query, answer>>

Answer == /\ pending = {}
          /\ answer = <<>>
          /\ \E g \in groups :
               /\ g.rels = QueryRels
               /\ answer' = [k \in DOMAIN query.sums |-> Sum(query.sums[k], g.rows)]
          /\ UNCHANGED <<table, query, pending, groups>>

Next == (\E p \in Predicates : Apply(p)) \/ Answer

CQSpec == Init /\ [][Next]_vars
=============================================================================

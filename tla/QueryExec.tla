----------------------------- MODULE QueryExec -----------------------------
(***************************************************************************)
(* How a query is executed: workerF and workerJ (src/jointPerformer.c)     *)
(* apply one predicate each to the list of intermediates                   *)
(* (src/interList.c), and performChecksums (src/checksum.c) sums over the  *)
(* one that is left.  An intermediate keeps, for every relation joined so  *)
(* far, a column of row numbers; predicates are applied to a relation that *)
(* is in no intermediate, to one that is, to two of the same or to two of  *)
(* different ones, and radixHashJoin says by switched which operand its    *)
(* rowR and rowS belong to.                                                *)
(*                                                                         *)
(* main runs the filters in the order they are written and then the joins  *)
(* by priority.  The order comes from statistics and costs, so any order   *)
(* of the joins is allowed here; which joins the priorities name is        *)
(* JoinOrder's subject.  radixHashJoin is taken for what RadixPartition    *)
(* and IndexSearch show of it: every pair of positions with equal keys,    *)
(* once, in some order.  If both operands are columns, what is cached      *)
(* decides which of them is indexed.                                       *)
(***************************************************************************)
EXTENDS Integers, Sequences, FiniteSetsExt, SequencesExt

CONSTANTS Tables,   \* tables the program may be given: functions of relations
          Queries,  \* queries it may be given
          WordRange \* 2^64, the range of myint_t

ASSUME WordAssumption == WordRange \in Nat \ {0}

LESS == 1
GREATER == 2
EQUAL == 3

(* What is loaded: columns of words, those of a relation of one length.    *)
ASSUME TablesAssumption ==
  \A t \in Tables : \A r \in DOMAIN t :
    /\ t[r] \in Seq(Seq(0..WordRange-1))
    /\ t[r] # <<>>
    /\ \A c \in DOMAIN t[r] : Len(t[r][c]) = Len(t[r][1])

(* A query names columns that there are.  Its predicates connect all its   *)
(* relations: performChecksums gives up on several intermediates at the    *)
(* end, and has none without a predicate.                                  *)
Columns == [rel : Nat, col : Nat]
IsColumn(c, q, t) == c.rel \in DOMAIN q.rels /\ c.col \in DOMAIN t[q.rels[c.rel]]
RelsOfJoin(join) == {join.part1.rel, join.part2.rel}

WellFormed(q) ==
  /\ q \in [rels    : Seq(UNION {DOMAIN t : t \in Tables}),
            filters : Seq([part : Columns, op : {LESS, GREATER, EQUAL}, value : Nat]),
            joins   : Seq([part1 : Columns, part2 : Columns]),
            sums    : Seq(Columns)]
  /\ \A t \in Tables :
       /\ \A r \in DOMAIN q.rels : q.rels[r] \in DOMAIN t
       /\ \A f \in DOMAIN q.filters : IsColumn(q.filters[f].part, q, t)
       /\ \A j \in DOMAIN q.joins : /\ IsColumn(q.joins[j].part1, q, t)
                                    /\ IsColumn(q.joins[j].part2, q, t)
       /\ \A k \in DOMAIN q.sums : IsColumn(q.sums[k], q, t)

Connected(q) ==
  /\ q.filters # <<>> \/ q.joins # <<>>
  /\ \A S \in SUBSET DOMAIN q.rels :
       S # {} /\ S # DOMAIN q.rels =>
         \E j \in DOMAIN q.joins : /\ RelsOfJoin(q.joins[j]) \cap S # {}
                                  /\ ~(RelsOfJoin(q.joins[j]) \subseteq S)

ASSUME QueriesAssumption == \A q \in Queries : WellFormed(q) /\ Connected(q)

VARIABLES table,      \* the relations
          query,      \* the query being executed
          nextFilter, \* filters are executed in order
          todo,       \* joins that were not executed
          headInt,    \* the list of intermediates
          checksums   \* the answer, <<>> until it is computed

vars == <<table, query, nextFilter, todo, headInt, checksums>>

QueryRels == DOMAIN query.rels
Rows(rel) == DOMAIN table[query.rels[rel]][1]
Value(c, row) == table[query.rels[c.rel]][c.col][row]

ApplyFilter(value, op, target) ==
  CASE op = LESS    -> value < target
    [] op = GREATER -> value > target
    [] OTHER        -> value = target

-----------------------------------------------------------------------------
(* Intermediates                                                           *)

NumbOfRows(node) == Len(node.rowIds[1])

(* The place of the first node that holds a relation, 0 if none does.      *)
NodesWith(rel) == {n \in DOMAIN headInt : rel \in Range(headInt[n].joinedRels)}
findNode(rel) == IF NodesWith(rel) = {} THEN 0 ELSE Min(NodesWith(rel))

ColumnOf(node, rel) ==
  node.rowIds[Min({i \in DOMAIN node.joinedRels : node.joinedRels[i] = rel})]

pushInter(list, node) == Append(list, node)
updateInter(list, n, node) == [list EXCEPT ![n] = node]
deleteInterNode(list, n) == RemoveAt(list, n)

(* createInterSelfJoin, updateInterSelfJoin: only the given rows.          *)
createInterSelfJoin(rel, rows) ==
  pushInter(headInt, [joinedRels |-> <<rel>>, rowIds |-> <<rows>>])
updateInterSelfJoin(n, rows) ==
  LET node == headInt[n]
  IN  updateInter(headInt, n,
        [node EXCEPT !.rowIds = [c \in DOMAIN @ |->
           [i \in DOMAIN rows |-> @[c][rows[i]]]]])

(* The positions of 1..n that are kept, in order.                          *)
Survivors(n, kept) ==
  LET rows[i \in 0..n] == IF i = 0 THEN <<>>
                          ELSE IF i \in kept THEN Append(rows[i-1], i) ELSE rows[i-1]
  IN  rows[n]

-----------------------------------------------------------------------------
(* radixHashJoin                                                           *)

(* The keys of a column: of all rows, or of the rows of its intermediate.  *)
forgeRelationsheep(c) ==
  LET n == findNode(c.rel)
  IN  IF n = 0 THEN [i \in Rows(c.rel) |-> Value(c, i)]
      ELSE LET rowIds == ColumnOf(headInt[n], c.rel)
           IN  [i \in DOMAIN rowIds |-> Value(c, rowIds[i])]

(* All pairs <<rowR, rowS>>; rowR is of the relation that was indexed.     *)
radixHashJoin(rRel, sRel, switched) ==
  LET indexed == IF switched = 0 THEN rRel ELSE sRel
      probing == IF switched = 0 THEN sRel ELSE rRel
      hits(k) == Survivors(Len(indexed), {i \in DOMAIN indexed : indexed[i] = probing[k]})
  IN  FlattenSeq([k \in DOMAIN probing |->
                    [h \in DOMAIN hits(k) |-> <<hits(k)[h], k>>]])

(* The operand of radixHashJoin that a result row belongs to.              *)
AlwaysRowR(m, switched) == m[1]
RowOfFirst(m, switched) == IF switched = 0 THEN m[1] ELSE m[2]
RowOfSecond(m, switched) == IF switched = 0 THEN m[2] ELSE m[1]

(* createInterFromRes with createResultArray                               *)
createInterFromRes(res, rel1, rel2, switched) ==
  pushInter(headInt,
    [joinedRels |-> <<rel1, rel2>>,
     rowIds |-> << [i \in DOMAIN res |-> RowOfFirst(res[i], switched)],
                   [i \in DOMAIN res |-> RowOfSecond(res[i], switched)] >>])

(* updateInterFromRes with updateRowIds: the intermediate is the first     *)
(* operand; the rows of the new relation become its last column.           *)
updateInterFromRes(n, res, addedRel, switched) ==
  LET node == headInt[n]
      kept == [c \in DOMAIN node.rowIds |->
                 [i \in DOMAIN res |-> node.rowIds[c][RowOfFirst(res[i], switched)]]]
  IN  updateInter(headInt, n,
        [joinedRels |-> Append(node.joinedRels, addedRel),
         rowIds |-> Append(kept, [i \in DOMAIN res |-> RowOfSecond(res[i], switched)])])

(* updateInterAndDelete with joinRowIds                                    *)
UpdateWithoutDelete(n1, n2, res, switched) ==
  LET node1 == headInt[n1]
      node2 == headInt[n2]
      rows1 == [c \in DOMAIN node1.rowIds |->
                  [i \in DOMAIN res |-> node1.rowIds[c][RowOfFirst(res[i], switched)]]]
      rows2 == [c \in DOMAIN node2.rowIds |->
                  [i \in DOMAIN res |-> node2.rowIds[c][RowOfSecond(res[i], switched)]]]
  IN  updateInter(headInt, n1, [joinedRels |-> node1.joinedRels \o node2.joinedRels,
                                rowIds |-> rows1 \o rows2])
updateInterAndDelete(n1, n2, res, switched) ==
  deleteInterNode(UpdateWithoutDelete(n1, n2, res, switched), n2)

-----------------------------------------------------------------------------
Nodes == [joinedRels : Seq(Nat), rowIds : Seq(Seq(Nat))]

(* The columns of an intermediate are of one length, hold rows of their    *)
(* own relation only, and a checksum is a myint_t.                         *)
TypeOK ==
  /\ table \in Tables
  /\ query \in Queries
  /\ nextFilter \in 1..Len(query.filters) + 1
  /\ todo \subseteq DOMAIN query.joins
  /\ headInt \in Seq(Nodes)
  /\ \A n \in DOMAIN headInt :
       LET node == headInt[n]
       IN  /\ DOMAIN node.rowIds = DOMAIN node.joinedRels
           /\ \A c \in DOMAIN node.joinedRels :
                /\ node.joinedRels[c] \in QueryRels
                /\ Len(node.rowIds[c]) = NumbOfRows(node)
                /\ Range(node.rowIds[c]) \subseteq Rows(node.joinedRels[c])
  /\ checksums \in Seq(0..WordRange-1)

Init == /\ table \in Tables
        /\ query \in Queries
        /\ nextFilter = 1
        /\ todo = DOMAIN query.joins
        /\ headInt = <<>>
        /\ checksums = <<>>

-----------------------------------------------------------------------------
(* workerF                                                                 *)

FilterStep(f) == /\ nextFilter <= Len(query.filters)
                 /\ f = query.filters[nextFilter]
                 /\ nextFilter' = nextFilter + 1
                 /\ UNCHANGED <<table, query, todo, checksums>>

workerFOnAllRows(f) ==
  LET rows == Rows(f.part.rel)
      passing == {i \in rows : ApplyFilter(Value(f.part, i), f.op, f.value)}
  IN  /\ FilterStep(f)
      /\ findNode(f.part.rel) = 0
      /\ headInt' = createInterSelfJoin(f.part.rel,
                                        Survivors(Cardinality(rows), passing))

workerFOnNode(f) ==
  LET n == findNode(f.part.rel)
      rowIds == ColumnOf(headInt[n], f.part.rel)
      passing == {i \in DOMAIN rowIds :
                    ApplyFilter(Value(f.part, rowIds[i]), f.op, f.value)}
  IN  /\ FilterStep(f)
      /\ n # 0
      /\ headInt' = updateInterSelfJoin(n, Survivors(Len(rowIds), passing))

-----------------------------------------------------------------------------
(* workerJ                                                                 *)

JoinStep(j) == /\ nextFilter > Len(query.filters)
               /\ j \in todo
               /\ todo' = todo \ {j}
               /\ UNCHANGED <<table, query, nextFilter, checksums>>

(* performSelfJoin: two columns of one relation.                           *)
SelfJoinOfAllRows(j) ==
  LET p == query.joins[j]
      rows == Rows(p.part1.rel)
      equal == {i \in rows : Value(p.part1, i) = Value(p.part2, i)}
  IN  /\ JoinStep(j)
      /\ p.part1.rel = p.part2.rel
      /\ findNode(p.part1.rel) = 0
      /\ headInt' = createInterSelfJoin(p.part1.rel,
                                        Survivors(Cardinality(rows), equal))

SelfJoinOfNode(j) ==
  LET p == query.joins[j]
      n == findNode(p.part1.rel)
      rowIds == ColumnOf(headInt[n], p.part1.rel)
      equal == {i \in DOMAIN rowIds :
                  Value(p.part1, rowIds[i]) = Value(p.part2, rowIds[i])}
  IN  /\ JoinStep(j)
      /\ p.part1.rel = p.part2.rel
      /\ n # 0
      /\ headInt' = updateInterSelfJoin(n, Survivors(Len(rowIds), equal))

(* performSameNodeJoin: the join closes a cycle.                           *)
SameNodeJoin(j) ==
  LET p == query.joins[j]
      n == findNode(p.part1.rel)
      rowIds1 == ColumnOf(headInt[n], p.part1.rel)
      rowIds2 == ColumnOf(headInt[n], p.part2.rel)
      equal == {i \in DOMAIN rowIds1 :
                  Value(p.part1, rowIds1[i]) = Value(p.part2, rowIds2[i])}
  IN  /\ JoinStep(j)
      /\ p.part1.rel # p.part2.rel
      /\ n # 0
      /\ findNode(p.part2.rel) = n
      /\ headInt' = updateInterSelfJoin(n, Survivors(NumbOfRows(headInt[n]), equal))

(* performRHJ: neither, one or both relations are in an intermediate.      *)
JoinOfRelations(j) ==
  LET p == query.joins[j]
  IN  /\ JoinStep(j)
      /\ p.part1.rel # p.part2.rel
      /\ findNode(p.part1.rel) = 0
      /\ findNode(p.part2.rel) = 0
      /\ \E switched \in {0, 1} :
           headInt' = createInterFromRes(
                        radixHashJoin(forgeRelationsheep(p.part1),
                                      forgeRelationsheep(p.part2), switched),
                        p.part1.rel, p.part2.rel, switched)

JoinWithNode(j) ==
  \E one \in {0, 1} :
    LET p == query.joins[j]
        old == IF one = 0 THEN p.part1 ELSE p.part2
        new == IF one = 0 THEN p.part2 ELSE p.part1
    IN  /\ JoinStep(j)
        /\ old.rel # new.rel
        /\ findNode(old.rel) # 0
        /\ findNode(new.rel) = 0
        /\ headInt' = updateInterFromRes(
                        findNode(old.rel),
                        radixHashJoin(forgeRelationsheep(old), forgeRelationsheep(new), 1),
                        new.rel, 1)

JoinOfNodes(j) ==
  LET p == query.joins[j]
      n1 == findNode(p.part1.rel)
      n2 == findNode(p.part2.rel)
      switched == IF NumbOfRows(headInt[n1]) <= NumbOfRows(headInt[n2]) THEN 0 ELSE 1
  IN  /\ JoinStep(j)
      /\ n1 # 0 /\ n2 # 0 /\ n1 # n2
      /\ headInt' = updateInterAndDelete(
                      n1, n2,
                      radixHashJoin(forgeRelationsheep(p.part1),
                                    forgeRelationsheep(p.part2), switched),
                      switched)

-----------------------------------------------------------------------------
(* performChecksums: over the first intermediate.                          *)
SumWithoutWrap(acc, v) == acc + v
PlusValue(acc, v) == (acc + v) % WordRange
calcChecksum(rowIds, c) ==
  LET sum[i \in 0..Len(rowIds)] ==
        IF i = 0 THEN 0 ELSE PlusValue(sum[i-1], Value(c, rowIds[i]))
  IN  sum[Len(rowIds)]

performChecksums ==
  /\ nextFilter > Len(query.filters)
  /\ todo = {}
  /\ checksums = <<>>
  /\ checksums' = [k \in DOMAIN query.sums |->
                     calcChecksum(ColumnOf(headInt[1], query.sums[k].rel), query.sums[k])]
  /\ UNCHANGED <<table, query, nextFilter, todo, headInt>>

-----------------------------------------------------------------------------
workerF == \E f \in Range(query.filters) : workerFOnAllRows(f) \/ workerFOnNode(f)

workerJ(j) == \/ SelfJoinOfAllRows(j) \/ SelfJoinOfNode(j) \/ SameNodeJoin(j)
              \/ JoinOfRelations(j) \/ JoinWithNode(j) \/ JoinOfNodes(j)

Answered == checksums # <<>> /\ UNCHANGED vars

Next == workerF \/ (\E j \in todo : workerJ(j)) \/ performChecksums \/ Answered

Spec == Init /\ [][Next]_vars

-----------------------------------------------------------------------------
(* Properties                                                              *)

(* findNode takes the first node that has the relation: there is no other, *)
(* and no node has it twice.                                               *)
RelationsApart ==
  \A rel \in QueryRels :
    /\ Cardinality(NodesWith(rel)) <= 1
    /\ \A n \in NodesWith(rel) :
         Cardinality({i \in DOMAIN headInt[n].joinedRels :
                        headInt[n].joinedRels[i] = rel}) = 1

(* No combination of rows is kept twice: a duplicate would be summed twice *)
(* and multiplied by the joins that follow.                                *)
NoRowTwice ==
  \A n \in DOMAIN headInt :
    LET node == headInt[n]
    IN  \A i, k \in 1..NumbOfRows(node) :
          (\A c \in DOMAIN node.rowIds : node.rowIds[c][i] = node.rowIds[c][k]) => i = k

(* performChecksums is called with one intermediate ("Multiple             *)
(* Intermediates at the end NOT IMPELEMENTED", checksum.c:13), which has   *)
(* every relation that is summed.                                          *)
OneIntermediateLeft ==
  nextFilter > Len(query.filters) /\ todo = {} =>
    /\ Len(headInt) = 1
    /\ \A k \in DOMAIN query.sums : query.sums[k].rel \in Range(headInt[1].joinedRels)

(* The list of intermediates stays one that performChecksums can read.     *)
IntermediatesSound == RelationsApart /\ NoRowTwice /\ OneIntermediateLeft

(* Every predicate does what it means to the combinations of rows, and the *)
(* answer is the sums over those that satisfy all of them, whatever order  *)
(* and representation the joins took: the execution implements             *)
(* ConjunctiveQuery.                                                       *)
Combination(node, i) ==
  [r \in Range(node.joinedRels) |-> ColumnOf(node, r)[i]]
GroupOf(node) ==
  [rels |-> Range(node.joinedRels),
   rows |-> {Combination(node, i) : i \in 1..NumbOfRows(node)}]
Alone == {rel \in QueryRels : findNode(rel) = 0}
Groups == {GroupOf(headInt[n]) : n \in DOMAIN headInt}
          \cup {[rels |-> {rel}, rows |-> [{rel} -> Rows(rel)]] : rel \in Alone}
Pending == ({"filter"} \X (nextFilter..Len(query.filters))) \cup ({"join"} \X todo)

CQ == INSTANCE ConjunctiveQuery WITH
        pending <- Pending, groups <- Groups, answer <- checksums

ImplementsQuery == CQ!CQSpec
=============================================================================

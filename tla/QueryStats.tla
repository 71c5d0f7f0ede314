----------------------------- MODULE QueryStats -----------------------------
(***************************************************************************)
(* What happens to a query before its joins are ordered: FillRel and       *)
(* FillStatsArray (src/I_O_structManip.c, src/getStats.c) have loaded the  *)
(* relations and taken the range and the distinct values of every column;  *)
(* main counts and ConstructQuery reads each query of a batch (QueryText); *)
(* executeFilterPredicates (src/getStats.c) changes the copy of the        *)
(* statistics that the query has, filter by filter and self join by self   *)
(* join, to what it expects of the rows that are left.                     *)
(*                                                                         *)
(* Values are words, which a double rounds.  Of an estimate that doubles   *)
(* compute it is only said how far it is from the real number, and that    *)
(* rounding keeps the order of numbers: pow is kept within Bernoulli's     *)
(* bounds.  flaws is a history variable: which estimate of the query has   *)
(* lost its meaning.                                                       *)
(***************************************************************************)
EXTENDS QueryText

CONSTANTS Databases, \* databases: sequences of relations, sequences of columns
          Batches,   \* batches: sequences of queries
          N,         \* N, the bits of the largest bit vector
          Accuracy   \* of doubles: 2^49 for those of IEEE 754

(* A double is exact for every count up to Accuracy, and the few roundings *)
(* of an estimate change it by less than its Accuracy-th part.             *)
ASSUME AccuracyAssumption == Accuracy \in Nat /\ Accuracy >= 2

ASSUME VectorAssumption == N \in 1..WordRange-1 /\ N <= Accuracy

(* FillStatsArray starts with the first value of a column: it has one; a   *)
(* relation has columns, each with as many values as it has rows.  There   *)
(* are no more of them than a double counts.                               *)
ASSUME DatabasesAssumption ==
  /\ Databases \subseteq Seq(Seq(Seq(0..WordRange-1) \ {<<>>}) \ {<<>>})
  /\ \A d \in Databases : \A r \in DOMAIN d : \A c \in DOMAIN d[r] :
       /\ Len(d[r][c]) = Len(d[r][1])
       /\ Len(d[r][c]) < WordRange /\ Len(d[r][c]) <= Accuracy

VARIABLES db,       \* the relation files
          queries,  \* the batch
          pc,       \* what main does next
          relArray, \* statsArray of every relation that is loaded
          at,       \* the query that main is at
          counters, \* rels, joins, sums and filters
          query,    \* newQuery, without what is below
          stats,    \* newQuery->queryStats
          priorities, \* newQuery->priorities, those that are set
          next,     \* the filter or join that is executed next
          flaws

vars == <<db, queries, pc, relArray, at, counters, query, stats, priorities, next, flaws>>

Plus(a, b) == (a + b) % WordRange
Minus(a, b) == (a - b + WordRange) % WordRange

-----------------------------------------------------------------------------
(* FillStatsArray.  The bit vector is the set of its bits that are set,    *)
(* and the number of words allocated for it.                               *)

MinOf(column) == Min(Range(column))
MaxOf(column) == Max(Range(column))
Span(column) == Plus(Minus(MaxOf(column), MinOf(column)), 1)

Bits(column) == IF Span(column) > N THEN N ELSE Span(column)
BitOfTheValue(column, v) == v % N
BitOf(column, v) == LET k == Minus(v, MinOf(column))
                    IN  IF Span(column) > N THEN k % N ELSE k

(* ceil(bits / bits of a word)                                             *)
CeilDiv(a, b) == (a + b - 1) \div b

FillStatsArray(column) ==
  LET bits == {BitOf(column, v) : v \in Range(column)}
  IN  [minI |-> MinOf(column), maxU |-> MaxOf(column), numElements |-> Len(column),
       distinctVals |-> Cardinality(bits), bits |-> bits,
       words |-> CeilDiv(Bits(column), WordBits)]

TestBit(s, k) == k \in s.bits

Rows(d) == [r \in 0..Len(d)-1 |-> Len(d[r + 1][1])]
File(r) == db[r + 1]

(* What atoi makes of the numbers up to LONG_MAX.                          *)
AtoiResults == {Truncated(n) : n \in 0..2^(WordBits - 1) - 1}

(* Nothing checks what a query refers to: its relations are loaded, its    *)
(* columns are columns of them and its values were numbers.                *)
RefersTo(q, d) ==
  LET IsColumn(p) == /\ p.rel + 1 \in DOMAIN q.rels /\ p.numCol \in Nat
                     /\ p.numCol + 1 \in DOMAIN d[q.rels[p.rel + 1] + 1]
  IN  /\ q.rels \in Seq(0..Len(d)-1)
      /\ q.filters \in Seq({f \in Range(q.filters) :
                             IsColumn(f.participant) /\ f.value \in AtoiResults})
      /\ q.joins \in Seq({j \in Range(q.joins) :
                           IsColumn(j.participant1) /\ IsColumn(j.participant2)})
ASSUME BatchesAssumption ==
  \A b \in Batches :
    /\ b \in Seq(WrittenQueries)
    /\ \A d \in Databases, i \in DOMAIN b :
         LET q == ConstructQuery(Text(b[i]), NoCounts, Rows(d)) IN q.null \/ RefersTo(q, d)

-----------------------------------------------------------------------------
NoQuery == [null |-> TRUE]

(* The statistics of a query are words, one record for each column of each *)
(* of its relations, and the joins in priorities are joins of the query.   *)
TypeOK ==
  /\ db \in Databases /\ queries \in Batches
  /\ pc \in {"load", "scan", "construct", "filters", "joins", "free", "end", "wrong",
             "undefined", "unloaded"}
  /\ Len(relArray) \in 0..Len(db)
  /\ at \in 1..Len(queries) + 1
  /\ \A c \in DOMAIN NoCounts : counters[c] \in Nat
  /\ pc \in {"filters", "joins", "free"} =>
       /\ DOMAIN stats = DOMAIN query.rels
       /\ \A i \in DOMAIN stats : Len(stats[i]) = Len(File(query.rels[i]))
       /\ \A i \in DOMAIN stats : \A c \in DOMAIN stats[i] :
            \A f \in {"minI", "maxU", "numElements", "distinctVals"} :
              stats[i][c][f] \in 0..WordRange-1
       /\ priorities \in Seq(0..Len(query.joins)-1)
       /\ next \in 1..Max({Len(query.filters), Len(query.joins)}) + 1
  /\ flaws \subseteq {"distinct", "cast"}

Init ==
  /\ db \in Databases /\ queries \in Batches
  /\ pc = "load" /\ relArray = <<>>
  /\ at = 1 /\ counters = NoCounts
  /\ query = NoQuery /\ stats = <<>> /\ priorities = <<>> /\ next = 1
  /\ flaws = {}

-----------------------------------------------------------------------------
(* FillRelArray: the next relation, all its columns.                       *)

FillRel ==
  /\ pc = "load"
  /\ Len(relArray) < Len(db)
  /\ LET file == db[Len(relArray) + 1]
     IN  relArray' = Append(relArray, [c \in DOMAIN file |-> FillStatsArray(file[c])])
  /\ UNCHANGED <<db, queries, pc, at, counters, query, stats, priorities, next, flaws>>

(* A file cannot be opened or ends early: this relation and those after it *)
(* are never set.                                                          *)
FillRelFails ==
  /\ pc = "load"
  /\ Len(relArray) < Len(db)
  /\ pc' = "unloaded"
  /\ UNCHANGED <<db, queries, relArray, at, counters, query, stats, priorities, next, flaws>>

Loaded ==
  /\ pc = "load"
  /\ Len(relArray) = Len(db)
  /\ pc' = "scan"
  /\ UNCHANGED <<db, queries, relArray, at, counters, query, stats, priorities, next,
                 flaws>>

-----------------------------------------------------------------------------
(* The loop of main over the lines of a batch.                             *)

Scan ==
  /\ pc = "scan"
  /\ at <= Len(queries)
  /\ LET line == Text(queries[at])
     IN  /\ counters' = Counted(line, counters)
         /\ pc' = IF WrongFormat(line) THEN "wrong" ELSE "construct"
  /\ UNCHANGED <<db, queries, relArray, at, query, stats, priorities, next, flaws>>

EndOfBatch ==
  /\ pc = "scan"
  /\ at > Len(queries)
  /\ pc' = "end"
  /\ UNCHANGED <<db, queries, relArray, at, counters, query, stats, priorities, next,
                 flaws>>

(* The query gets copies of the statistics of its relations.  For a query  *)
(* of the wrong format it is NULL, which main uses.                        *)
Construct ==
  /\ pc = "construct"
  /\ LET new == ConstructQuery(Text(queries[at]), counters, Rows(db))
     IN  /\ query' = new
         /\ stats' = [i \in DOMAIN new.rels |-> relArray[new.rels[i] + 1]]
         /\ pc' = IF new.null THEN "undefined" ELSE "filters"
  /\ priorities' = <<>> /\ next' = 1
  /\ UNCHANGED <<db, queries, relArray, at, counters, flaws>>

(* The counters start again for the next line.                             *)
FreeQueryOnly ==
  /\ pc = "free"
  /\ at' = at + 1
  /\ query' = NoQuery /\ stats' = <<>> /\ priorities' = <<>> /\ flaws' = {}
  /\ pc' = "scan"
  /\ UNCHANGED <<db, queries, relArray, counters, next>>

FreeQuery ==
  /\ pc = "free"
  /\ at' = at + 1
  /\ counters' = NoCounts
  /\ query' = NoQuery /\ stats' = <<>> /\ priorities' = <<>> /\ flaws' = {}
  /\ pc' = "scan"
  /\ UNCHANGED <<db, queries, relArray, next>>

-----------------------------------------------------------------------------
(* executeFilterPredicates: the column of a filter.                        *)

(* e is the ceiling of a double near a / b.                                *)
CeilOf(e, a, b) == /\ (e - 1) * b * Accuracy < a * (Accuracy + 1)
                   /\ a * (Accuracy - 1) <= e * b * Accuracy

(* ceil(x / y * n) for x < y: x / y is rounded to 1 at most.               *)
Ceils(x, y, n) == {e \in 0..n : CeilOf(e, x * n, y)}

Zero(s) == [s EXCEPT !.minI = 0, !.maxU = 0, !.numElements = 0, !.distinctVals = 0]

(* The values from min to max, x of the y that there were.                 *)
Scaled(s, min, max, x, y) ==
  {[s EXCEPT !.minI = min, !.maxU = max, !.distinctVals = e[1], !.numElements = e[2]] :
     e \in {p \in Ceils(x, y, s.distinctVals) \X Ceils(x, y, s.numElements) :
              /\ s.distinctVals <= s.numElements => p[1] <= p[2]
              /\ s.numElements <= s.distinctVals => p[2] <= p[1]}}

(* One value is left.  While there are filters, the counts are exact.      *)
Single(s, v) ==
  IF s.distinctVals = 0 THEN Zero(s)
  ELSE [s EXCEPT !.minI = v, !.maxU = v, !.distinctVals = 1,
                 !.numElements = CeilDiv(s.numElements, s.distinctVals)]

Less(s, value) ==
  LET k2 == Minus(value, 1)
  IN  IF k2 >= s.maxU THEN {s}
      ELSE IF k2 < s.minI THEN {Zero(s)}
      ELSE IF k2 = s.minI THEN {Single(s, k2)}
      ELSE Scaled(s, s.minI, k2, k2 - s.minI, s.maxU - s.minI)

GreaterOrEqual(s, value) ==
  IF value <= s.minI THEN {s}
  ELSE IF value > s.maxU THEN {Zero(s)}
  ELSE IF value = s.maxU THEN {Single(s, value)}
  ELSE Scaled(s, value, s.maxU, s.maxU - value, s.maxU - s.minI)
GreaterTooFar(s, value) == GreaterOrEqual(s, Plus(value, 2))
Greater(s, value) == GreaterOrEqual(s, Plus(value, 1))

(* The bit is computed after minI and maxU are set: it is always bit 0.    *)
Equal(s, value) ==
  LET t == [s EXCEPT !.minI = value, !.maxU = value]
  IN  IF TestBit(s, Minus(t.maxU, value))
      THEN {[t EXCEPT !.distinctVals = IF s.distinctVals = 0 THEN 0 ELSE 1,
                      !.numElements = IF s.distinctVals = 0 THEN 0
                                      ELSE s.numElements \div s.distinctVals]}
      ELSE {[t EXCEPT !.distinctVals = 0, !.numElements = 0]}

Filtered(s, op, value) ==
  IF op = "<" THEN Less(s, value) ELSE IF op = ">" THEN Greater(s, value) ELSE Equal(s, value)

(* ceil(d * (1 - (1 - new / old) ^ (n / d))).  Where d <= n the real       *)
(* number is between d and n times new / old; it is 0 only when a double   *)
(* cannot tell the power from 1.                                           *)
Distinct(d, n, new, old) ==
  IF new = 0 \/ n = 0 THEN {0}
  ELSE IF new >= old THEN {d}
  ELSE {e \in 0..d :
          old <= Accuracy =>
            /\ old * d <= n * new * Accuracy => e > 0
            /\ d <= n => /\ d * new * Accuracy <= e * old * Accuracy + n * old
                        /\ (e - 1) * old * Accuracy <= n * new * Accuracy + n * old}

(* The other columns of the relation.                                      *)
Others(s, new, old) ==
  IF old = 0 \/ s.distinctVals = 0 THEN {Zero(s)}
  ELSE {[s EXCEPT !.numElements = new, !.distinctVals = d] :
          d \in Distinct(s.distinctVals, s.numElements, new, old)}

(* The ways to change the columns of a relation, when those in done are    *)
(* changed already, from an estimate of old rows to one of new rows.       *)
Spread(columns, done, new, old) ==
  LET options(c) == IF c \in done THEN {columns[c]} ELSE Others(columns[c], new, old)
  IN  {f \in [DOMAIN columns -> UNION {options(c) : c \in DOMAIN columns}] :
         \A c \in DOMAIN columns : f[c] \in options(c)}

Overestimates(columns) ==
  \E c \in DOMAIN columns : columns[c].distinctVals > columns[c].numElements

ExecuteFilter ==
  /\ pc = "filters"
  /\ next <= Len(query.filters)
  /\ LET f == query.filters[next]
         i == f.participant.rel + 1
         c == f.participant.numCol + 1
     IN  \E s \in Filtered(stats[i][c], f.op, f.value) :
         \E columns \in Spread([stats[i] EXCEPT ![c] = s], {c}, s.numElements,
                               stats[i][c].numElements) :
           /\ stats' = [stats EXCEPT ![i] = columns]
           /\ flaws' = flaws \cup (IF Overestimates(columns) THEN {"distinct"} ELSE {})
  /\ next' = next + 1
  /\ UNCHANGED <<db, queries, pc, relArray, at, counters, query, priorities>>

EndFilters ==
  /\ pc = "filters"
  /\ next > Len(query.filters)
  /\ pc' = "joins"
  /\ next' = 1
  /\ UNCHANGED <<db, queries, relArray, at, counters, query, stats, priorities, flaws>>

-----------------------------------------------------------------------------
(* executeFilterPredicates: the self joins, which it also puts in front of *)
(* the priorities.                                                         *)

IsSelfJoin(join) == /\ join.participant1.rel = join.participant2.rel
                    /\ join.participant1.numCol # join.participant2.numCol

(* ceil(n / range).  n / 0.0 is infinite or not a number; converted to a   *)
(* word, which is undefined, that is 0 or 2^63 as the compiler for x86-64  *)
(* does it.  Such a count is beyond the accuracy of doubles.               *)
Quotients(n, range) ==
  IF range = 0 THEN {IF n = 0 THEN WordRange \div 2 ELSE 0}
  ELSE IF n <= Accuracy THEN {CeilDiv(n, range)}
  ELSE {e \in 0..n : CeilOf(e, n, range)}

SelfJoined(s1, n, new) ==
  IF n = 0 \/ s1.distinctVals = 0 THEN {Zero(s1)}
  ELSE {[s1 EXCEPT !.numElements = new, !.distinctVals = d] :
          d \in Distinct(s1.distinctVals, n, new, n)}

ExecuteSelfJoin ==
  /\ pc = "joins"
  /\ next <= Len(query.joins)
  /\ IsSelfJoin(query.joins[next])
  /\ LET join == query.joins[next]
         i == join.participant1.rel + 1
         c1 == join.participant1.numCol + 1
         c2 == join.participant2.numCol + 1
         min == Max({stats[i][c1].minI, stats[i][c2].minI})
         max == Min({stats[i][c1].maxU, stats[i][c2].maxU})
         range == Plus(Minus(max, min), 1)
         n == stats[i][c1].numElements
         Ranged(s) == [s EXCEPT !.minI = min, !.maxU = max]
     IN  \E new \in Quotients(n, range) :
         \E s1 \in SelfJoined(Ranged(stats[i][c1]), n, new) :
         \E columns \in Spread([stats[i] EXCEPT ![c1] = s1,
                                  ![c2] = [Ranged(@) EXCEPT !.numElements = new]],
                               {c1, c2}, s1.numElements, n) :
           /\ stats' = [stats EXCEPT ![i] = columns]
           /\ flaws' = flaws \cup (IF range = 0 THEN {"cast"} ELSE {})
  /\ priorities' = Append(priorities, next - 1)
  /\ next' = next + 1
  /\ UNCHANGED <<db, queries, pc, relArray, at, counters, query>>

SkipJoin ==
  /\ pc = "joins"
  /\ next <= Len(query.joins)
  /\ ~IsSelfJoin(query.joins[next])
  /\ next' = next + 1
  /\ UNCHANGED <<db, queries, pc, relArray, at, counters, query, stats, priorities, flaws>>

EndJoins ==
  /\ pc = "joins"
  /\ next > Len(query.joins)
  /\ pc' = "free"
  /\ next' = 1
  /\ UNCHANGED <<db, queries, relArray, at, counters, query, stats, priorities, flaws>>

Stopped == pc \in {"end", "wrong", "undefined", "unloaded"} /\ UNCHANGED vars

Next == \/ FillRel \/ FillRelFails \/ Loaded \/ Scan \/ EndOfBatch \/ Construct \/ FreeQuery
        \/ ExecuteFilter \/ EndFilters \/ ExecuteSelfJoin \/ SkipJoin \/ EndJoins
        \/ Stopped

Spec == Init /\ [][Next]_vars

-----------------------------------------------------------------------------
(* Properties                                                              *)

(* What is loaded: no bit lies outside the words allocated, and a column   *)
(* whose values span at most N has its distinct values counted exactly;    *)
(* beyond, no more of them are counted than there are.  The span must not  *)
(* be the whole range of a word: max - min + 1 would be 0.                 *)
StatsExact ==
  \A r \in DOMAIN relArray : \A c \in DOMAIN relArray[r] :
    LET column == db[r][c]
        s == relArray[r][c]
    IN  Span(column) # 0 =>
          /\ \A k \in s.bits : k < s.words * WordBits
          /\ s.distinctVals \in 1..Cardinality(Range(column))
          /\ Span(column) <= N => s.distinctVals = Cardinality(Range(column))

(* ConstructQuery reads what is written, and the two scans agree: what the *)
(* second puts into an array fills the size that the first has counted.    *)
(* Every query of a batch starts with fresh counters.                      *)
ParsedAsWritten ==
  pc \in {"filters", "undefined", "wrong"} /\ Ordinary(queries[at]) =>
    pc = "filters" /\ Filled(query) /\ ReadAs(queries[at], Rows(db), query)

(* The rows of a relation that the filters and self joins executed so far  *)
(* leave.                                                                  *)
Holds(f, v) == CASE f.op = "<" -> v < f.value
                 [] f.op = ">" -> v > f.value
                 [] f.op = "=" -> v = f.value
Executed(phase, seq) ==
  {seq[n] : n \in IF pc = phase THEN 1..Min({next - 1, Len(seq)}) ELSE DOMAIN seq}
RowsLeft(i) ==
  LET file == File(query.rels[i])
      filters == {f \in Executed("filters", query.filters) : f.participant.rel + 1 = i}
      joins == {j \in IF pc = "filters" THEN {} ELSE Executed("joins", query.joins) :
                  IsSelfJoin(j) /\ j.participant1.rel + 1 = i}
  IN  {row \in DOMAIN file[1] :
         /\ \A f \in filters : Holds(f, file[f.participant.numCol + 1][row])
         /\ \A j \in joins : file[j.participant1.numCol + 1][row]
                             = file[j.participant2.numCol + 1][row]}

(* The statistics promise no less than there is: every value of a row that *)
(* is left lies in the range of its column, and no column with such a row  *)
(* is believed empty; and they never promise more than was loaded.  This   *)
(* holds until a rounded ceiling makes distinct values outnumber the rows, *)
(* or a self join divides by an empty range.                               *)
EstimatesSound ==
  pc \in {"filters", "joins", "free"} =>
    \A i \in DOMAIN stats : \A c \in DOMAIN stats[i] :
      LET s == stats[i][c]
          loaded == relArray[query.rels[i] + 1][c]
      IN  /\ flaws = {} => \A row \in RowsLeft(i) :
               /\ File(query.rels[i])[c][row] \in s.minI..s.maxU
               /\ s.numElements > 0 /\ s.distinctVals > 0
          /\ "cast" \notin flaws => /\ s.numElements <= loaded.numElements
                                   /\ s.distinctVals <= loaded.distinctVals

(* "check if value exists in distinct values bit vector" (getStats.c:190): *)
(* where the bit vector has a bit for every value of the range, no rows    *)
(* are expected of a value in it that the column does not have.            *)
EqualTestsExistence ==
  pc = "filters" /\ next = 2 =>
    LET f == query.filters[1]
        i == f.participant.rel + 1
        column == File(query.rels[i])[f.participant.numCol + 1]
    IN  /\ f.op = "=" /\ Span(column) \in 1..N
        /\ f.value \in (MinOf(column)..MaxOf(column)) \ Range(column)
        => stats[i][f.participant.numCol + 1].numElements = 0
=============================================================================

----------------------------- MODULE QueryText -----------------------------
(***************************************************************************)
(* A query as it is written and as it is read.  main (src/I_O_Receiver.c)  *)
(* scans a line once to count its relations, predicates and checksums, and *)
(* ConstructQuery (src/queryManip.c) scans it again and fills arrays of    *)
(* the sizes that were counted.                                            *)
(*                                                                         *)
(* A line is a sequence of numbers and separators, as in                   *)
(*     3 0 1|0.2=1.0&0.1=2.0&0.2>3499|1.2 0.1                              *)
(* Numbers keep the widths that matter: atoi makes an int of them, and the *)
(* scan of main looks two and three characters ahead.                      *)
(***************************************************************************)
EXTENDS Integers, FiniteSets, SequencesExt

CONSTANTS WordBits, \* bits of a myint_t
          IntBits   \* bits of an int

ASSUME WidthsAssumption == IntBits \in Nat \ {0} /\ WordBits \in Nat /\ WordBits >= IntBits

WordRange == 2^WordBits
IntMax == 2^(IntBits - 1) - 1

(* These follow from the widths; the provers know nothing of powers.       *)
ASSUME IntsAreWordsAssumption == /\ 2^IntBits \in 1..WordRange
                                 /\ 2^(IntBits - 1) \in 1..2^IntBits
                                 /\ 2^(WordBits - 1) \in 2^(IntBits - 1)..WordRange

-----------------------------------------------------------------------------
(* The text of a query; the harness reads it from a file.                  *)

WrittenPredicates ==
  [join : {FALSE}, rel1 : Nat, col1 : Nat, op : {"<", ">", "="}, value : Nat]
  \cup [join : {TRUE}, rel1 : Nat, col1 : Nat, op : {"="}, rel2 : Nat, col2 : Nat]
WrittenQueries == [rels : Seq(Nat) \ {<<>>},
                   predicates : Seq(WrittenPredicates),
                   sums : Seq([rel : Nat, col : Nat]) \ {<<>>}]

Number(n) == <<"number", n>>
Sign(c) == <<c, 0>>

PredicateText(p) ==
  <<Number(p.rel1), Sign("."), Number(p.col1), Sign(p.op)>>
  \o (IF p.join THEN <<Number(p.rel2), Sign("."), Number(p.col2)>> ELSE <<Number(p.value)>>)
SumText(s) == <<Number(s.rel), Sign("."), Number(s.col)>>

Joined(parts, c) ==
  FlattenSeq([i \in DOMAIN parts |-> IF i = 1 THEN parts[i] ELSE <<Sign(c)>> \o parts[i]])

Text(q) == Joined([i \in DOMAIN q.rels |-> <<Number(q.rels[i])>>], " ")
           \o <<Sign("|")>>
           \o Joined([i \in DOMAIN q.predicates |-> PredicateText(q.predicates[i])], "&")
           \o <<Sign("|")>>
           \o Joined([i \in DOMAIN q.sums |-> SumText(q.sums[i])], " ")

-----------------------------------------------------------------------------
(* The first scan: main counts in the slices between the bars.             *)

Places(line, c) == {i \in DOMAIN line : line[i][1] = c}
Slice(line, i) == Cardinality({k \in Places(line, "|") : k < i})
InSlice(line, c, n) == {i \in Places(line, c) : Slice(line, i) = n}

(* inputStr[i + 2] or inputStr[i + 3] is a dot: a number of one or two     *)
(* digits follows, and then the dot.                                       *)
DotAhead(line, i) == line[i + 1][2] < 100 /\ i + 2 \in Places(line, ".")

NoCounts == [rels |-> 1, joins |-> 0, sums |-> 1, filters |-> 0]

(* The counters go on from where they are.                                 *)
Counted(line, counts) ==
  LET joins == {i \in InSlice(line, "=", 1) : DotAhead(line, i)}
      filters == InSlice(line, "<", 1) \cup InSlice(line, ">", 1)
                 \cup (InSlice(line, "=", 1) \ joins)
  IN  [rels |-> counts.rels + Cardinality(InSlice(line, " ", 0)),
       joins |-> counts.joins + Cardinality(joins),
       sums |-> counts.sums + Cardinality(InSlice(line, " ", 2)),
       filters |-> counts.filters + Cardinality(filters)]

WrongFormat(line) ==
  \/ \E i \in Places(line, " ") : Slice(line, i) \notin {0, 2}
  \/ \E c \in {"=", "<", ">"} : \E i \in Places(line, c) : Slice(line, i) # 1

-----------------------------------------------------------------------------
(* The second scan: ConstructQuery.                                        *)

(* atoi is a conversion to long that stops at LONG_MAX, cut to an int, and *)
(* here stored in an unsigned word.  It gives 0 for what is no number.     *)
TruncatedToSigned(n) == LET low == n % 2^IntBits
                        IN  IF low <= IntMax THEN low ELSE low - 2^IntBits
Truncated(n) == LET low == n % 2^IntBits
                IN  IF low <= IntMax THEN low ELSE low + WordRange - 2^IntBits
atoi(part) ==
  IF part = <<>> \/ part[1][1] # "number" THEN 0
  ELSE Truncated(Min({part[1][2], 2^(WordBits - 1) - 1}))

(* The nth of some positions.                                              *)
Nth(S, n) == CHOOSE i \in S : Cardinality({j \in S : j <= i}) = n
Selected(s, S) == [n \in 1..Cardinality(S) |-> s[Nth(S, n)]]

(* The parts of a text between separators.                                 *)
Split(part, c) ==
  LET ends == Places(part, c) \cup {Len(part) + 1}
  IN  [n \in 1..Cardinality(ends) |->
         SubSeq(part, IF n = 1 THEN 1 ELSE Nth(ends, n - 1) + 1, Nth(ends, n) - 1)]

Has(part, c) == Places(part, c) # {}
SubStrOccur(part, c) == Cardinality(Places(part, c))
IsFilter(part) == \/ Has(part, "=") /\ SubStrOccur(part, ".") = 1
                  \/ ~Has(part, "=") /\ (Has(part, "<") \/ Has(part, ">"))
IsJoin(part) == Has(part, "=") /\ SubStrOccur(part, ".") = 2

Operation(part) == IF Has(part, "=") THEN "=" ELSE IF Has(part, ">") THEN ">" ELSE "<"

(* A relation of the query with the number of rows it has, and a column,   *)
(* which is that of the relation it stands for.                            *)
Participant(rels, rows, rel, col) ==
  [rel |-> rel, numCol |-> col, col |-> <<rels[rel + 1], col>>, rows |-> rows[rels[rel + 1]]]
ParticipantOf(part, rels, rows) ==
  LET numbers == Split(part, ".") IN Participant(rels, rows, atoi(numbers[1]), atoi(numbers[2]))

fillFilterInfo(part, rels, rows) ==
  LET sides == Split(part, Operation(part))
  IN  [participant |-> ParticipantOf(sides[1], rels, rows),
       op |-> Operation(part), value |-> atoi(sides[2])]

fillJoinInfo(part, rels, rows) ==
  LET sides == Split(part, "=")
  IN  [participant1 |-> ParticipantOf(sides[1], rels, rows),
       participant2 |-> ParticipantOf(sides[2], rels, rows)]

(* rows[r]: the rows of relation r of relArray.                            *)
QueryOf(names, predicates, sums, counts, rows) ==
  LET rels == [i \in DOMAIN names |-> atoi(names[i])]
      filters == Selected(predicates, {i \in DOMAIN predicates : IsFilter(predicates[i])})
      joins == Selected(predicates, {i \in DOMAIN predicates : IsJoin(predicates[i])})
  IN  [null |-> \E i \in DOMAIN predicates : ~IsFilter(predicates[i]) /\ ~IsJoin(predicates[i]),
       counts |-> counts,
       rels |-> rels,
       filters |-> [i \in DOMAIN filters |-> fillFilterInfo(filters[i], rels, rows)],
       joins |-> [i \in DOMAIN joins |-> fillJoinInfo(joins[i], rels, rows)],
       sums |-> [i \in DOMAIN sums |-> ParticipantOf(sums[i], rels, rows)]]

ConstructQuery(line, counts, rows) ==
  LET slices == Split(line, "|")
  IN  QueryOf(Split(slices[1], " "), Split(slices[2], "&"), Split(slices[3], " "), counts, rows)

-----------------------------------------------------------------------------
(* What the query says, without its text.                                  *)

Filters(q) == Selected(q.predicates, {i \in DOMAIN q.predicates : ~q.predicates[i].join})
Joins(q) == Selected(q.predicates, {i \in DOMAIN q.predicates : q.predicates[i].join})

ReadAs(q, rows, query) ==
  LET P(rel, col) == Participant(q.rels, rows, rel, col)
  IN  /\ query.rels = q.rels
      /\ query.filters = [i \in DOMAIN Filters(q) |->
           LET p == Filters(q)[i]
           IN  [participant |-> P(p.rel1, p.col1), op |-> p.op, value |-> p.value]]
      /\ query.joins = [i \in DOMAIN Joins(q) |->
           LET p == Joins(q)[i]
           IN  [participant1 |-> P(p.rel1, p.col1), participant2 |-> P(p.rel2, p.col2)]]
      /\ query.sums = [i \in DOMAIN q.sums |-> P(q.sums[i].rel, q.sums[i].col)]

(* The arrays have as many entries as are used.                            *)
Filled(query) == /\ query.counts.rels = Len(query.rels)
                 /\ query.counts.filters = Len(query.filters)
                 /\ query.counts.joins = Len(query.joins)
                 /\ query.counts.sums = Len(query.sums)

(* At least one predicate, numbers that an int holds, and no number of     *)
(* three digits before the dot behind an equals sign.                      *)
NumbersOf(p) == {p.rel1, p.col1} \cup (IF p.join THEN {p.rel2, p.col2} ELSE {p.value})
Ordinary(q) ==
  /\ q.predicates # <<>>
  /\ \A i \in DOMAIN q.rels : q.rels[i] <= IntMax
  /\ \A i \in DOMAIN q.predicates : \A n \in NumbersOf(q.predicates[i]) : n <= IntMax
  /\ \A i \in DOMAIN q.predicates : q.predicates[i].join => q.predicates[i].rel2 < 100
  /\ \A i \in DOMAIN q.sums : q.sums[i].rel <= IntMax /\ q.sums[i].col <= IntMax
=============================================================================

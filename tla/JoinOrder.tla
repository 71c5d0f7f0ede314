----------------------------- MODULE JoinOrder -----------------------------
(***************************************************************************)
(* The order in which the joins of a query are executed: ConstructGraph    *)
(* (src/graph.c) turns them into a graph of relations, joinEnumeration     *)
(* (src/joinEnumeration.c) finds for larger and larger sets of relations   *)
(* the cheapest left deep tree, and SetPriorities writes the joins of the  *)
(* tree and the ones that are left into query->priorities, where           *)
(* executeFilterPredicates (src/getStats.c) has put the self joins and -1  *)
(* means unused.                                                           *)
(*                                                                         *)
(* Costs are estimates from statistics: any of the trees found for a set   *)
(* may turn out the cheapest.  Relations and joins are numbered from 0, as *)
(* their digits are in comb and joinSeq; there are at most ten of each.    *)
(***************************************************************************)
EXTENDS Integers, FiniteSets, SequencesExt

CONSTANT Queries \* records: numOfRels, the relations of a query; joins, from 0

ASSUME SizesAssumption ==
         \A q \in Queries : /\ q.numOfRels \in 2..10
                            /\ \E n \in 1..10 : DOMAIN q.joins = 0..n-1
ASSUME JoinsAssumption ==
         \A q \in Queries : \A i \in DOMAIN q.joins :
           {q.joins[i].rel1, q.joins[i].rel2} \subseteq 0..q.numOfRels-1

VARIABLES numOfRels,  \* the relations of the query
          joins,      \* its joins
          hashTree,   \* joinSeq of the best tree of every set that has one
          level,      \* size of the sets that joinEnumeration extends
          pc,         \* "enumerate", "sequence", "rest", "done", "undefined"
          priorities, \* query->priorities
          sequence,   \* joinSeq of the whole query
          j, k,       \* loop counters of SetPriorities
          already     \* alreadyPrioritized

vars == <<numOfRels, joins, hashTree, level, pc, priorities, sequence, j, k, already>>

Rels == 0..numOfRels-1
NumJoins == Cardinality(DOMAIN joins)
Pair(join) == {join.rel1, join.rel2}

(* The second type of filter predicate.                                    *)
IsSelfJoin(join) == join.rel1 = join.rel2 /\ join.col1 # join.col2

-----------------------------------------------------------------------------
(* graph.c: an edge goes from the first participant to the second, self    *)
(* joins have none.  areConnected takes the first relation of the set, in  *)
(* order, that has an edge to r, and the first such edge.                  *)

Edges(a, b) == {i \in DOMAIN joins : ~IsSelfJoin(joins[i])
                                     /\ joins[i].rel1 = a /\ joins[i].rel2 = b}
Neighbours(S, r) == {c \in S : Edges(c, r) \cup Edges(r, c) # {}}
ConnectedOneWay(S, r) == {c \in S : Edges(c, r) # {}} # {}
areConnected(S, r) == Neighbours(S, r) # {}
JoinId(S, r) ==
  LET c == Min(Neighbours(S, r))
  IN  IF Edges(c, r) # {} THEN Min(Edges(c, r)) ELSE Min(Edges(r, c))

(* The queries of the workload connect all their relations: they cannot be *)
(* split in two parts that no join crosses.                                *)
ConnectedQuery(js) ==
  ~ \E S \in (SUBSET Rels) \ {{}, Rels} :
      \A i \in DOMAIN js : Pair(js[i]) \subseteq S \/ Pair(js[i]) \cap S = {}

-----------------------------------------------------------------------------
Trees == {S \in SUBSET Rels : S # {}}

(* priorities and joinSeq name joins of the query, and the counters of     *)
(* SetPriorities stay in their ranges (joinEnumeration.c:464).             *)
TypeOK ==
  /\ numOfRels \in 2..10
  /\ \A i \in DOMAIN joins : Pair(joins[i]) \subseteq Rels
  /\ DOMAIN hashTree \subseteq Trees
  /\ \A S \in DOMAIN hashTree : hashTree[S] \in Seq(0..NumJoins-1)
  /\ level \in 1..numOfRels
  /\ pc \in {"enumerate", "sequence", "rest", "done", "undefined"}
  /\ priorities \in [0..NumJoins-1 -> -1..NumJoins-1]
  /\ sequence \in Seq(0..NumJoins-1)
  /\ j \in 0..NumJoins
  /\ k \in 0..NumJoins-1
  /\ already \in 0..(NumJoins * NumJoins)

(* The self joins, in the order in which the query lists them.             *)
SelfJoins(js) ==
  LET upTo[n \in 0..Cardinality(DOMAIN js)] ==
        IF n = 0 THEN <<>>
        ELSE IF IsSelfJoin(js[n-1]) THEN Append(upTo[n-1], n-1) ELSE upTo[n-1]
  IN  upTo[Cardinality(DOMAIN js)]

Init ==
  /\ \E q \in Queries : numOfRels = q.numOfRels /\ joins = q.joins
  /\ ConnectedQuery(joins)
  /\ hashTree = [S \in {{r} : r \in Rels} |-> <<>>]
  /\ level = 1
  /\ pc = "enumerate"
  /\ priorities = [i \in 0..NumJoins-1 |->
                     IF i < Len(SelfJoins(joins)) THEN SelfJoins(joins)[i + 1] ELSE -1]
  /\ sequence = <<>>
  /\ j = 0 /\ k = 0 /\ already = 0

-----------------------------------------------------------------------------
(* joinEnumeration: all sets of one size, each extended by every relation  *)
(* that is connected to it.                                                *)

(* The relations that may be the last to be joined in a tree of T.         *)
LastOf(T) == {r \in T : T \ {r} \in DOMAIN hashTree /\ areConnected(T \ {r}, r)}

CreateJoinTree(T, r) == Append(hashTree[T \ {r}], JoinId(T \ {r}, r))

joinEnumeration ==
  /\ pc = "enumerate"
  /\ level < numOfRels
  /\ LET next == {T \in Trees : Cardinality(T) = level + 1 /\ LastOf(T) # {}}
     IN  \E last \in [next -> Rels] :
           /\ \A T \in next : last[T] \in LastOf(T)
           /\ hashTree' = [S \in DOMAIN hashTree \cup next |->
                             IF S \in next THEN CreateJoinTree(S, last[S]) ELSE hashTree[S]]
  /\ level' = level + 1
  /\ UNCHANGED <<numOfRels, joins, pc, priorities, sequence, j, k, already>>

EndEnumeration ==
  /\ pc = "enumerate"
  /\ level = numOfRels
  /\ pc' = "sequence"
  /\ sequence' = hashTree[Rels]
  /\ UNCHANGED <<numOfRels, joins, hashTree, level, priorities, j, k, already>>

-----------------------------------------------------------------------------
(* SetPriorities                                                           *)

(* The joins of the tree go behind the self joins.                         *)
AtTheStart == 0
FirstFree == Min({i \in 0..NumJoins : i = NumJoins \/ priorities[i] = -1})

SetSequence ==
  /\ pc = "sequence"
  /\ LET free == FirstFree
         end == free + Len(sequence)
     IN  /\ priorities' = [i \in 0..NumJoins-1 |->
                             IF i \in free..end-1 THEN sequence[i - free + 1]
                             ELSE priorities[i]]
         /\ j' = end
         /\ already' = end
         /\ pc' = IF end < NumJoins THEN "rest" ELSE "done"
  /\ k' = 0
  /\ UNCHANGED <<numOfRels, joins, hashTree, level, sequence>>

(* The prioritized joins between the relations of join k; the search ends  *)
(* at the first.                                                           *)
SamePair(p) == Pair(joins[priorities[p]]) = Pair(joins[k])
Unread(p) == p >= NumJoins \/ priorities[p] = -1
Matches == {p \in 0..already-1 : ~Unread(p) /\ SamePair(p)}
ReadFirst == {p \in 0..already-1 : \A q \in Matches : p <= q}

Aligned(a, b) == /\ a.rel1 = b.rel1 /\ a.rel2 = b.rel2
                 /\ a.col1 = b.col1 /\ a.col2 = b.col2
Reversed(b) == [rel1 |-> b.rel2, col1 |-> b.col2, rel2 |-> b.rel1, col2 |-> b.col1]
Identical(p) == LET a == joins[priorities[p]]
                IN  IF a.rel1 = joins[k].rel1 /\ a.rel2 = joins[k].rel2
                    THEN Aligned(a, joins[k]) ELSE Aligned(a, Reversed(joins[k]))

(* Join k goes behind p; what was at p + 1 .. j - 1 moves up, what was at  *)
(* j is lost.                                                              *)
InsertedBefore(p) ==
  [i \in 0..NumJoins-1 |->
     IF i = p THEN k ELSE IF i \in p+1..j THEN priorities[i - 1] ELSE priorities[i]]
Inserted(p) ==
  [i \in 0..NumJoins-1 |->
     IF i = (IF j > p + 1 THEN p + 1 ELSE j) THEN k
     ELSE IF i \in p+2..j THEN priorities[i - 1] ELSE priorities[i]]

NextJoinTooFar == /\ k' = IF k < NumJoins THEN k + 1 ELSE 0
                  /\ j' = IF k < NumJoins THEN j ELSE j + 1
                  /\ pc' = IF k = NumJoins /\ j + 1 = NumJoins THEN "done" ELSE "rest"
                  /\ UNCHANGED <<numOfRels, joins, hashTree, level, sequence>>
NextJoin == /\ k' = IF k + 1 < NumJoins THEN k + 1 ELSE 0
            /\ j' = IF k + 1 < NumJoins THEN j ELSE j + 1
            /\ pc' = IF k + 1 = NumJoins /\ j + 1 = NumJoins THEN "done" ELSE "rest"
            /\ UNCHANGED <<numOfRels, joins, hashTree, level, sequence>>

(* Join k is in the tree, or there is one like it.                         *)
SkipJoin == /\ pc = "rest"
            /\ \/ k \in Range(sequence)
               \/ /\ Matches # {}
                  /\ Identical(Min(Matches))
                  /\ \A p \in ReadFirst : ~Unread(p)
            /\ NextJoin
            /\ UNCHANGED <<priorities, already>>

InsertJoin == /\ pc = "rest"
              /\ k \notin Range(sequence)
              /\ Matches # {}
              /\ ~Identical(Min(Matches))
              /\ \A p \in ReadFirst : ~Unread(p)
              /\ priorities' = Inserted(Min(Matches))
              /\ already' = already + 1
              /\ NextJoin

AppendJoin == /\ pc = "rest"
              /\ k \notin Range(sequence)
              /\ Matches = {}
              /\ \A p \in ReadFirst : ~Unread(p)
              /\ priorities' = [priorities EXCEPT ![j] = k]
              /\ NextJoin
              /\ UNCHANGED already

(* The search reads joins[-1], or priorities behind its end.               *)
ReadOutside == /\ pc = "rest"
               /\ k \notin Range(sequence)
               /\ {p \in ReadFirst : Unread(p)} # {}
               /\ pc' = "undefined"
               /\ UNCHANGED <<numOfRels, joins, hashTree, level, priorities, sequence, j, k, already>>

-----------------------------------------------------------------------------
Stopped == pc \in {"done", "undefined"} /\ UNCHANGED vars

Next == \/ joinEnumeration \/ EndEnumeration \/ SetSequence
        \/ SkipJoin \/ InsertJoin \/ AppendJoin \/ ReadOutside \/ Stopped

Spec == Init /\ [][Next]_vars

-----------------------------------------------------------------------------
(* Properties                                                              *)

RelsBefore(seq, n) == UNION {Pair(joins[seq[i]]) : i \in 1..n-1}

(* A tree is left deep and spans its set: every join but the first adds    *)
(* one relation to those joined before it, so it is never a cross product  *)
(* and never a join of two relations that are in the intermediate already. *)
(* A connected query has a tree: SetPriorities is never given NULL.        *)
LeftDeep ==
  /\ pc = "enumerate" => \A S \in DOMAIN hashTree :
       Cardinality(S) > 1 =>
         /\ Len(hashTree[S]) = Cardinality(S) - 1
         /\ RelsBefore(hashTree[S], Cardinality(S)) = S
         /\ \A n \in 2..Len(hashTree[S]) :
              Cardinality(Pair(joins[hashTree[S][n]]) \ RelsBefore(hashTree[S], n)) = 1
  /\ level = numOfRels => Rels \in DOMAIN hashTree

(* The joins that remain when the tree, what is identical to one of its    *)
(* joins, and the self joins are taken out.                                *)
SameJoin(a, b) == Aligned(a, b) \/ Aligned(a, Reversed(b))
Rest == {i \in DOMAIN joins : /\ ~IsSelfJoin(joins[i])
                              /\ \A n \in Range(sequence) : ~SameJoin(joins[n], joins[i])}

Scheduled == \A i \in DOMAIN joins :
               \E p \in DOMAIN priorities :
                 priorities[p] # -1 /\ SameJoin(joins[priorities[p]], joins[i])

(* At most one join closes a cycle, or joins two columns more of a pair    *)
(* that is joined already, and no relation has two different self joins.   *)
OneMore ==
  /\ Cardinality(Rest) <= 1
  /\ \A a, b \in DOMAIN joins :
       IsSelfJoin(joins[a]) /\ IsSelfJoin(joins[b])
       /\ joins[a].rel1 = joins[b].rel1 => Aligned(joins[a], joins[b])

(* Then every predicate is executed, and the search stays in priorities.   *)
OneMoreIsScheduled ==
  OneMore => pc # "undefined" /\ (pc = "done" => Scheduled)

(* What is not in the tree is executed when both its relations are in the  *)
(* same intermediate already, where it is a filter.                        *)
RestAreFilters ==
  pc = "done" /\ OneMore =>
    \A p \in DOMAIN priorities :
      priorities[p] \notin Range(sequence) /\ priorities[p] # -1
      /\ Cardinality(Pair(joins[priorities[p]])) = 2 =>
        Pair(joins[priorities[p]]) \subseteq
          UNION {Pair(joins[priorities[q]]) :
                   q \in {q \in 0..p-1 : priorities[q] \in Range(sequence)}}

(* "iterate through joins in order to set priority to those who are done   *)
(* between rels that have already participate to previous joins"           *)
(* (joinEnumeration.c:485): every one of them gets a priority.             *)
EveryJoinIsScheduled == pc = "done" => Scheduled
=============================================================================

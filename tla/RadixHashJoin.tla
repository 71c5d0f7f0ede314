--------------------------- MODULE RadixHashJoin ---------------------------
(***************************************************************************)
(* radixHashJoin (src/radixHashJoin.c) and the two warehouses it shares    *)
(* between the joins of all queries (src/functions.c): the index warehouse *)
(* keeps the hash index built over a column, the reordered warehouse the   *)
(* columns that were partitioned, each with the number of bits h1 of its   *)
(* first hash.  Index and probe must agree on h1, which travels through    *)
(* the calls by reference: FIRST_REORDERED (100) asks reorderRelation to   *)
(* choose it, and makes FetchFromReWarehouse answer from bestHashValues    *)
(* without saying which h1 the answer has.                                 *)
(*                                                                         *)
(* Only the main thread joins, one call after the other, so a call is one  *)
(* step.  An array is known by the relation it came from, its size and     *)
(* the bits it was partitioned by; what is in it is RadixPartition's and   *)
(* IndexSearch's subject.  A join of queries the program can be given may  *)
(* be of two columns, an intermediate and a column, or two intermediates.  *)
(***************************************************************************)
EXTENDS Integers, Sequences, FiniteSets

CONSTANTS Columns,      \* pairs (realRel, realCol)
          Rows,         \* Rows[c]: rows of the column
          Inters,       \* intermediate results
          InterSizes,   \* sizes an intermediate can have
          CacheSize,    \* AVAILABLE_CACHE_SIZE, in bytes
          None          \* NULL

FIRST_REORDERED == 100

(* The caches n tuples of 16 bytes fill, with a margin of 1.05, rounded up;*)
(* FindNextPower makes that the next power of two.                         *)
Buckets(n) == LET full == (16 * n) \div CacheSize
              IN  full + full \div 20 + 1
IsWidth(b, n) == 2^b >= Buckets(n) /\ (b = 0 \/ 2^(b - 1) < Buckets(n))

Sizes == InterSizes \cup {Rows[c] : c \in Columns}

Array == [of : Columns \cup Inters, size : Nat, bits : Nat]
IndexEntries == [col : Columns, hash1 : Nat, over : Array]
ReEntries == [col : Columns, hash1 : Nat, array : Array]

ASSUME RowsAssumption == /\ Rows \in [Columns -> Nat]
                         /\ InterSizes \subseteq Nat
                         /\ CacheSize \in Nat \ {0}
(* The number of buckets is a myint_t, of 64 bits.                         *)
ASSUME WidthAssumption == \A n \in Sizes : \E b \in 0..63 : IsWidth(b, n)
ASSUME NamesAssumption == /\ Inters \cap Columns = {}
                          /\ None \notin Array \cup IndexEntries

VARIABLES index,  \* indexWarehouse: entries in the order they were added
          arrays, \* reWarehouse
          best,   \* bestHashValues
          join    \* the call made last: index, probe, switched, what it freed

vars == <<index, arrays, best, join>>

-----------------------------------------------------------------------------
Hash1(n) == CHOOSE b \in 0..63 : IsWidth(b, n)

(* The bits reorderRelation leaves in *hash1; an empty relation leaves it  *)
(* alone.                                                                  *)
HashWidthForgottenCall(n, h1) == IF n = 0 THEN h1 ELSE Hash1(n)
HashWidthOneLess(n, h1) == HashWidthForgottenCall(n, h1) - 1
HashWidth(n, h1) ==
  IF n = 0 THEN h1 ELSE IF h1 = FIRST_REORDERED THEN Hash1(n) ELSE h1

reorderRelation(x, n, h1) == [of |-> x, size |-> n, bits |-> HashWidth(n, h1)]

(* The first entry of a warehouse with a property.                         *)
First(hits) == CHOOSE i \in hits : \A j \in hits : i <= j

IndexHits(c) == {i \in DOMAIN index : index[i].col = c}
FetchAllButTheLast(c) ==
  LET hits == IndexHits(c) \ {Len(index)}
  IN  IF hits = {} THEN None ELSE index[First(hits)]
FetchFromIndexWarehouse(c) ==
  IF IndexHits(c) = {} THEN None ELSE index[First(IndexHits(c))]

ReHits(c, h1) == {i \in DOMAIN arrays : arrays[i].col = c /\ arrays[i].hash1 = h1}
FetchAnyWidth(c, h1) ==
  LET hits == {i \in DOMAIN arrays : arrays[i].col = c}
  IN  IF hits = {} THEN None ELSE arrays[First(hits)].array
FetchFromReWarehouse(c, h1) ==
  IF h1 = FIRST_REORDERED THEN best[c]
  ELSE IF ReHits(c, h1) = {} THEN None ELSE arrays[First(ReHits(c, h1))].array

IndexEntry(c, h1, ror) == [col |-> c, hash1 |-> h1, over |-> ror]
ReEntry(c, array) == [col |-> c, hash1 |-> array.bits, array |-> array]

(* A column to probe with: the cached array, or a new one that is cached.  *)
ColumnBy(c, h1) ==
  IF FetchFromReWarehouse(c, h1) # None THEN FetchFromReWarehouse(c, h1)
  ELSE reorderRelation(c, Rows[c], h1)
AddedFor(c, h1) ==
  IF FetchFromReWarehouse(c, h1) # None THEN <<>>
  ELSE <<ReEntry(c, ColumnBy(c, h1))>>
(* *hash1 after that.                                                      *)
WidthAfter(c, h1) ==
  IF FetchFromReWarehouse(c, h1) # None THEN h1
  ELSE HashWidth(Rows[c], h1)

-----------------------------------------------------------------------------
(* What is cached and what is joined was partitioned by a number of bits.  *)
TypeOK ==
  /\ index \in Seq(IndexEntries)
  /\ arrays \in Seq(ReEntries)
  /\ best \in [Columns -> Array \cup {None}]
  /\ \/ join = None
     \/ join \in [r : Columns \cup Inters, s : Columns \cup Inters,
                  over : Array, hash1 : Nat, probe : Array,
                  switched : {0, 1}, freed : SUBSET Array]

Init == /\ index = <<>>
        /\ arrays = <<>>
        /\ best = [c \in Columns |-> None]
        /\ join = None

(* indexing and searchThreadVer work on these; then the call frees what    *)
(* freedomFlag says is not kept.                                           *)
Joined(r, s, over, hash1, probe, switched, freed) ==
  join' = [r |-> r, s |-> s, over |-> over, hash1 |-> hash1, probe |-> probe,
           switched |-> switched, freed |-> freed]

-----------------------------------------------------------------------------
(* switched = 0: two columns.                                              *)

(* The index of r, or else the index of s, is in the warehouse.            *)
IndexOfEither(r, s, owner, other, switched) ==
  LET found == FetchFromIndexWarehouse(owner)
  IN  /\ found # None
      /\ arrays' = arrays \o AddedFor(other, found.hash1)
      /\ Joined(r, s, found.over, WidthAfter(other, found.hash1),
                ColumnBy(other, found.hash1), switched, {})
      /\ UNCHANGED <<index, best>>

UseIndexOfR(r, s) == IndexOfEither(r, s, r, s, 0)
UseIndexOfS(r, s) == /\ FetchFromIndexWarehouse(r) = None
                     /\ IndexOfEither(r, s, s, r, 1)

(* Neither is: the smaller column is partitioned first, by the bits that   *)
(* suit it, the other one by the same bits.                                *)
PartitionBoth(owner, other, switched) ==
  LET ror == reorderRelation(owner, Rows[owner], FIRST_REORDERED)
      ros == reorderRelation(other, Rows[other], ror.bits)
  IN  [ror |-> ror, ros |-> ros, hash1 |-> ros.bits, switched |-> switched,
       added |-> <<ReEntry(owner, ror), ReEntry(other, ros)>>,
       best |-> [best EXCEPT ![owner] = ror]]

(* What the code does if a column has a best array and no index: it keeps  *)
(* that array for RoR and leaves h1 and switched as they are.              *)
UseBestOfR(r, s) ==
  [ror |-> best[r], ros |-> ColumnBy(s, FIRST_REORDERED),
   hash1 |-> WidthAfter(s, FIRST_REORDERED), switched |-> 0,
   added |-> AddedFor(s, FIRST_REORDERED), best |-> best]
UseBestOfS(r, s) ==
  LET ros == reorderRelation(r, Rows[r], FIRST_REORDERED)
  IN  [ror |-> best[s], ros |-> ros, hash1 |-> ros.bits, switched |-> 0,
       added |-> <<ReEntry(r, ros)>>, best |-> best]

Partitioned(r, s) ==
  IF best[r] # None THEN UseBestOfR(r, s)
  ELSE IF best[s] # None THEN UseBestOfS(r, s)
  ELSE IF Rows[r] < Rows[s] THEN PartitionBoth(r, s, 0)
  ELSE PartitionBoth(s, r, 1)

IndexUnderR(r, s, switched) == r
IndexedSide(r, s, switched) == IF switched = 0 THEN r ELSE s

IndexNeither(r, s) ==
  LET p == Partitioned(r, s)
  IN  /\ FetchFromIndexWarehouse(r) = None
      /\ FetchFromIndexWarehouse(s) = None
      /\ arrays' = arrays \o p.added
      /\ best' = p.best
      /\ index' = Append(index, IndexEntry(IndexedSide(r, s, p.switched),
                                           p.hash1, p.ror))
      /\ Joined(r, s, p.ror, p.hash1, p.ros, p.switched, {})

-----------------------------------------------------------------------------
(* switched = 1: r is an intermediate of n rows, s a column.  The index is *)
(* always of s; what was partitioned of the intermediate is freed.         *)

InterUsesIndex(r, n, s) ==
  LET found == FetchFromIndexWarehouse(s)
      ros == reorderRelation(r, n, found.hash1)
  IN  /\ found # None
      /\ Joined(r, s, found.over, ros.bits, ros, 1, {ros})
      /\ UNCHANGED <<index, arrays, best>>

InterFreesBoth(r, n, s) ==
  LET ror == ColumnBy(s, FIRST_REORDERED)
      ros == reorderRelation(r, n, WidthAfter(s, FIRST_REORDERED))
  IN  /\ FetchFromIndexWarehouse(s) = None
      /\ arrays' = arrays \o AddedFor(s, FIRST_REORDERED)
      /\ best' = [best EXCEPT ![s] = ror]
      /\ index' = Append(index, IndexEntry(s, ros.bits, ror))
      /\ Joined(r, s, ror, ros.bits, ros, 1, {ror, ros})
InterIndexesColumn(r, n, s) ==
  LET ror == ColumnBy(s, FIRST_REORDERED)
      ros == reorderRelation(r, n, WidthAfter(s, FIRST_REORDERED))
  IN  /\ FetchFromIndexWarehouse(s) = None
      /\ arrays' = arrays \o AddedFor(s, FIRST_REORDERED)
      /\ best' = [best EXCEPT ![s] = ror]
      /\ index' = Append(index, IndexEntry(s, ros.bits, ror))
      /\ Joined(r, s, ror, ros.bits, ros, 1, {ros})

-----------------------------------------------------------------------------
(* switched = 2: two intermediates; nothing is kept.                       *)
JoinInters(r, m, s, n) ==
  LET switched == IF m <= n THEN 0 ELSE 1
      ror == IF switched = 0 THEN reorderRelation(r, m, FIRST_REORDERED)
             ELSE reorderRelation(s, n, FIRST_REORDERED)
      ros == IF switched = 0 THEN reorderRelation(s, n, ror.bits)
             ELSE reorderRelation(r, m, ror.bits)
  IN  /\ Joined(r, s, ror, ros.bits, ros, switched, {ror, ros})
      /\ UNCHANGED <<index, arrays, best>>

-----------------------------------------------------------------------------
JoinColumns(r, s) == UseIndexOfR(r, s) \/ UseIndexOfS(r, s) \/ IndexNeither(r, s)
JoinInterWithColumn(r, n, s) == InterUsesIndex(r, n, s) \/ InterIndexesColumn(r, n, s)

Next ==
  \/ \E r, s \in Columns : JoinColumns(r, s)
  \/ \E r \in Inters, n \in InterSizes, s \in Columns : JoinInterWithColumn(r, n, s)
  \/ \E r, s \in Inters, m, n \in InterSizes : r # s /\ JoinInters(r, m, s, n)

Spec == Init /\ [][Next]_vars

-----------------------------------------------------------------------------
(* Properties                                                              *)

(* bestHashValues gives an array without its h1, so it must never be asked *)
(* for a column that has one: a column with a best array has an index, and *)
(* then the code looks at the index first.                                 *)
BestImpliesIndexed == \A c \in Columns : best[c] # None => IndexHits(c) # {}

(* An entry of either warehouse holds what its key says: the array of that *)
(* column, with as many rows, partitioned by that many bits (an empty one  *)
(* by any).                                                                *)
Of(array, c, h1) == /\ array.of = c
                    /\ array.size = Rows[c]
                    /\ array.size # 0 => array.bits = h1
CachesTruthful ==
  /\ \A i \in DOMAIN index : Of(index[i].over, index[i].col, index[i].hash1)
  /\ \A i \in DOMAIN arrays : Of(arrays[i].array, arrays[i].col, arrays[i].hash1)

(* A column is indexed once: the 1000 entries of indexWarehouse do for     *)
(* 1000 columns, however many queries are run.                             *)
OneIndexPerColumn == \A c \in Columns : Cardinality(IndexHits(c)) <= 1

(* The join is of its two operands: the index is over the one that         *)
(* switched, as it is returned, says holds rowR, and the other one probes. *)
JoinsItsOperands ==
  join # None =>
    IF join.switched = 0 THEN join.over.of = join.r /\ join.probe.of = join.s
    ELSE join.over.of = join.s /\ join.probe.of = join.r

(* An index is probed with the radix it was built with, unless nothing     *)
(* probes it.                                                              *)
NoEmptyRelation == \A c \in Columns : Rows[c] # 0
SameRadix ==
  join # None /\ join.probe.size # 0 =>
    /\ join.probe.bits = join.hash1
    /\ join.over.size # 0 => join.over.bits = join.probe.bits

(* What a call frees is in no warehouse.                                   *)
CachedStaysAllocated ==
  join # None =>
    /\ \A i \in DOMAIN index : index[i].over \notin join.freed
    /\ \A i \in DOMAIN arrays : arrays[i].array \notin join.freed
    /\ \A c \in Columns : best[c] \notin join.freed

(* "returns *hash1=n, the number of least important bits used by the hash  *)
(* function" (H1.c:222): indexing is given a number of bits, never the     *)
(* request to choose one.                                                  *)
HashWidthChosen == join # None => join.hash1 # FIRST_REORDERED
=============================================================================

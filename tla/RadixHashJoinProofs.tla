------------------------ MODULE RadixHashJoinProofs ------------------------
(***************************************************************************)
(* Proofs about RadixHashJoin for all columns, intermediates, sizes and    *)
(* cache sizes.                                                            *)
(*                                                                         *)
(* The argument: every entry of a warehouse is true when it is added and   *)
(* none is changed, so the sequences stay sequences of true entries        *)
(* (CacheInv); a column gets its best array in the call that indexes it,   *)
(* so a call that finds no index finds no best array either and chooses h1 *)
(* anew; hence h1, the index and the probing array agree in what is joined *)
(* (JoinInv, and RadixInv when no column is empty).                        *)
(***************************************************************************)
EXTENDS RadixHashJoin, FiniteSetTheorems, SequenceTheorems, WellFoundedInduction,
        TLAPS

TrueIndex == {e \in IndexEntries : Of(e.over, e.col, e.hash1)}
TrueArrays == {e \in ReEntries : Of(e.array, e.col, e.hash1)}
ArraysOf(c) == {a \in Array : a.of = c /\ a.size = Rows[c]}

CacheInv == /\ index \in Seq(TrueIndex)
            /\ arrays \in Seq(TrueArrays)
            /\ best \in [Columns -> Array \cup {None}]
            /\ \A c \in Columns : best[c] # None => best[c] \in ArraysOf(c)
            /\ BestImpliesIndexed

(* No two entries of the index warehouse are of one column.                *)
IndexDistinct == \A i, j \in DOMAIN index : index[i].col = index[j].col => i = j

(* What a call may leave in join: only arrays of intermediates are freed.  *)
Joins == [r : Columns \cup Inters, s : Columns \cup Inters, over : Array,
          hash1 : Nat, probe : Array, switched : {0, 1}, freed : SUBSET Array]
JoinInv == join = None \/ /\ join \in Joins
                          /\ JoinsItsOperands
                          /\ \A a \in join.freed : a.of \in Inters

Inv == CacheInv /\ IndexDistinct /\ JoinInv

(* The h1 of an index is a number of bits.                                 *)
RadixInv == /\ \A i \in DOMAIN index : index[i].hash1 # FIRST_REORDERED
            /\ SameRadix

-----------------------------------------------------------------------------
(* Helpers                                                                 *)

(* The first of some positions is one of them.                             *)
LEMMA FirstIsAHit ==
  ASSUME NEW hits, hits \subseteq Nat, hits # {}
  PROVE  First(hits) \in hits
<1>1. PICK i \in hits : \A j \in hits : <<j, i>> \notin OpToRel(<, Nat)
  BY WFMin, NatLessThanWellFounded, Zenon
<1>2. \A j \in hits : ~(j < i)
  BY <1>1, Zenon DEF OpToRel
<1>3. \A j \in hits : i <= j
  BY <1>2
<1>. QED  BY <1>3, Zenon DEF First

(* reorderRelation gives an array of what it was given; the bits it chose  *)
(* or was given are a number of bits, unless the relation is empty.        *)
LEMMA Hash1Type ==
  ASSUME NEW n \in Sizes
  PROVE  Hash1(n) \in 0..63
<1>1. \E b \in 0..63 : IsWidth(b, n)
  BY WidthAssumption
<1>. QED  BY <1>1, Zenon DEF Hash1

LEMMA SizesAreNats == Sizes \subseteq Nat
  BY RowsAssumption DEF Sizes

LEMMA Reordered ==
  ASSUME NEW x \in Columns \cup Inters, NEW n \in Sizes, NEW h1 \in Nat
  PROVE  /\ reorderRelation(x, n, h1) \in Array
         /\ reorderRelation(x, n, h1).of = x
         /\ reorderRelation(x, n, h1).size = n
         /\ reorderRelation(x, n, h1).bits = HashWidth(n, h1)
         /\ HashWidth(n, h1) \in Nat
         /\ n # 0 => HashWidth(n, h1) # FIRST_REORDERED
         /\ h1 # FIRST_REORDERED => HashWidth(n, h1) = h1
         /\ n # 0 /\ h1 = FIRST_REORDERED => HashWidth(n, h1) \in 0..63
<1>1. Hash1(n) \in 0..63
  BY Hash1Type
<1>2. HashWidth(n, h1) = IF n = 0 THEN h1
                         ELSE IF h1 = FIRST_REORDERED THEN Hash1(n) ELSE h1
  BY DEF HashWidth
<1>3. n \in Nat
  BY SizesAreNats
<1>4. HashWidth(n, h1) \in Nat
  BY <1>1, <1>2
<1>. QED  BY <1>1, <1>2, <1>3, <1>4 DEF reorderRelation, Array, FIRST_REORDERED

LEMMA RowsAreSizes == \A c \in Columns : Rows[c] \in Sizes /\ Rows[c] \in Nat
  BY RowsAssumption DEF Sizes

LEMMA ColumnReordered ==
  ASSUME NEW c \in Columns, NEW h1 \in Nat
  PROVE  /\ reorderRelation(c, Rows[c], h1) \in ArraysOf(c)
         /\ reorderRelation(c, Rows[c], h1).size = Rows[c]
         /\ reorderRelation(c, Rows[c], h1).bits \in Nat
         /\ reorderRelation(c, Rows[c], h1).bits = HashWidth(Rows[c], h1)
         /\ Rows[c] # 0 => reorderRelation(c, Rows[c], h1).bits # FIRST_REORDERED
         /\ h1 # FIRST_REORDERED => reorderRelation(c, Rows[c], h1).bits = h1
  BY Reordered, RowsAreSizes DEF ArraysOf

(* FetchFromIndexWarehouse gives an entry of the column, if there is one.  *)
LEMMA IndexFetched ==
  ASSUME CacheInv, NEW c \in Columns
  PROVE  /\ IndexHits(c) = {} => FetchFromIndexWarehouse(c) = None
         /\ IndexHits(c) # {} =>
              \E i \in DOMAIN index : /\ index[i] \in TrueIndex
                                      /\ index[i].col = c
                                      /\ FetchFromIndexWarehouse(c) = index[i]
         /\ FetchFromIndexWarehouse(c) = None => IndexHits(c) = {}
<1>1. index \in Seq(TrueIndex)
  BY DEF CacheInv
<1>2. DOMAIN index = 1..Len(index) /\ Len(index) \in Nat
  BY <1>1
<1>3. \A i \in DOMAIN index : index[i] \in TrueIndex
  BY <1>1, <1>2
<1>4. ASSUME IndexHits(c) # {}
      PROVE  First(IndexHits(c)) \in IndexHits(c)
  <2>1. IndexHits(c) \subseteq Nat
    BY <1>2 DEF IndexHits
  <2>. QED  BY <1>4, <2>1, FirstIsAHit
<1>5. \A i \in DOMAIN index : index[i] # None
  BY <1>3, NamesAssumption DEF TrueIndex
<1>. QED  BY <1>3, <1>4, <1>5 DEF FetchFromIndexWarehouse, IndexHits

(* FetchFromReWarehouse gives an array of the column, of the bits it was   *)
(* asked for.                                                              *)
LEMMA ArrayFetched ==
  ASSUME CacheInv, NEW c \in Columns, NEW h1 \in Nat,
         FetchFromReWarehouse(c, h1) # None
  PROVE  /\ FetchFromReWarehouse(c, h1) \in ArraysOf(c)
         /\ h1 # FIRST_REORDERED /\ Rows[c] # 0 =>
              FetchFromReWarehouse(c, h1).bits = h1
<1>1. CASE h1 = FIRST_REORDERED
  BY <1>1 DEF FetchFromReWarehouse, CacheInv
<1>2. CASE h1 # FIRST_REORDERED
  <2>1. arrays \in Seq(TrueArrays)
    BY DEF CacheInv
  <2>2. DOMAIN arrays = 1..Len(arrays) /\ Len(arrays) \in Nat
    BY <2>1
  <2>3. ReHits(c, h1) # {} /\ ReHits(c, h1) \subseteq Nat
    BY <1>2, <2>2 DEF FetchFromReWarehouse, ReHits
  <2>4. PICK i \in ReHits(c, h1) : FetchFromReWarehouse(c, h1) = arrays[i].array
    BY <1>2, <2>3, FirstIsAHit DEF FetchFromReWarehouse
  <2>5. arrays[i] \in TrueArrays /\ arrays[i].col = c /\ arrays[i].hash1 = h1
    BY <2>1, <2>2 DEF ReHits
  <2>. QED  BY <2>4, <2>5 DEF TrueArrays, ReEntries, ArraysOf, Of
<1>. QED  BY <1>1, <1>2

(* A new array makes a true entry of the reordered warehouse.              *)
LEMMA NewEntryIsTrue ==
  ASSUME NEW c \in Columns, NEW array \in ArraysOf(c)
  PROVE  ReEntry(c, array) \in TrueArrays
  BY DEF ReEntry, TrueArrays, ReEntries, ArraysOf, Array, Of

(* A column to probe with, however it is got.                              *)
LEMMA ColumnGot ==
  ASSUME CacheInv, NEW c \in Columns, NEW h1 \in Nat
  PROVE  /\ ColumnBy(c, h1) \in ArraysOf(c)
         /\ AddedFor(c, h1) \in Seq(TrueArrays)
         /\ WidthAfter(c, h1) \in Nat
         /\ h1 # FIRST_REORDERED => WidthAfter(c, h1) = h1
         /\ h1 # FIRST_REORDERED /\ Rows[c] # 0 => ColumnBy(c, h1).bits = h1
<1>. DEFINE new == reorderRelation(c, Rows[c], h1)
<1>1. /\ new \in ArraysOf(c)
      /\ new.bits = HashWidth(Rows[c], h1)
      /\ HashWidth(Rows[c], h1) \in Nat
      /\ h1 # FIRST_REORDERED => HashWidth(Rows[c], h1) = h1
  BY ColumnReordered
<1>. HIDE DEF new
<1>2. ColumnBy(c, h1) = IF FetchFromReWarehouse(c, h1) # None
                        THEN FetchFromReWarehouse(c, h1) ELSE new
  BY DEF ColumnBy, new
<1>3. ColumnBy(c, h1) \in ArraysOf(c)
  BY <1>1, <1>2, ArrayFetched
<1>4. AddedFor(c, h1) \in Seq(TrueArrays)
  <2>1. ReEntry(c, ColumnBy(c, h1)) \in TrueArrays
    BY <1>3, NewEntryIsTrue
  <2>2. <<>> \in Seq(TrueArrays) /\ <<ReEntry(c, ColumnBy(c, h1))>> \in Seq(TrueArrays)
    BY <2>1
  <2>. QED  BY <2>2 DEF AddedFor
<1>5. /\ WidthAfter(c, h1) \in Nat
      /\ h1 # FIRST_REORDERED => WidthAfter(c, h1) = h1
  BY <1>1 DEF WidthAfter
<1>. QED  BY <1>1, <1>2, <1>3, <1>4, <1>5, ArrayFetched

-----------------------------------------------------------------------------
(* What each operation leaves: the warehouses stay true, an index is added *)
(* only for a column without one, and the call joined its operands.        *)

(* The part of a step that SameRadix is about.                             *)
RadixStep == (\A i \in DOMAIN index : index[i].hash1 # FIRST_REORDERED) => RadixInv'

LEMMA ArraysAdded ==
  ASSUME CacheInv, NEW added \in Seq(TrueArrays), arrays' = arrays \o added
  PROVE  arrays' \in Seq(TrueArrays)
<1>. arrays \in Seq(TrueArrays)
  BY DEF CacheInv
<1>. QED  BY ConcatProperties

LEMMA SameIndex ==
  ASSUME Inv, index' = index, arrays' \in Seq(TrueArrays), best' = best
  PROVE  CacheInv' /\ IndexDistinct'
BY DEF Inv, CacheInv, IndexDistinct, BestImpliesIndexed, IndexHits

(* Indexing a column that has no index.                                    *)
LEMMA NewIndex ==
  ASSUME Inv, NEW c \in Columns, NEW h1 \in Nat, NEW array \in ArraysOf(c),
         IndexHits(c) = {}, array.size # 0 => array.bits = h1,
         index' = Append(index, IndexEntry(c, h1, array)),
         arrays' \in Seq(TrueArrays),
         best' = [best EXCEPT ![c] = array]
  PROVE  /\ CacheInv' /\ IndexDistinct'
         /\ \A i \in DOMAIN index' :
              index'[i].hash1 = h1 \/ \E j \in DOMAIN index : index'[i] = index[j]
<1>. DEFINE e == IndexEntry(c, h1, array)
<1>1. e \in TrueIndex /\ e.col = c /\ e.hash1 = h1
  BY DEF IndexEntry, TrueIndex, IndexEntries, ArraysOf, Array, Of
<1>2. index \in Seq(TrueIndex)
  BY DEF Inv, CacheInv
<1>. HIDE DEF e
<1>3. /\ index' \in Seq(TrueIndex)
      /\ Len(index') = Len(index) + 1
      /\ DOMAIN index = 1..Len(index) /\ DOMAIN index' = 1..(Len(index) + 1)
      /\ Len(index) \in Nat
      /\ index'[Len(index) + 1] = e
      /\ \A i \in 1..Len(index) : index'[i] = index[i]
  BY <1>1, <1>2 DEF e
<1>4. \A i \in DOMAIN index : index[i].col # c
  BY DEF IndexHits
<1>5. IndexDistinct'
  <2>. SUFFICES ASSUME NEW i \in DOMAIN index', NEW j \in DOMAIN index',
                       index'[i].col = index'[j].col
                PROVE  i = j
    BY DEF IndexDistinct
  <2>1. CASE i \in 1..Len(index) /\ j \in 1..Len(index)
    BY <1>3, <2>1 DEF Inv, IndexDistinct
  <2>2. CASE i = Len(index) + 1 \/ j = Len(index) + 1
    BY <1>1, <1>3, <1>4, <2>2
  <2>. QED  BY <1>3, <2>1, <2>2
<1>6. CacheInv'
  <2>1. /\ best' \in [Columns -> Array \cup {None}]
        /\ \A d \in Columns : best'[d] # None => best'[d] \in ArraysOf(d)
        /\ \A d \in Columns : d # c => best'[d] = best[d]
    BY DEF Inv, CacheInv, ArraysOf
  <2>2. BestImpliesIndexed'
    <3>. SUFFICES ASSUME NEW d \in Columns, best'[d] # None
                  PROVE  \E i \in DOMAIN index' : index'[i].col = d
      BY DEF BestImpliesIndexed, IndexHits
    <3>1. CASE d = c
      BY <1>1, <1>3, <3>1
    <3>2. CASE d # c
      <4>1. PICK i \in DOMAIN index : index[i].col = d
        BY <2>1, <3>2 DEF Inv, CacheInv, BestImpliesIndexed, IndexHits
      <4>. QED  BY <1>3, <4>1
    <3>. QED  BY <3>1, <3>2
  <2>3. (\A d \in Columns : best'[d] # None => best'[d] \in ArraysOf(d))
          => (\A d \in Columns : best[d] # None => best[d] \in ArraysOf(d))'
    BY DEF ArraysOf
  <2>. QED  BY <1>3, <2>1, <2>2, <2>3 DEF CacheInv, TrueIndex, TrueArrays, Of
<1>. QED  BY <1>1, <1>3, <1>5, <1>6

LEMMA IndexOfEitherStep ==
  ASSUME Inv, NEW r \in Columns, NEW s \in Columns,
         NEW owner, NEW other, NEW switched,
         \/ owner = r /\ other = s /\ switched = 0
         \/ owner = s /\ other = r /\ switched = 1,
         IndexOfEither(r, s, owner, other, switched)
  PROVE  Inv' /\ (NoEmptyRelation => RadixStep)
<1>. DEFINE found == FetchFromIndexWarehouse(owner)
            probe == ColumnBy(other, found.hash1)
            h1 == WidthAfter(other, found.hash1)
<1>. owner \in Columns /\ other \in Columns /\ switched \in {0, 1}
  OBVIOUS
<1>1. CacheInv /\ IndexHits(owner) # {}
  BY IndexFetched DEF Inv, IndexOfEither
<1>2. PICK i \in DOMAIN index : /\ found = index[i]
                                /\ index[i] \in TrueIndex
                                /\ index[i].col = owner
  BY <1>1, IndexFetched, Zenon
<1>3. /\ found.hash1 \in Nat /\ found.over \in Array /\ found.over.of = owner
      /\ found.over.size # 0 => found.over.bits = found.hash1
  BY <1>2 DEF TrueIndex, IndexEntries, Of
<1>4. /\ probe \in ArraysOf(other) /\ h1 \in Nat
      /\ AddedFor(other, found.hash1) \in Seq(TrueArrays)
      /\ found.hash1 # FIRST_REORDERED => h1 = found.hash1
      /\ found.hash1 # FIRST_REORDERED /\ Rows[other] # 0 => probe.bits = found.hash1
  BY <1>1, <1>3, ColumnGot
<1>5. /\ arrays' = arrays \o AddedFor(other, found.hash1)
      /\ Joined(r, s, found.over, h1, probe, switched, {})
      /\ index' = index /\ best' = best
  BY DEF IndexOfEither
<1>. HIDE DEF found, probe, h1
<1>6. CacheInv' /\ IndexDistinct'
  BY <1>1, <1>4, <1>5, ArraysAdded, SameIndex
<1>7. probe \in Array /\ probe.of = other
  BY <1>4 DEF ArraysOf
<1>8. JoinInv' /\ ((probe.size # 0 =>
                      probe.bits = h1 /\ (found.over.size # 0 => found.over.bits = probe.bits))
                     => SameRadix')
  <2>1. /\ found.over.of = IF switched = 0 THEN r ELSE s
        /\ probe.of = IF switched = 0 THEN s ELSE r
    BY <1>3, <1>7
  <2>2. join' = [r |-> r, s |-> s, over |-> found.over, hash1 |-> h1,
                 probe |-> probe, switched |-> switched, freed |-> {}]
    BY <1>5, Zenon DEF Joined
  <2>3. join' \in Joins /\ (\A a \in join'.freed : a.of \in Inters)
    BY <1>3, <1>4, <1>7, <2>2 DEF Joins
  <2>. QED  BY <2>1, <2>2, <2>3 DEF JoinInv, JoinsItsOperands, SameRadix
<1>9. ASSUME NoEmptyRelation PROVE RadixStep
  <2>. SUFFICES ASSUME \A k \in DOMAIN index : index[k].hash1 # FIRST_REORDERED
                PROVE  RadixInv'
    BY DEF RadixStep
  <2>1. found.hash1 # FIRST_REORDERED /\ Rows[other] # 0
    BY <1>2, <1>9 DEF NoEmptyRelation
  <2>. QED  BY <1>3, <1>4, <1>5, <1>8, <2>1 DEF RadixInv
<1>. QED  BY <1>6, <1>8, <1>9 DEF Inv

(* Two columns without an index.                                           *)
LEMMA PartitionBothStep ==
  ASSUME Inv, NEW r \in Columns, NEW s \in Columns,
         NEW owner, NEW other, NEW switched,
         \/ owner = r /\ other = s /\ switched = 0
         \/ owner = s /\ other = r /\ switched = 1,
         IndexHits(owner) = {}, NEW p, p = PartitionBoth(owner, other, switched),
         arrays' = arrays \o p.added, best' = p.best,
         index' = Append(index, IndexEntry(owner, p.hash1, p.ror)),
         Joined(r, s, p.ror, p.hash1, p.ros, p.switched, {})
  PROVE  Inv' /\ (NoEmptyRelation => RadixStep)
<1>. DEFINE ror == reorderRelation(owner, Rows[owner], FIRST_REORDERED)
            ros == reorderRelation(other, Rows[other], ror.bits)
<1>. owner \in Columns /\ other \in Columns /\ switched \in {0, 1}
  OBVIOUS
<1>1. /\ ror \in ArraysOf(owner)
      /\ ror.size # 0 => ror.bits # FIRST_REORDERED
      /\ ror.bits \in Nat /\ ror.size = Rows[owner]
  <2>1. FIRST_REORDERED \in Nat
    BY DEF FIRST_REORDERED
  <2>. QED  BY <2>1, ColumnReordered
<1>. HIDE DEF ror
<1>2. /\ ros \in ArraysOf(other)
      /\ ros.bits \in Nat
      /\ Rows[other] # 0 => ros.bits # FIRST_REORDERED
      /\ ror.bits # FIRST_REORDERED => ros.bits = ror.bits
  BY <1>1, ColumnReordered
<1>. HIDE DEF ros
<1>3. /\ p.ror = ror /\ p.ros = ros /\ p.hash1 = ros.bits /\ p.switched = switched
      /\ p.added = <<ReEntry(owner, ror), ReEntry(other, ros)>>
      /\ p.best = [best EXCEPT ![owner] = ror]
  BY DEF PartitionBoth, ror, ros
<1>4. arrays' \in Seq(TrueArrays)
  <2>1. ReEntry(owner, ror) \in TrueArrays /\ ReEntry(other, ros) \in TrueArrays
    BY <1>1, <1>2, NewEntryIsTrue
  <2>2. p.added \in Seq(TrueArrays)
    BY <1>3, <2>1
  <2>. QED  BY <2>2, ArraysAdded DEF Inv
<1>5. /\ CacheInv' /\ IndexDistinct'
      /\ \A i \in DOMAIN index' :
           index'[i].hash1 = ros.bits \/ \E j \in DOMAIN index : index'[i] = index[j]
  <2>1. ror.size # 0 => ror.bits = ros.bits
    BY <1>1, <1>2
  <2>2. /\ index' = Append(index, IndexEntry(owner, ros.bits, ror))
        /\ best' = [best EXCEPT ![owner] = ror]
    BY <1>3
  <2>. QED  BY <1>1, <1>2, <1>4, <2>1, <2>2, NewIndex
<1>6. join' = [r |-> r, s |-> s, over |-> ror, hash1 |-> ros.bits,
               probe |-> ros, switched |-> switched, freed |-> {}]
  BY <1>3 DEF Joined
<1>7. /\ ror \in Array /\ ror.of = IF switched = 0 THEN r ELSE s
      /\ ros \in Array /\ ros.of = IF switched = 0 THEN s ELSE r
  BY <1>1, <1>2 DEF ArraysOf
<1>8. JoinInv'
  <2>1. join' \in Joins /\ (\A a \in join'.freed : a.of \in Inters)
    BY <1>2, <1>6, <1>7 DEF Joins
  <2>. QED  BY <1>6, <1>7, <2>1 DEF JoinInv, JoinsItsOperands
<1>9. ASSUME NoEmptyRelation PROVE RadixStep
  <2>. SUFFICES ASSUME \A k \in DOMAIN index : index[k].hash1 # FIRST_REORDERED
                PROVE  RadixInv'
    BY DEF RadixStep
  <2>1. Rows[other] # 0
    BY <1>9 DEF NoEmptyRelation
  <2>2. SameRadix'
    BY <1>1, <1>2, <1>6 DEF SameRadix
  <2>. QED  BY <1>2, <1>5, <2>1, <2>2 DEF RadixInv
<1>. QED  BY <1>5, <1>8, <1>9 DEF Inv

LEMMA IndexNeitherStep ==
  ASSUME Inv, NEW r \in Columns, NEW s \in Columns, IndexNeither(r, s)
  PROVE  Inv' /\ (NoEmptyRelation => RadixStep)
<1>. DEFINE p == Partitioned(r, s)
<1>1. IndexHits(r) = {} /\ IndexHits(s) = {}
  BY IndexFetched DEF Inv, IndexNeither
<1>2. best[r] = None /\ best[s] = None
  BY <1>1 DEF Inv, CacheInv, BestImpliesIndexed
<1>3. /\ arrays' = arrays \o p.added /\ best' = p.best
      /\ index' = Append(index, IndexEntry(IndexedSide(r, s, p.switched), p.hash1, p.ror))
      /\ Joined(r, s, p.ror, p.hash1, p.ros, p.switched, {})
  BY DEF IndexNeither
<1>. HIDE DEF p
<1>4. CASE Rows[r] < Rows[s]
  <2>1. p = PartitionBoth(r, s, 0)
    BY <1>2, <1>4 DEF Partitioned, p
  <2>2. IndexedSide(r, s, p.switched) = r
    BY <2>1 DEF IndexedSide, PartitionBoth
  <2>. QED  BY <1>1, <1>3, <2>1, <2>2, PartitionBothStep
<1>5. CASE ~(Rows[r] < Rows[s])
  <2>1. p = PartitionBoth(s, r, 1)
    BY <1>2, <1>5 DEF Partitioned, p
  <2>2. IndexedSide(r, s, p.switched) = s
    BY <2>1 DEF IndexedSide, PartitionBoth
  <2>. QED  BY <1>1, <1>3, <2>1, <2>2, PartitionBothStep
<1>. QED  BY <1>4, <1>5

(* An intermediate and a column.                                           *)
LEMMA InterUsesIndexStep ==
  ASSUME Inv, NEW r \in Inters, NEW n \in InterSizes, NEW s \in Columns,
         InterUsesIndex(r, n, s)
  PROVE  Inv' /\ RadixStep
<1>. DEFINE found == FetchFromIndexWarehouse(s)
            ros == reorderRelation(r, n, found.hash1)
<1>1. CacheInv /\ IndexHits(s) # {}
  BY IndexFetched DEF Inv, InterUsesIndex
<1>2. PICK i \in DOMAIN index : /\ found = index[i]
                                /\ index[i] \in TrueIndex
                                /\ index[i].col = s
  BY <1>1, IndexFetched, Zenon
<1>3. /\ found.hash1 \in Nat /\ found.over \in Array /\ found.over.of = s
      /\ found.over.size # 0 => found.over.bits = found.hash1
  BY <1>2 DEF TrueIndex, IndexEntries, Of
<1>4. /\ Joined(r, s, found.over, ros.bits, ros, 1, {ros})
      /\ index' = index /\ arrays' = arrays /\ best' = best
  BY DEF InterUsesIndex
<1>. HIDE DEF found
<1>5. /\ ros \in Array /\ ros.of = r /\ ros.bits \in Nat
      /\ found.hash1 # FIRST_REORDERED => ros.bits = found.hash1
  BY <1>3, Reordered DEF Sizes
<1>. HIDE DEF ros
<1>6. CacheInv' /\ IndexDistinct'
  BY <1>1, <1>4, SameIndex DEF CacheInv
<1>7. join' = [r |-> r, s |-> s, over |-> found.over, hash1 |-> ros.bits,
               probe |-> ros, switched |-> 1, freed |-> {ros}]
  BY <1>4 DEF Joined
<1>8. JoinInv'
  <2>1. join' \in Joins /\ (\A a \in join'.freed : a.of \in Inters)
    BY <1>3, <1>5, <1>7 DEF Joins
  <2>. QED  BY <1>3, <1>5, <1>7, <2>1 DEF JoinInv, JoinsItsOperands
<1>9. RadixStep
  BY <1>2, <1>3, <1>4, <1>5, <1>7 DEF RadixStep, RadixInv, SameRadix
<1>. QED  BY <1>6, <1>8, <1>9 DEF Inv

LEMMA InterIndexesColumnStep ==
  ASSUME Inv, NEW r \in Inters, NEW n \in InterSizes, NEW s \in Columns,
         InterIndexesColumn(r, n, s)
  PROVE  Inv' /\ (NoEmptyRelation => RadixStep)
<1>. DEFINE ror == ColumnBy(s, FIRST_REORDERED)
            width == WidthAfter(s, FIRST_REORDERED)
            ros == reorderRelation(r, n, width)
<1>1. IndexHits(s) = {}
  BY IndexFetched DEF Inv, InterIndexesColumn
<1>2. best[s] = None
  BY <1>1 DEF Inv, CacheInv, BestImpliesIndexed
<1>3. FIRST_REORDERED \in Nat
  BY DEF FIRST_REORDERED
<1>4. /\ ror \in ArraysOf(s) /\ width \in Nat
      /\ AddedFor(s, FIRST_REORDERED) \in Seq(TrueArrays)
  BY <1>3, ColumnGot DEF Inv
<1>5. /\ ror.bits = width
      /\ Rows[s] # 0 => width # FIRST_REORDERED
  <2>1. ror = reorderRelation(s, Rows[s], FIRST_REORDERED)
    BY <1>2 DEF ColumnBy, FetchFromReWarehouse
  <2>2. width = HashWidth(Rows[s], FIRST_REORDERED)
    BY <1>2 DEF WidthAfter, FetchFromReWarehouse
  <2>. QED  BY <1>3, <2>1, <2>2, Reordered, RowsAreSizes
<1>6. /\ arrays' = arrays \o AddedFor(s, FIRST_REORDERED)
      /\ best' = [best EXCEPT ![s] = ror]
      /\ index' = Append(index, IndexEntry(s, ros.bits, ror))
      /\ Joined(r, s, ror, ros.bits, ros, 1, {ros})
  BY DEF InterIndexesColumn
<1>. HIDE DEF ror, width
<1>7. /\ ros \in Array /\ ros.of = r /\ ros.bits \in Nat
      /\ width # FIRST_REORDERED => ros.bits = width
  BY <1>4, Reordered DEF Sizes
<1>. HIDE DEF ros
<1>8. ror \in Array /\ ror.of = s /\ ror.size = Rows[s]
  BY <1>4 DEF ArraysOf
<1>9. /\ CacheInv' /\ IndexDistinct'
      /\ \A i \in DOMAIN index' :
           index'[i].hash1 = ros.bits \/ \E j \in DOMAIN index : index'[i] = index[j]
  <2>1. arrays' \in Seq(TrueArrays)
    BY <1>4, <1>6, ArraysAdded DEF Inv
  <2>2. ror.size # 0 => ror.bits = ros.bits
    BY <1>5, <1>7, <1>8
  <2>. QED  BY <1>1, <1>4, <1>6, <1>7, <2>1, <2>2, NewIndex
<1>10. join' = [r |-> r, s |-> s, over |-> ror, hash1 |-> ros.bits,
                probe |-> ros, switched |-> 1, freed |-> {ros}]
  BY <1>6 DEF Joined
<1>11. JoinInv'
  <2>1. join' \in Joins /\ (\A a \in join'.freed : a.of \in Inters)
    BY <1>7, <1>8, <1>10 DEF Joins
  <2>. QED  BY <1>7, <1>8, <1>10, <2>1 DEF JoinInv, JoinsItsOperands
<1>12. ASSUME NoEmptyRelation PROVE RadixStep
  <2>. SUFFICES ASSUME \A k \in DOMAIN index : index[k].hash1 # FIRST_REORDERED
                PROVE  RadixInv'
    BY DEF RadixStep
  <2>1. width # FIRST_REORDERED
    BY <1>5, <1>12 DEF NoEmptyRelation
  <2>2. SameRadix'
    BY <1>5, <1>7, <1>10, <2>1 DEF SameRadix
  <2>. QED  BY <1>7, <1>9, <2>1, <2>2 DEF RadixInv
<1>. QED  BY <1>9, <1>11, <1>12 DEF Inv

(* Two intermediates.                                                      *)
LEMMA JoinIntersStep ==
  ASSUME Inv, NEW r \in Inters, NEW s \in Inters,
         NEW m \in InterSizes, NEW n \in InterSizes,
         JoinInters(r, m, s, n)
  PROVE  Inv' /\ RadixStep
<1>1. PICK x \in {r, s}, y \in {r, s}, k \in InterSizes, l \in InterSizes,
           switched \in {0, 1} :
        /\ x = IF switched = 0 THEN r ELSE s
        /\ y = IF switched = 0 THEN s ELSE r
        /\ Joined(r, s, reorderRelation(x, k, FIRST_REORDERED),
                  reorderRelation(y, l, reorderRelation(x, k, FIRST_REORDERED).bits).bits,
                  reorderRelation(y, l, reorderRelation(x, k, FIRST_REORDERED).bits),
                  switched,
                  {reorderRelation(x, k, FIRST_REORDERED),
                   reorderRelation(y, l, reorderRelation(x, k, FIRST_REORDERED).bits)})
  <2>1. CASE m <= n
    BY <2>1, Zenon DEF JoinInters
  <2>2. CASE ~(m <= n)
    BY <2>2, Zenon DEF JoinInters
  <2>. QED  BY <2>1, <2>2
<1>. DEFINE ror == reorderRelation(x, k, FIRST_REORDERED)
            ros == reorderRelation(y, l, ror.bits)
<1>0. /\ x \in Columns \cup Inters /\ y \in Columns \cup Inters
      /\ k \in Sizes /\ l \in Sizes
  BY DEF Sizes
<1>2. Joined(r, s, ror, ros.bits, ros, switched, {ror, ros})
  BY <1>1
<1>3. /\ ror \in Array /\ ror.of = x /\ ror.size = k /\ ror.bits \in Nat
      /\ k # 0 => ror.bits # FIRST_REORDERED
  <2>1. FIRST_REORDERED \in Nat
    BY DEF FIRST_REORDERED
  <2>. QED  BY <1>0, <2>1, Reordered
<1>. HIDE DEF ror
<1>4. /\ ros \in Array /\ ros.of = y /\ ros.bits \in Nat
      /\ ror.bits # FIRST_REORDERED => ros.bits = ror.bits
  BY <1>0, <1>3, Reordered
<1>. HIDE DEF ros
<1>5. index' = index /\ arrays' = arrays /\ best' = best
  BY DEF JoinInters
<1>6. CacheInv' /\ IndexDistinct'
  BY <1>5, SameIndex DEF Inv, CacheInv
<1>7. join' = [r |-> r, s |-> s, over |-> ror, hash1 |-> ros.bits,
               probe |-> ros, switched |-> switched, freed |-> {ror, ros}]
  BY <1>2 DEF Joined
<1>8. JoinInv'
  <2>1. join' \in Joins /\ (\A a \in join'.freed : a.of \in Inters)
    BY <1>3, <1>4, <1>7 DEF Joins
  <2>. QED  BY <1>1, <1>3, <1>4, <1>7, <2>1 DEF JoinInv, JoinsItsOperands
<1>9. RadixStep
  BY <1>3, <1>4, <1>5, <1>7 DEF RadixStep, RadixInv, SameRadix
<1>. QED  BY <1>6, <1>8, <1>9 DEF Inv

-----------------------------------------------------------------------------
(* The inductive invariant                                                 *)

LEMMA InvInit == Init => Inv /\ RadixInv
<1>. SUFFICES ASSUME Init PROVE Inv /\ RadixInv
  OBVIOUS
<1>1. index = <<>> /\ arrays = <<>> /\ best = [c \in Columns |-> None] /\ join = None
  BY DEF Init
<1>2. CacheInv
  BY <1>1 DEF CacheInv, BestImpliesIndexed
<1>. QED  BY <1>1, <1>2 DEF Inv, IndexDistinct, JoinInv, RadixInv, SameRadix

LEMMA InvNext ==
  ASSUME Inv, [Next]_vars
  PROVE  Inv' /\ (NoEmptyRelation /\ RadixInv => RadixInv')
<1>1. CASE UNCHANGED vars
  <2>1. index' = index /\ arrays' = arrays /\ best' = best /\ join' = join
    BY <1>1 DEF vars
  <2>2. CacheInv' /\ IndexDistinct'
    BY <2>1, SameIndex DEF Inv, CacheInv
  <2>. QED  BY <2>1, <2>2 DEF Inv, JoinInv, JoinsItsOperands, RadixInv, SameRadix
<1>2. ASSUME NEW r \in Columns, NEW s \in Columns, JoinColumns(r, s)
      PROVE  Inv' /\ (NoEmptyRelation => RadixStep)
  <2>1. CASE UseIndexOfR(r, s)
    BY <2>1, IndexOfEitherStep DEF UseIndexOfR
  <2>2. CASE UseIndexOfS(r, s)
    BY <2>2, IndexOfEitherStep DEF UseIndexOfS
  <2>3. CASE IndexNeither(r, s)
    BY <2>3, IndexNeitherStep
  <2>. QED  BY <1>2, <2>1, <2>2, <2>3 DEF JoinColumns
<1>3. ASSUME NEW r \in Inters, NEW n \in InterSizes, NEW s \in Columns,
             JoinInterWithColumn(r, n, s)
      PROVE  Inv' /\ (NoEmptyRelation => RadixStep)
  BY <1>3, InterUsesIndexStep, InterIndexesColumnStep DEF JoinInterWithColumn
<1>4. ASSUME NEW r \in Inters, NEW s \in Inters,
             NEW m \in InterSizes, NEW n \in InterSizes, JoinInters(r, m, s, n)
      PROVE  Inv' /\ (NoEmptyRelation => RadixStep)
  BY <1>4, JoinIntersStep
<1>5. CASE Next
  <2>1. Inv' /\ (NoEmptyRelation => RadixStep)
    BY <1>2, <1>3, <1>4, <1>5 DEF Next
  <2>. QED  BY <2>1 DEF RadixStep, RadixInv
<1>. QED  BY <1>1, <1>5

LEMMA Invariance == Spec => []Inv
<1>1. Init => Inv
  BY InvInit
<1>2. Inv /\ [Next]_vars => Inv'
  BY InvNext
<1>. QED  BY <1>1, <1>2, PTL DEF Spec

-----------------------------------------------------------------------------
(* Theorems                                                                *)

(* The warehouses are sequences of entries, bestHashValues gives arrays or *)
(* NULL, and a call passes arrays and a number of bits to indexing.        *)
THEOREM TypeCorrect == Spec => []TypeOK
<1>1. Inv => TypeOK
  <2>. SUFFICES ASSUME Inv PROVE TypeOK
    OBVIOUS
  <2>1. index \in Seq(IndexEntries)
    BY SeqMonotonic DEF Inv, CacheInv, TrueIndex
  <2>2. arrays \in Seq(ReEntries)
    BY SeqMonotonic DEF Inv, CacheInv, TrueArrays
  <2>. QED  BY <2>1, <2>2 DEF Inv, CacheInv, JoinInv, Joins, TypeOK
<1>. QED  BY <1>1, Invariance, PTL

(* What a warehouse answers for a column, or for a column and a number of  *)
(* bits, is that column partitioned by that many bits.                     *)
THEOREM CachesAreTruthful == Spec => []CachesTruthful
<1>1. Inv => CachesTruthful
  <2>. SUFFICES ASSUME Inv PROVE CachesTruthful
    OBVIOUS
  <2>1. index \in Seq(TrueIndex) /\ arrays \in Seq(TrueArrays)
    BY DEF Inv, CacheInv
  <2>2. \A i \in DOMAIN index : index[i] \in TrueIndex
    BY <2>1
  <2>3. \A i \in DOMAIN arrays : arrays[i] \in TrueArrays
    BY <2>1
  <2>. QED  BY <2>2, <2>3 DEF CachesTruthful, TrueIndex, TrueArrays
<1>. QED  BY <1>1, Invariance, PTL

(* bestHashValues, whose answer does not say its h1, is never asked for a  *)
(* column that has an answer: such a column has an index.                  *)
THEOREM BestIsNotAsked == Spec => []BestImpliesIndexed
<1>1. Inv => BestImpliesIndexed
  BY DEF Inv, CacheInv
<1>. QED  BY <1>1, Invariance, PTL

(* A column has at most one entry of indexWarehouse, so the warehouse is   *)
(* bounded by the number of columns and not by the number of joins.        *)
THEOREM IndexedOnce == Spec => []OneIndexPerColumn
<1>1. Inv => OneIndexPerColumn
  <2>. SUFFICES ASSUME Inv, NEW c \in Columns
                PROVE  Cardinality(IndexHits(c)) <= 1
    BY DEF OneIndexPerColumn
  <2>1. \A i, j \in IndexHits(c) : i = j
    BY DEF Inv, IndexDistinct, IndexHits
  <2>2. CASE IndexHits(c) = {}
    BY <2>2, FS_EmptySet
  <2>3. CASE IndexHits(c) # {}
    <3>1. PICK i \in IndexHits(c) : TRUE
      BY <2>3
    <3>2. IndexHits(c) = {i}
      BY <2>1, <3>1
    <3>. QED  BY <3>2, FS_Singleton
  <2>. QED  BY <2>2, <2>3
<1>. QED  BY <1>1, Invariance, PTL

(* rowR and rowS of the result are rows of the operands switched says.     *)
THEOREM OperandsJoined == Spec => []JoinsItsOperands
<1>1. Inv => JoinsItsOperands
  BY DEF Inv, JoinInv, JoinsItsOperands
<1>. QED  BY <1>1, Invariance, PTL

(* freedomFlag never frees an array that a warehouse still answers with.   *)
THEOREM CachedIsAllocated == Spec => []CachedStaysAllocated
<1>1. Inv => CachedStaysAllocated
  <2>. SUFFICES ASSUME Inv, join # None PROVE CachedStaysAllocated
    BY DEF CachedStaysAllocated
  <2>1. \A a \in join.freed : a.of \notin Columns
    BY NamesAssumption DEF Inv, JoinInv
  <2>2. \A i \in DOMAIN index : index[i].over.of \in Columns
    <3>1. index \in Seq(TrueIndex)
      BY DEF Inv, CacheInv
    <3>2. \A i \in DOMAIN index : index[i] \in TrueIndex
      BY <3>1
    <3>. QED  BY <3>2 DEF TrueIndex, IndexEntries, Of
  <2>3. \A i \in DOMAIN arrays : arrays[i].array.of \in Columns
    <3>1. arrays \in Seq(TrueArrays)
      BY DEF Inv, CacheInv
    <3>2. \A i \in DOMAIN arrays : arrays[i] \in TrueArrays
      BY <3>1
    <3>. QED  BY <3>2 DEF TrueArrays, ReEntries, Of
  <2>4. \A c \in Columns : best[c] # None => best[c].of \in Columns
    BY DEF Inv, CacheInv, ArraysOf
  <2>5. None \notin join.freed
    BY NamesAssumption DEF Inv, JoinInv, Joins
  <2>. QED  BY <2>1, <2>2, <2>3, <2>4, <2>5 DEF CachedStaysAllocated
<1>. QED  BY <1>1, Invariance, PTL

(* If no relation is empty, the index and the array that probes it were    *)
(* partitioned by the same number of bits, whichever warehouse, reordering *)
(* or earlier query they come from.                                        *)
THEOREM RadixAgrees ==
  ASSUME NoEmptyRelation
  PROVE  Spec => []SameRadix
<1>1. Init => RadixInv
  BY InvInit
<1>2. Inv /\ RadixInv /\ [Next]_vars => RadixInv'
  BY InvNext
<1>3. RadixInv => SameRadix
  BY DEF RadixInv
<1>. QED  BY <1>1, <1>2, <1>3, Invariance, PTL DEF Spec
=============================================================================

------------------------ MODULE RadixPartitionProofs ------------------------
(***************************************************************************)
(* Proofs about RadixPartition for every size, number of threads, number   *)
(* of hash values and assignment of them to the tuples.                    *)
(*                                                                         *)
(* The argument counts.  A batch has as many ends as its counter says, so  *)
(* a barrier that opens finds all of them (BatchInv).  Partial histograms  *)
(* of consecutive shares add up to the histogram of the relation           *)
(* (HistInv), and its sums are where buckets start (LayoutInv).  While     *)
(* tuples are moved, hist[v] is what is left to be taken of bucket v: the  *)
(* places claimed or filled are those counted down already, so a new claim *)
(* is a free place (MoveInv).  In the end every tuple has a place, and as  *)
(* there are as many places as tuples, every place has its tuple.          *)
(***************************************************************************)
EXTENDS RadixPartition, FiniteSetTheorems, SequenceTheorems, TLAPS

(* The size of a bucket and where it starts.                               *)
Num(v) == Cardinality(OfBucket(v, 0, Size))
Off(v) == Cardinality(Before(v))
Hashed == hash \in [Tuples -> Buckets]

Counting == {"writeHist", "testHist", "waitHist"}
Placing  == {"writeMove", "testMove", "waitMove", "done"}

(* The counter of a batch counts the jobs that ended, and a job that runs  *)
(* was written.  All were written when the main thread comes to the        *)
(* barrier, and all have ended when it is behind it.                       *)
Ended == {j \in Jobs : step[j] = "end"}

BatchInv == /\ completed = Cardinality(Ended)
            /\ \A j \in Jobs : step[j] # "start" => j < written
            /\ pc \in {"writeHist", "writeMove"} => written < Threads
            /\ pc \notin {"writeHist", "writeMove"} => written = Threads
            /\ pc \in Counting => \A j \in Jobs : step[j] \in {"start", "end"}
            /\ BarriersHold

(* What jobs have counted, and what has been added up of it.               *)
Counted(j) == [v \in Buckets |-> Cardinality(OfBucket(v, From(j), To(j)))]

HistInv == /\ pc \in Counting => \A j \in Jobs : step[j] = "end" => local[j] = Counted(j)
           /\ pc = "merge" => /\ next \in Jobs
                              /\ \A j \in Jobs : local[j] = Counted(j)
                              /\ next # 0 => \A v \in Buckets :
                                   hist[v] = Cardinality(OfBucket(v, 0, From(next)))
           /\ pc = "offsets" => \A v \in Buckets : hist[v] = Num(v)

(* The buckets before n are laid out.                                      *)
PsumOf(n) ==
  /\ \A i \in 1..Len(psum) : /\ psum[i].h1Res \in 0..n-1
                             /\ psum[i].offset = Off(psum[i].h1Res)
                             /\ Num(psum[i].h1Res) > 0
  /\ \A v \in 0..n-1 : Num(v) > 0 => \E i \in 1..Len(psum) : psum[i].h1Res = v
  /\ \A i, k \in 1..Len(psum) : i < k => psum[i].h1Res < psum[k].h1Res

LayoutOf(n) == PsumOf(n) /\ \A v \in 0..n-1 : helpPsum[v] = Off(v)

(* The sweep before value n: psum has an entry for each bucket found, the  *)
(* next starts behind them, and temp keeps up with that until the last.    *)
Filled(n) == {v \in Buckets : v < n /\ hist[v] # 0}

SweepOf(n) == /\ Len(psum) = Cardinality(Filled(n))
              /\ Offset = Off(n)
              /\ temp = Off(n) \/ Len(psum) = buckets

LayoutInv == /\ pc \in Counting \cup {"merge"} => psum = <<>> /\ temp = 0
             /\ pc = "offsets" => next \in Buckets /\ SweepOf(next) /\ LayoutOf(next)
             /\ pc \in Placing => LayoutOf(HashRange)

(* Job j has taken the rows from From(j) to Moved(j) - 1.                  *)
Moved(j) == CASE step[j] = "start" -> From(j)
              [] step[j] = "take"  -> row[j]
              [] step[j] = "store" -> row[j] + 1
              [] OTHER             -> To(j)
Taken == {t \in Tuples : \E j \in Jobs : From(j) <= t /\ t < Moved(j)}
Left(v) == {t \in Tuples : hash[t] = v} \ Taken

(* hist counts what is left of each bucket, a claim is a count that is     *)
(* gone, and no two jobs have the same.  The slots above what is left are  *)
(* claimed or filled, all others free, and no tuple is lost on the way.    *)
ClaimInv == \A j \in Jobs : step[j] = "store" =>
              /\ row[j] \in Tuples
              /\ hist[hash[row[j]]] < claim[j]
              /\ claim[j] <= Num(hash[row[j]])
              /\ newR[Slot(j)] = Free
              /\ \A i \in Jobs : /\ step[i] = "store"
                                 /\ hash[row[i]] = hash[row[j]]
                                 /\ claim[i] = claim[j]
                                 => i = j

PlaceInv == \A s \in Slots : newR[s] # Free =>
              LET v == hash[newR[s]]
              IN  Off(v) <= s /\ s < Off(v) + Num(v) - hist[v]

Moves ==
  /\ \A j \in Jobs : step[j] \in {"take", "store"} => row[j] \in From(j)..To(j)
  /\ \A j \in Jobs : step[j] = "store" => row[j] < To(j)
  /\ \A v \in Buckets : hist[v] = Cardinality(Left(v))
  /\ ClaimInv
  /\ PlaceInv
  /\ \A t \in Taken : \/ \E s \in Slots : newR[s] = t
                      \/ \E j \in Jobs : step[j] = "store" /\ row[j] = t

MoveInv  == pc \in Placing => Moves
EmptyInv == pc \notin Placing => \A s \in Slots : newR[s] = Free

Inv == TypeOK /\ BatchInv /\ HistInv /\ LayoutInv /\ EmptyInv /\ MoveInv

-----------------------------------------------------------------------------
(* The shares of the jobs                                                  *)

LEMMA Times ==
  ASSUME NEW a \in Nat, NEW b \in Nat, NEW q \in Nat, a <= b
  PROVE  a * q \in Nat /\ b * q \in Nat /\ a * q <= b * q
<1>1. PICK d \in Nat : b = a + d
  <2>. WITNESS b - a \in Nat
  <2>. QED  OBVIOUS
<1>2. b * q = a * q + d * q
  BY <1>1
<1>3. a * q \in Nat /\ d * q \in Nat
  OBVIOUS
<1>. QED  BY <1>2, <1>3

(* All shares but the last are of this size.                               *)
LEMMA ShareSize ==
  /\ Size \div Threads \in Nat
  /\ Threads * (Size \div Threads) <= Size
  BY SizeAssumption, ThreadsAssumption

LEMMA ShareBounds ==
  ASSUME NEW j \in Jobs
  PROVE  /\ From(j) \in 0..Size /\ To(j) \in 0..Size
         /\ From(j) <= To(j)
         /\ j + 1 \in Jobs => From(j + 1) = To(j)
         /\ j = 0 => From(j) = 0
         /\ j = Threads - 1 => To(j) = Size
<1>. DEFINE q == Size \div Threads
<1>1. q \in Nat /\ Threads * q <= Size
  BY ShareSize
<1>2. j \in Nat /\ j + 1 <= Threads /\ Threads \in Nat /\ Size \in Nat
  BY SizeAssumption, ThreadsAssumption DEF Jobs
<1>. HIDE DEF q
<1>3. j * q \in Nat /\ j * q <= (j + 1) * q /\ (j + 1) * q <= Threads * q
  BY <1>1, <1>2, Times
<1>4. /\ From(j) = j * q
      /\ To(j) = IF j # Threads - 1 THEN (j + 1) * q ELSE Size
      /\ From(j + 1) = (j + 1) * q
  BY DEF From, To, q
<1>5. (j + 1) * q \in Nat /\ Threads * q \in Nat
  BY <1>1, <1>2, Times
<1>6. j = 0 => j * q = 0
  BY <1>1
<1>7. j + 1 \in Jobs => j # Threads - 1
  BY <1>2 DEF Jobs
<1>. QED  BY <1>1, <1>2, <1>3, <1>4, <1>5, <1>6, <1>7

(* Shares do not overlap.                                                  *)
LEMMA SharesApart ==
  ASSUME NEW i \in Jobs, NEW j \in Jobs, i < j
  PROVE  To(i) <= From(j)
<1>. DEFINE q == Size \div Threads
<1>1. q \in Nat
  BY ShareSize
<1>2. i + 1 \in Nat /\ j \in Nat /\ i + 1 <= j /\ i # Threads - 1
  BY ThreadsAssumption DEF Jobs
<1>3. To(i) = (i + 1) * q /\ From(j) = j * q
  BY <1>2 DEF To, From
<1>. HIDE DEF q
<1>. QED  BY <1>1, <1>2, <1>3, Times

(* Every tuple is in a share.                                              *)
LEMMA SharesCover ==
  ASSUME NEW t \in Tuples
  PROVE  \E j \in Jobs : From(j) <= t /\ t < To(j)
<1>. DEFINE q == Size \div Threads
<1>1. q \in Nat /\ t \in Nat /\ t < Size
  BY ShareSize, SizeAssumption DEF Tuples
<1>2. Threads - 1 \in Jobs /\ Threads \in Nat
  BY ThreadsAssumption DEF Jobs
<1>. HIDE DEF q
<1>3. CASE (Threads - 1) * q <= t
  BY <1>1, <1>2, <1>3 DEF From, To, q
<1>4. CASE ~((Threads - 1) * q <= t)
  <2>1. (Threads - 1) * q \in Nat
    BY <1>1, <1>2, ThreadsAssumption
  <2>2. q # 0
    <3>1. q = 0 => (Threads - 1) * q = 0
      BY <1>2
    <3>. QED  BY <3>1, <1>1, <1>4
  <2>. DEFINE j == t \div q
  <2>3. j \in Nat /\ j * q <= t /\ t < (j + 1) * q
    BY <1>1, <2>2
  <2>. HIDE DEF j
  <2>4. j < Threads - 1
    <3>1. ASSUME Threads - 1 <= j  PROVE FALSE
      <4>1. (Threads - 1) * q <= j * q
        BY <1>1, <1>2, <2>3, <3>1, Times, ThreadsAssumption
      <4>. QED  BY <4>1, <2>1, <2>3, <1>1, <1>4
    <3>. QED  BY <3>1, <2>3, <1>2
  <2>5. j \in Jobs
    BY <2>3, <2>4, <1>2 DEF Jobs
  <2>6. From(j) = j * q /\ To(j) = (j + 1) * q
    BY <2>4, <2>3, <1>2 DEF From, To, q
  <2>. QED  BY <2>3, <2>5, <2>6
<1>. QED  BY <1>3, <1>4

-----------------------------------------------------------------------------
(* Counting tuples                                                         *)

LEMMA TuplesCount == IsFiniteSet(Tuples) /\ Cardinality(Tuples) = Size
  BY FS_Interval, SizeAssumption DEF Tuples

LEMMA CountType ==
  ASSUME NEW S, S \subseteq Tuples
  PROVE  IsFiniteSet(S) /\ Cardinality(S) \in 0..Size
<1>1. IsFiniteSet(S) /\ Cardinality(S) <= Size
  BY TuplesCount, FS_Subset
<1>. QED  BY <1>1, FS_CardinalityType, SizeAssumption

LEMMA CountUnion ==
  ASSUME NEW S, NEW T, S \subseteq Tuples, T \subseteq Tuples, S \cap T = {}
  PROVE  Cardinality(S \cup T) = Cardinality(S) + Cardinality(T)
<1>1. IsFiniteSet(S) /\ IsFiniteSet(T) /\ Cardinality(S) \in Nat
      /\ Cardinality(T) \in Nat
  BY CountType, SizeAssumption
<1>2. Cardinality(S \cup T) = Cardinality(S) + Cardinality(T) - Cardinality(S \cap T)
  BY <1>1, FS_Union
<1>3. Cardinality(S \cap T) = 0
  BY FS_EmptySet, Zenon
<1>. QED  BY <1>1, <1>2, <1>3

(* A histogram of rows a..c-1 is the sum of those of two parts.            *)
LEMMA HistogramsAdd ==
  ASSUME NEW v, NEW a \in Int, NEW b \in Int, NEW c \in Int, a <= b, b <= c
  PROVE  Cardinality(OfBucket(v, a, c)) =
           Cardinality(OfBucket(v, a, b)) + Cardinality(OfBucket(v, b, c))
<1>1. \A t \in Tuples : t \in Int
  BY DEF Tuples
<1>2. /\ OfBucket(v, a, b) \cup OfBucket(v, b, c) = OfBucket(v, a, c)
      /\ OfBucket(v, a, b) \cap OfBucket(v, b, c) = {}
      /\ OfBucket(v, a, b) \subseteq Tuples /\ OfBucket(v, b, c) \subseteq Tuples
  BY <1>1 DEF OfBucket
<1>. QED  BY <1>2, CountUnion

LEMMA CountOfBucket ==
  ASSUME NEW v, NEW a, NEW b
  PROVE  Cardinality(OfBucket(v, a, b)) \in 0..Size
  BY CountType DEF OfBucket

LEMMA NumIsAll ==
  ASSUME NEW v
  PROVE  OfBucket(v, 0, Size) = {t \in Tuples : hash[t] = v}
  BY SizeAssumption DEF OfBucket, Tuples

(* Where buckets start.                                                    *)
LEMMA OffType ==
  ASSUME NEW v, Hashed
  PROVE  Off(v) \in 0..Size /\ Num(v) \in 0..Size
  BY CountType, CountOfBucket DEF Off, Num, Before

LEMMA OffStep ==
  ASSUME NEW v \in Buckets, Hashed
  PROVE  Off(v + 1) = Off(v) + Num(v)
<1>1. \A t \in Tuples : hash[t] \in Int
  BY DEF Hashed, Buckets
<1>2. v \in Int
  BY DEF Buckets
<1>3. /\ Before(v + 1) = Before(v) \cup OfBucket(v, 0, Size)
      /\ Before(v) \cap OfBucket(v, 0, Size) = {}
  BY <1>1, <1>2, NumIsAll DEF Before
<1>. QED  BY <1>3, CountUnion, NumIsAll DEF Off, Num, Before

LEMMA OffEnds ==
  ASSUME Hashed
  PROVE  Off(0) = 0 /\ Off(HashRange) = Size
<1>1. \A t \in Tuples : hash[t] \in Int /\ 0 <= hash[t] /\ hash[t] < HashRange
  BY RangeAssumption DEF Hashed, Buckets
<1>2. Before(0) = {} /\ Before(HashRange) = Tuples
  BY <1>1 DEF Before
<1>. QED  BY <1>2, FS_EmptySet, TuplesCount DEF Off

LEMMA OffMonotone ==
  ASSUME NEW v \in 0..HashRange, NEW w \in 0..HashRange, v <= w, Hashed
  PROVE  Off(v) <= Off(w)
<1>1. \A t \in Tuples : hash[t] \in Int
  BY DEF Hashed, Buckets
<1>2. Before(v) \subseteq Before(w) /\ Before(w) \subseteq Tuples
  BY <1>1, RangeAssumption DEF Before
<1>3. IsFiniteSet(Before(w))
  BY <1>2, CountType
<1>. QED  BY <1>2, <1>3, FS_Subset DEF Off

(* Buckets lie one behind the other.                                       *)
LEMMA BucketsApart ==
  ASSUME NEW v \in Buckets, NEW w \in Buckets, v < w, Hashed
  PROVE  Off(v) + Num(v) <= Off(w)
<1>1. v + 1 \in 0..HashRange /\ w \in 0..HashRange /\ v + 1 <= w
  BY RangeAssumption DEF Buckets
<1>. QED  BY <1>1, OffMonotone, OffStep

LEMMA BucketInside ==
  ASSUME NEW v \in Buckets, Hashed
  PROVE  Off(v) + Num(v) <= Size
<1>1. v + 1 \in 0..HashRange /\ HashRange \in 0..HashRange /\ v + 1 <= HashRange
  BY RangeAssumption DEF Buckets
<1>. QED  BY <1>1, OffMonotone, OffStep, OffEnds

(* A bucket that has a tuple has a count.                                  *)
LEMMA Occurs ==
  ASSUME NEW v
  PROVE  Num(v) > 0 <=> \E t \in Tuples : hash[t] = v
<1>1. IsFiniteSet(OfBucket(v, 0, Size)) /\ Num(v) \in Nat
  BY CountType, CountOfBucket, SizeAssumption DEF OfBucket, Num
<1>2. Num(v) = 0 <=> OfBucket(v, 0, Size) = {}
  BY <1>1, FS_EmptySet DEF Num
<1>. QED  BY <1>1, <1>2, NumIsAll

-----------------------------------------------------------------------------
(* What an action leaves alone                                             *)

LEMMA SameCounts ==
  ASSUME hash' = hash
  PROVE  /\ \A v, a, b : OfBucket(v, a, b)' = OfBucket(v, a, b)
         /\ \A v : Num(v)' = Num(v)
         /\ \A v : Off(v)' = Off(v)
         /\ \A j : Counted(j)' = Counted(j)
         /\ Hashed' = Hashed
  BY DEF OfBucket, Num, Off, Before, Counted, Hashed

LEMMA SameLayout ==
  ASSUME hash' = hash, psum' = psum, helpPsum' = helpPsum, NEW n
  PROVE  LayoutOf(n)' = LayoutOf(n)
  BY SameCounts DEF LayoutOf, PsumOf

LEMMA SameTaken ==
  ASSUME hash' = hash, \A j \in Jobs : Moved(j)' = Moved(j)
  PROVE  Taken' = Taken /\ \A v : Left(v)' = Left(v)
  BY DEF Taken, Left

LEMMA SameMoves ==
  ASSUME UNCHANGED <<hash, step, row, hist, claim, newR, helpPsum>>
  PROVE  Moves' = Moves
<1>1. Taken' = Taken /\ \A v : Left(v)' = Left(v)
  BY SameTaken DEF Moved
<1>2. \A j : Slot(j)' = Slot(j)
  BY DEF Slot, End
<1>. QED  BY <1>1, <1>2, SameCounts DEF Moves, ClaimInv, PlaceInv

LEMMA AllEnded ==
  ASSUME TypeOK, BatchInv, completed = Threads
  PROVE  \A j \in Jobs : step[j] = "end"
<1>1. IsFiniteSet(Jobs) /\ Cardinality(Jobs) = Threads
  BY FS_Interval, ThreadsAssumption DEF Jobs
<1>2. Ended \subseteq Jobs /\ Cardinality(Jobs) = Cardinality(Ended)
  BY <1>1 DEF BatchInv, Ended
<1>3. Ended = Jobs
  BY <1>1, <1>2, FS_Subset, Zenon
<1>. QED  BY <1>3 DEF Ended

LEMMA OneMoreEnded ==
  ASSUME TypeOK, BatchInv, NEW j \in Jobs, step[j] # "end",
         step' = [step EXCEPT ![j] = "end"], completed' = completed + 1
  PROVE  completed' = Cardinality(Ended') /\ completed' \in 0..Threads
<1>1. IsFiniteSet(Jobs) /\ Cardinality(Jobs) = Threads
  BY FS_Interval, ThreadsAssumption DEF Jobs
<1>2. Ended' = Ended \cup {j} /\ j \notin Ended
  BY DEF TypeOK, Ended
<1>3. Ended \subseteq Jobs /\ Ended' \subseteq Jobs
  BY DEF Ended
<1>4. IsFiniteSet(Ended) /\ IsFiniteSet(Ended') /\ Cardinality(Ended') <= Threads
  BY <1>1, <1>3, FS_Subset
<1>5. Cardinality(Ended') = Cardinality(Ended) + 1
  BY <1>2, <1>4, FS_AddElement
<1>. QED  BY <1>4, <1>5, ThreadsAssumption DEF BatchInv, TypeOK

-----------------------------------------------------------------------------
(* The main thread                                                         *)

LEMMA InitInv == Init => Inv
<1>. SUFFICES ASSUME Init  PROVE Inv
  OBVIOUS
<1>1. TypeOK
  BY ThreadsAssumption DEF Init, TypeOK, PC
<1>2. Ended = {}
  BY DEF Init, Ended
<1>3. Cardinality(Ended) = 0
  BY <1>2, FS_EmptySet, Zenon
<1>4. BatchInv
  BY <1>3, ThreadsAssumption DEF Init, BatchInv, BarriersHold
<1>5. HistInv /\ LayoutInv /\ EmptyInv /\ MoveInv
  BY DEF Init, HistInv, LayoutInv, EmptyInv, MoveInv, Counting, Placing
<1>. QED  BY <1>1, <1>4, <1>5 DEF Inv

(* Steps that change only where the main thread is.                        *)
LEMMA MainMoves ==
  ASSUME Inv, \/ WriteJob \/ Wait \/ SpuriousWakeup \/ PassHist \/ PassMove
  PROVE  Inv'
<1>. USE DEF Counting, Placing
<1>1. UNCHANGED <<hash, completed, step, local, hist, temp, helpPsum, psum, row, claim, newR>>
  BY DEF WriteJob, Wait, SpuriousWakeup, PassHist, PassMove
<1>2. \/ /\ pc \in {"writeHist", "testHist", "waitHist"}
         /\ pc' \in {"writeHist", "testHist", "waitHist"}
      \/ /\ pc \in {"writeMove", "testMove", "waitMove"}
         /\ pc' \in {"writeMove", "testMove", "waitMove"}
      \/ PassHist \/ PassMove
  BY DEF WriteJob, Wait, SpuriousWakeup, Blocked, Awake
<1>3. TypeOK'
  BY <1>1, ThreadsAssumption
  DEF Inv, TypeOK, BatchInv, PC, WriteJob, Wait, SpuriousWakeup, PassHist, PassMove, Blocked, Awake
<1>4. BatchInv'
  <2>1. PassHist \/ PassMove => \A j \in Jobs : step[j] = "end"
    BY AllEnded DEF Inv, PassHist, PassMove
  <2>2. /\ written' \in Nat /\ written <= written'
        /\ pc' \in {"writeHist", "writeMove"} => written' < Threads
        /\ pc' \notin {"writeHist", "writeMove"} => written' = Threads
    BY ThreadsAssumption
    DEF Inv, TypeOK, BatchInv, WriteJob, Wait, SpuriousWakeup, PassHist, PassMove, Blocked, Awake
  <2>3. Ended' = Ended
    BY <1>1 DEF Ended
  <2>. QED
    BY <1>1, <1>2, <2>1, <2>2, <2>3
    DEF Inv, TypeOK, BatchInv, BarriersHold, Jobs, PassHist, PassMove
<1>5. HistInv'
  <2>1. PassHist => \A j \in Jobs : step[j] = "end"
    BY AllEnded DEF Inv, PassHist
  <2>2. 0 \in Jobs
    BY ThreadsAssumption DEF Jobs
  <2>. QED
    BY <1>1, <1>2, <2>1, <2>2, SameCounts DEF Inv, HistInv, PassHist, PassMove
<1>6. LayoutInv'
  BY <1>1, <1>2, SameLayout DEF Inv, LayoutInv, PassHist, PassMove
<1>7. EmptyInv' /\ MoveInv'
  BY <1>1, <1>2, SameMoves DEF Inv, EmptyInv, MoveInv, PassHist, PassMove
<1>. QED  BY <1>3, <1>4, <1>5, <1>6, <1>7 DEF Inv

LEMMA MergeStep ==
  ASSUME Inv, Merge
  PROVE  Inv'
<1>. USE DEF Counting, Placing
<1>1. UNCHANGED <<hash, written, completed, step, local, temp, helpPsum, psum, row, claim, newR>>
  BY DEF Merge
<1>2. pc = "merge" /\ next \in Jobs /\ pc' \in {"merge", "offsets"}
  BY DEF Inv, HistInv, Merge
<1>. DEFINE sum(v) == IF next = 0 THEN local[0][v] ELSE hist[v] + local[next][v]
<1>3. \A v \in Buckets : hist'[v] = sum(v)
  BY DEF Merge
<1>4. \A v \in Buckets : hist'[v] = Cardinality(OfBucket(v, 0, To(next)))
  <2>. SUFFICES ASSUME NEW v \in Buckets
                PROVE  sum(v) = Cardinality(OfBucket(v, 0, To(next)))
    BY <1>3
  <2>1. local[next][v] = Cardinality(OfBucket(v, From(next), To(next)))
    BY <1>2 DEF Inv, HistInv, Counted
  <2>2. CASE next = 0
    BY <2>1, <2>2, <1>2, ShareBounds
  <2>3. CASE next # 0
    <3>1. hist[v] = Cardinality(OfBucket(v, 0, From(next)))
      BY <1>2, <2>3 DEF Inv, HistInv
    <3>2. 0 <= From(next) /\ From(next) <= To(next)
          /\ From(next) \in Int /\ To(next) \in Int
      BY <1>2, ShareBounds, SizeAssumption
    <3>. QED  BY <2>1, <2>3, <3>1, <3>2, HistogramsAdd
  <2>. QED  BY <2>2, <2>3
<1>5. TypeOK'
  <2>1. \A v \in Buckets : sum(v) \in Nat
    BY <1>2, ThreadsAssumption DEF Inv, TypeOK, Jobs
  <2>2. hist' \in [Buckets -> Nat]
    BY <2>1 DEF Merge
  <2>3. next' \in Nat
    BY <1>2 DEF Merge, Jobs
  <2>. QED  BY <1>1, <1>2, <2>2, <2>3 DEF Inv, TypeOK, PC
<1>6. BatchInv'
  BY <1>1, <1>2 DEF Inv, BatchInv, BarriersHold, Ended
<1>7. HistInv'
  <2>1. CASE next + 1 = Threads
    <3>1. To(next) = Size
      BY <2>1, <1>2, ShareBounds, ThreadsAssumption DEF Jobs
    <3>2. pc' = "offsets"
      BY <2>1 DEF Merge
    <3>. QED  BY <3>1, <3>2, <1>1, <1>4, SameCounts DEF HistInv, Num
  <2>2. CASE next + 1 # Threads
    <3>1. next + 1 \in Jobs /\ next' = next + 1 /\ pc' = "merge"
      BY <2>2, <1>2, ThreadsAssumption DEF Jobs, Merge
    <3>2. From(next') = To(next)
      BY <3>1, <1>2, ShareBounds
    <3>3. From(next)' = From(next')
      BY DEF From
    <3>. QED  BY <3>1, <3>2, <3>3, <1>1, <1>2, <1>4, SameCounts DEF Inv, HistInv
  <2>. QED  BY <2>1, <2>2
<1>8. LayoutInv'
  <2>1. CASE pc' = "merge"
    BY <2>1, <1>1, <1>2 DEF Inv, LayoutInv
  <2>2. CASE pc' = "offsets"
    <3>1. next' = 0 /\ 0 \in Buckets
      BY <2>2, <1>2, RangeAssumption DEF Merge, Buckets
    <3>2. psum' = <<>> /\ temp' = 0
      BY <1>1, <1>2 DEF Inv, LayoutInv
    <3>3. Off(0) = 0
      BY OffEnds DEF Inv, TypeOK, Hashed
    <3>4. Off(next)' = 0
      BY <1>1, <3>1, <3>3 DEF Off, Before
    <3>5. LayoutOf(next)'
      BY <3>1, <3>2 DEF LayoutOf, PsumOf
    <3>6. Cardinality(Filled(next)') = 0
      <4>1. Filled(next)' = {}
        BY <3>1 DEF Filled, Buckets
      <4>. QED  BY <4>1, FS_EmptySet, Zenon
    <3>7. SweepOf(next)'
      BY <3>2, <3>4, <3>6 DEF SweepOf, Offset
    <3>. QED  BY <2>2, <3>1, <3>2, <3>5, <3>7 DEF LayoutInv
  <2>. QED  BY <2>1, <2>2, <1>2
<1>9. EmptyInv' /\ MoveInv'
  BY <1>1, <1>2 DEF Inv, EmptyInv, MoveInv
<1>. QED  BY <1>5, <1>6, <1>7, <1>8, <1>9 DEF Inv

(* One bucket more, if it has tuples, is one entry more.                   *)
LEMMA FilledStep ==
  ASSUME NEW n \in Buckets
  PROVE  /\ hist[n] = 0 => Filled(n + 1) = Filled(n)
         /\ hist[n] # 0 => Cardinality(Filled(n + 1)) = Cardinality(Filled(n)) + 1
<1>1. \A v \in Buckets : v \in Int
  BY DEF Buckets
<1>2. IsFiniteSet(Filled(n)) /\ n \notin Filled(n)
  <2>1. IsFiniteSet(Buckets)
    BY FS_Interval, RangeAssumption DEF Buckets
  <2>2. Filled(n) \in SUBSET Buckets
    BY DEF Filled
  <2>. QED  BY <1>1, <2>1, <2>2, FS_Subset DEF Filled
<1>3. hist[n] # 0 => Filled(n + 1) = Filled(n) \cup {n}
  BY <1>1 DEF Filled
<1>4. Cardinality(Filled(n) \cup {n}) = Cardinality(Filled(n)) + 1
  BY <1>2, FS_AddElement
<1>. QED  BY <1>1, <1>3, <1>4 DEF Filled

(* As many entries as there are filled buckets: no tuple is left.          *)
LEMMA AllLaidOut ==
  ASSUME Hashed, NEW n \in Buckets, \A v \in Buckets : hist[v] = Num(v),
         Cardinality(Filled(n)) = buckets
  PROVE  Off(n) = Size
<1>. DEFINE All == {v \in Buckets : hist[v] # 0}
<1>1. IsFiniteSet(All)
  <2>1. IsFiniteSet(Buckets)
    BY FS_Interval, RangeAssumption DEF Buckets
  <2>2. All \in SUBSET Buckets
    OBVIOUS
  <2>. QED  BY <2>1, <2>2, FS_Subset
<1>2. Filled(n) \in SUBSET All
  BY DEF Filled
<1>3. All = Filled(n)
  <2>1. Cardinality(All) = Cardinality(Filled(n))
    BY DEF buckets
  <2>. HIDE DEF All
  <2>. QED  BY <1>1, <1>2, <2>1, FS_Subset
<1>4. \A t \in Tuples : hash[t] < n
  <2>1. ASSUME NEW t \in Tuples  PROVE hash[t] < n
    <3>1. hash[t] \in Buckets /\ Num(hash[t]) > 0
      BY Occurs DEF Hashed
    <3>2. hash[t] \in All
      BY <3>1
    <3>. QED  BY <3>2, <1>3 DEF Filled
  <2>. QED  BY <2>1
<1>5. Before(n) = Tuples
  BY <1>4 DEF Before
<1>. QED  BY <1>5, TuplesCount DEF Off

(* A filled bucket still to come is not the last one passed.               *)
LEMMA TempKeepsUp ==
  ASSUME TypeOK, NEW n \in Buckets, SweepOf(n), \A v \in Buckets : hist[v] = Num(v)
  PROVE  /\ Len(psum) = buckets => Off(n) = Size
         /\ hist[n] # 0 => temp = Off(n)
<1>1. Hashed
  BY DEF TypeOK, Hashed
<1>2. Len(psum) = buckets => Off(n) = Size
  BY <1>1, AllLaidOut DEF SweepOf
<1>3. Off(n) + Num(n) <= Size /\ Num(n) \in 0..Size /\ hist[n] = Num(n)
  BY <1>1, BucketInside, OffType
<1>. QED  BY <1>2, <1>3, SizeAssumption DEF SweepOf

(* The sweep: one bucket more is laid out.                                 *)
LEMMA OneMoreLaidOut ==
  ASSUME TypeOK, pc = "offsets", next \in Buckets, SweepOf(next), LayoutOf(next),
         \A v \in Buckets : hist[v] = Num(v), NextOffset, hash' = hash, hist' = hist
  PROVE  /\ helpPsum' \in [Buckets -> Nat]
         /\ psum' \in Seq([h1Res : Buckets, offset : Nat])
         /\ temp' \in Nat
         /\ \A n : n = next + 1 => SweepOf(n)'
         /\ \A n : n = next + 1 => LayoutOf(n)'
<1>. DEFINE E == [h1Res : Buckets, offset : Nat]
            e == [h1Res |-> next, offset |-> Off(next)]
<1>1. Hashed /\ next \in Nat /\ hist[next] = Num(next)
  BY DEF TypeOK, Hashed, Buckets
<1>2. Num(next) \in Nat /\ Off(next) \in Nat
  BY <1>1, OffType, SizeAssumption
<1>3. Offset = Off(next) /\ (Num(next) # 0 => temp = Off(next))
      /\ (Len(psum) = buckets => Off(next) = Size)
      /\ Off(next + 1) = Off(next) + Num(next)
  BY <1>1, TempKeepsUp, OffStep DEF SweepOf
<1>4. e \in E /\ psum \in Seq(E) /\ Len(psum) \in Nat
      /\ e.h1Res = next /\ e.offset = Off(next)
  BY <1>2 DEF TypeOK
<1>5. \/ Num(next) = 0 /\ psum' = psum /\ temp' = temp
      \/ Num(next) > 0 /\ psum' = Append(psum, e)
  BY <1>1, <1>2, <1>3 DEF NextOffset, EmptyBucket, FilledBucket
<1>. HIDE DEF E, e
<1>6. helpPsum' \in [Buckets -> Nat]
      /\ \A v \in 0..next : helpPsum'[v] = Off(v)
  <2>1. helpPsum' = [helpPsum EXCEPT ![next] = Off(next)]
    BY <1>1, <1>3 DEF NextOffset, EmptyBucket, FilledBucket, SweepOf
  <2>. QED  BY <1>1, <1>2, <2>1 DEF TypeOK, LayoutOf, Buckets
<1>7. psum' \in Seq(E)
  BY <1>4, <1>5
<1>8. \A v : Num(v)' = Num(v) /\ Off(v)' = Off(v)
  BY SameCounts
<1>9. PsumOf(next)
  BY DEF LayoutOf
<1>10. ASSUME NEW n, n = next + 1  PROVE PsumOf(n)'
  <2>1. CASE Num(next) = 0 /\ psum' = psum
    <3>1. \A i \in 1..Len(psum) :
            /\ psum[i].h1Res \in 0..n-1
            /\ psum[i].offset = Off(psum[i].h1Res)
            /\ Num(psum[i].h1Res) > 0
      BY <1>1, <1>9, <1>10 DEF PsumOf
    <3>2. \A v \in 0..n-1 : Num(v) > 0 => \E i \in 1..Len(psum) : psum[i].h1Res = v
      <4>1. \A v \in 0..n-1 : v # next => v \in 0..next-1
        BY <1>1, <1>10
      <4>. QED  BY <2>1, <4>1, <1>9 DEF PsumOf
    <3>3. \A i, k \in 1..Len(psum) : i < k => psum[i].h1Res < psum[k].h1Res
      BY <1>9 DEF PsumOf
    <3>. QED  BY <2>1, <3>1, <3>2, <3>3, <1>8, Zenon DEF PsumOf
  <2>2. CASE Num(next) > 0 /\ psum' = Append(psum, e)
    <3>1. Len(psum') = Len(psum) + 1
          /\ (\A i \in 1..Len(psum) : psum'[i] = psum[i])
          /\ psum'[Len(psum) + 1] = e
      BY <2>2, <1>4
    <3>2. \A i \in 1..Len(psum') : i \in 1..Len(psum) \/ i = Len(psum) + 1
      BY <3>1, <1>4
    <3>3. \A i \in 1..Len(psum') :
            /\ psum'[i].h1Res \in 0..n-1
            /\ psum'[i].offset = Off(psum'[i].h1Res)
            /\ Num(psum'[i].h1Res) > 0
      <4>1. ASSUME NEW i \in 1..Len(psum)
            PROVE  /\ psum'[i].h1Res \in 0..n-1
                   /\ psum'[i].offset = Off(psum'[i].h1Res)
                   /\ Num(psum'[i].h1Res) > 0
        BY <3>1, <1>1, <1>9, <1>10 DEF PsumOf
      <4>2. /\ psum'[Len(psum) + 1].h1Res \in 0..n-1
            /\ psum'[Len(psum) + 1].offset = Off(psum'[Len(psum) + 1].h1Res)
            /\ Num(psum'[Len(psum) + 1].h1Res) > 0
        BY <2>2, <3>1, <1>1, <1>4, <1>10
      <4>. QED  BY <4>1, <4>2, <3>2
    <3>4. ASSUME NEW v \in 0..n-1, Num(v) > 0
          PROVE  \E i \in 1..Len(psum') : psum'[i].h1Res = v
      <4>1. CASE v = next
        BY <4>1, <3>1, <1>4
      <4>2. CASE v # next
        <5>1. PICK i \in 1..Len(psum) : psum[i].h1Res = v
          BY <4>2, <3>4, <1>1, <1>9, <1>10 DEF PsumOf
        <5>. QED  BY <5>1, <3>1, <1>4
      <4>. QED  BY <4>1, <4>2
    <3>5. ASSUME NEW i \in 1..Len(psum'), NEW k \in 1..Len(psum'), i < k
          PROVE  psum'[i].h1Res < psum'[k].h1Res
      <4>1. i \in 1..Len(psum) /\ psum'[i] = psum[i] /\ psum[i].h1Res \in 0..next-1
        BY <3>1, <3>5, <1>4, <1>9 DEF PsumOf
      <4>2. CASE k \in 1..Len(psum)
        BY <4>1, <4>2, <3>1, <3>5, <1>9 DEF PsumOf
      <4>3. CASE k = Len(psum) + 1
        BY <4>1, <4>3, <3>1, <1>1, <1>4
      <4>. QED  BY <4>2, <4>3, <3>2
    <3>. QED  BY <3>3, <3>4, <3>5, <1>8, Zenon DEF PsumOf
  <2>. QED  BY <2>1, <2>2, <1>5
<1>11. ASSUME NEW n, n = next + 1  PROVE LayoutOf(n)'
  BY <1>1, <1>6, <1>8, <1>10, <1>11 DEF LayoutOf
<1>12. temp' \in Nat
  BY <1>1, <1>2, SizeAssumption DEF TypeOK, NextOffset, EmptyBucket, FilledBucket
<1>13. ASSUME NEW n, n = next + 1  PROVE SweepOf(n)'
  <2>1. /\ Filled(n)' = Filled(n) /\ buckets' = buckets
        /\ Off(n)' = Off(n) /\ Off(n) = Off(next) + Num(next)
    BY <1>3, <1>8, <1>13 DEF Filled, buckets
  <2>2. Len(psum') = Cardinality(Filled(n))
    <3>1. /\ Num(next) = 0 => Filled(n) = Filled(next)
          /\ Num(next) # 0 => Cardinality(Filled(n)) = Cardinality(Filled(next)) + 1
      BY <1>1, <1>13, FilledStep
    <3>. QED  BY <1>2, <1>4, <1>5, <3>1 DEF SweepOf
  <2>3. CASE Num(next) = 0 /\ psum' = psum /\ temp' = temp
    <3>1. Offset' = Offset
      BY <2>3 DEF Offset
    <3>2. temp = Off(next) \/ Len(psum) = buckets
      BY DEF SweepOf
    <3>. QED  BY <1>2, <1>3, <2>1, <2>2, <2>3, <3>1, <3>2 DEF SweepOf
  <2>4. CASE Num(next) > 0 /\ psum' = Append(psum, e)
    <3>1. psum' # <<>> /\ Len(psum') = Len(psum) + 1 /\ psum'[Len(psum')] = e
      BY <2>4, <1>4
    <3>2. Offset' = Off(next) + Num(next)
      BY <3>1, <1>1, <1>4 DEF Offset
    <3>3. temp' = Off(next) + Num(next) \/ Len(psum') = buckets
      <4>1. CASE psum = <<>> /\ HashRange = 1
        <5>1. next = 0 /\ Off(HashRange) = Size
          BY <1>1, <4>1, OffEnds DEF Buckets
        <5>2. temp' = Size
          BY <1>1, <1>2, <2>4, <4>1 DEF NextOffset, FilledBucket
        <5>. QED  BY <1>3, <4>1, <5>1, <5>2
      <4>2. CASE psum # <<>> /\ Len(psum) + 1 = buckets
        BY <3>1, <4>2
      <4>3. CASE ~(psum = <<>> /\ HashRange = 1) /\ ~(psum # <<>> /\ Len(psum) + 1 = buckets)
        BY <1>1, <1>3, <2>4, <4>3 DEF NextOffset, FilledBucket
      <4>. QED  BY <4>1, <4>2, <4>3
    <3>. QED  BY <2>1, <2>2, <3>2, <3>3 DEF SweepOf
  <2>. QED  BY <1>5, <2>3, <2>4
<1>. QED  BY <1>6, <1>7, <1>11, <1>12, <1>13 DEF E

(* No tuple is taken when the second batch begins.                         *)
LEMMA NothingTaken ==
  ASSUME hash' = hash, \A j \in Jobs : step'[j] = "start",
         \A v \in Buckets : hist'[v] = Num(v), \A s \in Slots : newR'[s] = Free
  PROVE  Moves'
<1>1. \A j \in Jobs : Moved(j)' = From(j) /\ From(j) \in Int
  BY ShareBounds, SizeAssumption DEF Moved
<1>2. Taken' = {}
  BY <1>1 DEF Taken, Tuples
<1>3. \A v : Left(v)' = OfBucket(v, 0, Size)
  BY <1>2, NumIsAll DEF Left
<1>. QED  BY <1>2, <1>3 DEF Moves, ClaimInv, PlaceInv, Num

LEMMA OffsetsStep ==
  ASSUME Inv, Offsets
  PROVE  Inv'
<1>. USE DEF Counting, Placing
<1>1. UNCHANGED <<hash, local, hist, row, claim, newR>> /\ next' = next + 1
  BY DEF Offsets
<1>2. /\ TypeOK /\ pc = "offsets" /\ next \in Buckets /\ SweepOf(next)
      /\ LayoutOf(next) /\ (\A v \in Buckets : hist[v] = Num(v)) /\ NextOffset
  BY DEF Inv, HistInv, LayoutInv, Offsets
<1>3. /\ helpPsum' \in [Buckets -> Nat]
      /\ psum' \in Seq([h1Res : Buckets, offset : Nat])
      /\ temp' \in Nat
      /\ \A n : n = next + 1 => SweepOf(n)' /\ LayoutOf(n)'
  BY <1>1, <1>2, OneMoreLaidOut
<1>4. CASE next + 1 = HashRange
  <2>1. /\ pc' = "writeMove" /\ written' = 0 /\ completed' = 0
        /\ step' = [j \in Jobs |-> "start"]
    BY <1>4 DEF Offsets
  <2>2. TypeOK'
    BY <1>1, <1>2, <1>3, <2>1, ThreadsAssumption DEF TypeOK, PC
  <2>3. Cardinality(Ended') = 0
    <3>1. Ended' = {}
      BY <2>1 DEF Ended
    <3>. QED  BY <3>1, FS_EmptySet, Zenon
  <2>4. BatchInv'
    BY <2>1, <2>3, ThreadsAssumption DEF BatchInv, BarriersHold
  <2>5. HistInv' /\ EmptyInv'
    BY <2>1 DEF HistInv, EmptyInv
  <2>6. LayoutInv'
    <3>1. LayoutOf(HashRange)'
      BY <1>3, <1>4
    <3>. QED  BY <2>1, <3>1 DEF LayoutInv
  <2>7. MoveInv'
    <3>1. \A s \in Slots : newR'[s] = Free
      BY <1>1, <1>2 DEF Inv, EmptyInv
    <3>2. \A j \in Jobs : step'[j] = "start"
      BY <2>1
    <3>3. Moves'
      BY <1>1, <1>2, <3>1, <3>2, NothingTaken
    <3>. QED  BY <3>3 DEF MoveInv
  <2>. QED  BY <2>2, <2>4, <2>5, <2>6, <2>7 DEF Inv
<1>5. CASE next + 1 # HashRange
  <2>1. UNCHANGED <<pc, written, completed, step>>
    BY <1>5 DEF Offsets
  <2>2. next' \in Buckets /\ next' \in Nat
    BY <1>1, <1>2, <1>5, RangeAssumption DEF Buckets
  <2>3. TypeOK'
    BY <1>1, <1>2, <1>3, <2>1, <2>2 DEF TypeOK, PC
  <2>4. BatchInv'
    BY <2>1, <1>2 DEF Inv, BatchInv, BarriersHold, Ended
  <2>5. HistInv' /\ EmptyInv' /\ MoveInv'
    BY <1>1, <1>2, <2>1, SameCounts DEF Inv, HistInv, EmptyInv, MoveInv
  <2>6. LayoutInv'
    <3>1. SweepOf(next)' /\ LayoutOf(next)'
      BY <1>1, <1>3
    <3>. QED  BY <1>2, <2>1, <2>2, <3>1 DEF LayoutInv
  <2>. QED  BY <2>3, <2>4, <2>5, <2>6 DEF Inv
<1>. QED  BY <1>4, <1>5

-----------------------------------------------------------------------------
(* The jobs                                                                *)

(* End computes where a bucket ends.                                       *)
LEMMA EndOf ==
  ASSUME Hashed, LayoutOf(HashRange), NEW v \in Buckets
  PROVE  End(v) = Off(v) + Num(v) /\ helpPsum[v] = Off(v)
<1>1. helpPsum[v] = Off(v)
  BY RangeAssumption DEF LayoutOf, Buckets
<1>2. Off(v + 1) = Off(v) + Num(v)
  BY OffStep
<1>3. CASE v < HashRange - 1
  <2>1. helpPsum[v + 1] = Off(v + 1)
    BY <1>3, RangeAssumption DEF LayoutOf, Buckets
  <2>. QED  BY <1>1, <1>2, <1>3, <2>1 DEF End
<1>4. CASE ~(v < HashRange - 1)
  <2>1. v + 1 = HashRange
    BY <1>4, RangeAssumption DEF Buckets
  <2>. QED  BY <1>1, <1>2, <1>4, <2>1, OffEnds DEF End
<1>. QED  BY <1>3, <1>4

(* A slot in the bucket of v is in no other bucket.                        *)
LEMMA OneBucket ==
  ASSUME Hashed, NEW v \in Buckets, NEW w \in Buckets, NEW s \in Int,
         Off(v) <= s, s < Off(v) + Num(v), Off(w) <= s, s < Off(w) + Num(w)
  PROVE  v = w
<1>1. Off(v) \in Int /\ Num(v) \in Int /\ Off(w) \in Int /\ Num(w) \in Int
  BY OffType, SizeAssumption
<1>2. ~(v < w) /\ ~(w < v)
  BY <1>1, BucketsApart
<1>. QED  BY <1>2 DEF Buckets

LEMMA SlotOf ==
  ASSUME TypeOK, LayoutOf(HashRange), ClaimInv, NEW j \in Jobs, step[j] = "store"
  PROVE  LET v == hash[row[j]]
         IN  /\ v \in Buckets /\ hist[v] \in Nat
             /\ Off(v) \in Nat /\ Num(v) \in Nat /\ Off(v) + Num(v) <= Size
             /\ Slot(j) = Off(v) + Num(v) - claim[j]
             /\ Slot(j) \in Slots
             /\ Off(v) <= Slot(j) /\ Slot(j) < Off(v) + Num(v) - hist[v]
<1>. DEFINE v == hash[row[j]]
<1>1. row[j] \in Tuples /\ hist[v] < claim[j] /\ claim[j] <= Num(v) /\ claim[j] \in Nat
  BY DEF ClaimInv, TypeOK
<1>2. Hashed /\ v \in Buckets /\ hist[v] \in Nat
  BY <1>1 DEF TypeOK, Hashed
<1>3. Off(v) \in Nat /\ Num(v) \in Nat /\ Off(v) + Num(v) <= Size
  BY <1>2, OffType, BucketInside, SizeAssumption
<1>4. Slot(j) = End(v) - claim[j]
  BY DEF Slot
<1>. HIDE DEF v
<1>5. Slot(j) = Off(v) + Num(v) - claim[j]
  <2>1. End(v) = Off(v) + Num(v)
    BY <1>2, EndOf
  <2>. QED  BY <1>1, <1>3, <1>4, <2>1
<1>6. Slot(j) \in Slots /\ Off(v) <= Slot(j) /\ Slot(j) < Off(v) + Num(v) - hist[v]
  BY <1>1, <1>2, <1>3, <1>5, SizeAssumption DEF Slots
<1>. QED  BY <1>2, <1>3, <1>5, <1>6 DEF v

LEMMA HistogramStep ==
  ASSUME Inv, NEW j \in Jobs, HistogramJob(j)
  PROVE  Inv'
<1>. USE DEF Counting, Placing
<1>1. UNCHANGED <<hash, written, hist, next, temp, helpPsum, psum, row, claim, newR>>
  BY DEF HistogramJob
<1>2. pc \in {"writeHist", "testHist", "waitHist"} /\ j < written /\ step[j] = "start"
      /\ step' = [step EXCEPT ![j] = "end"] /\ completed' = completed + 1
      /\ (pc' = pc \/ (pc = "waitHist" /\ pc' = "testHist"))
      /\ local' = [local EXCEPT ![j] = Counted(j)]
  BY DEF HistogramJob, Complete, Blocked, Awake, Counted
<1>3. completed' = Cardinality(Ended') /\ completed' \in 0..Threads
  BY <1>2, OneMoreEnded DEF Inv
<1>4. TypeOK'
  <2>1. Counted(j) \in [Buckets -> Nat]
    BY CountOfBucket, SizeAssumption DEF Counted
  <2>2. step' \in [Jobs -> {"start", "take", "store", "end"}]
    BY <1>2 DEF Inv, TypeOK
  <2>3. local' \in [Jobs -> [Buckets -> Nat]]
    BY <1>2, <2>1 DEF Inv, TypeOK
  <2>4. pc' \in PC
    BY <1>2 DEF PC
  <2>. QED  BY <1>1, <1>3, <2>2, <2>3, <2>4 DEF Inv, TypeOK
<1>5. BatchInv'
  BY <1>1, <1>2, <1>3 DEF Inv, TypeOK, BatchInv, BarriersHold
<1>6. HistInv'
  BY <1>1, <1>2, SameCounts DEF Inv, TypeOK, HistInv
<1>7. LayoutInv' /\ EmptyInv' /\ MoveInv'
  BY <1>1, <1>2 DEF Inv, LayoutInv, EmptyInv, MoveInv
<1>. QED  BY <1>4, <1>5, <1>6, <1>7 DEF Inv

(* What the steps of constructionJob have in common.                       *)
LEMMA MovingFrame ==
  ASSUME Inv, NEW j \in Jobs, Moving(j), step[j] # "end",
         UNCHANGED <<hash, written, local, next, temp, helpPsum, psum>>,
         \/ UNCHANGED <<pc, completed>> /\ \E at \in {"take", "store"} :
                                             step' = [step EXCEPT ![j] = at]
         \/ Complete /\ step' = [step EXCEPT ![j] = "end"]
  PROVE  /\ pc' \in Placing \ {"done"} /\ pc' \in PC /\ completed' \in 0..Threads
         /\ step' \in [Jobs -> {"start", "take", "store", "end"}]
         /\ BatchInv' /\ HistInv' /\ LayoutInv' /\ EmptyInv'
<1>. USE DEF Placing, Counting
<1>1. pc \in {"writeMove", "testMove", "waitMove"} /\ j < written
      /\ step \in [Jobs -> {"start", "take", "store", "end"}]
  BY DEF Moving, Inv, TypeOK
<1>2. pc' = pc \/ (pc = "waitMove" /\ pc' = "testMove")
  BY <1>1 DEF Complete, Blocked, Awake
<1>3. completed' = Cardinality(Ended') /\ completed' \in 0..Threads
  <2>1. CASE Complete /\ step' = [step EXCEPT ![j] = "end"]
    BY <2>1, OneMoreEnded DEF Inv, Complete
  <2>2. CASE UNCHANGED <<pc, completed>> /\ \E at \in {"take", "store"} :
                                             step' = [step EXCEPT ![j] = at]
    <3>1. Ended' = Ended
      BY <1>1, <2>2 DEF Ended
    <3>. QED  BY <2>2, <3>1 DEF Inv, BatchInv, TypeOK
  <2>. QED  BY <2>1, <2>2
<1>4. step' \in [Jobs -> {"start", "take", "store", "end"}]
      /\ \A i \in Jobs : step'[i] # "start" => step[i] # "start" \/ i = j
  BY <1>1
<1>5. BatchInv'
  BY <1>1, <1>2, <1>3, <1>4 DEF Inv, BatchInv, BarriersHold
<1>6. LayoutInv'
  BY <1>1, <1>2, SameLayout DEF Inv, LayoutInv
<1>7. HistInv' /\ EmptyInv'
  BY <1>1, <1>2 DEF HistInv, EmptyInv
<1>. QED  BY <1>1, <1>2, <1>3, <1>4, <1>5, <1>6, <1>7 DEF PC

(* A job that starts or ends takes nothing and stores nothing.             *)
LEMMA IdleMoves ==
  ASSUME Moves, UNCHANGED <<hash, hist, helpPsum, claim, newR>>,
         \A i \in Jobs : Moved(i)' = Moved(i),
         \A i \in Jobs : step'[i] = "store" <=> step[i] = "store",
         \A i \in Jobs : step[i] = "store" => row'[i] = row[i],
         \A i \in Jobs : step'[i] \in {"take", "store"} => row'[i] \in From(i)..To(i)
  PROVE  Moves'
<1>1. \A v : Left(v)' = Left(v) /\ Num(v)' = Num(v) /\ Off(v)' = Off(v)
  BY SameTaken, SameCounts
<1>2. \A i \in Jobs : step[i] = "store" => Slot(i)' = Slot(i)
  BY DEF Slot, End
<1>3. ClaimInv'
  BY <1>1, <1>2 DEF Moves, ClaimInv
<1>4. PlaceInv'
  BY <1>1 DEF Moves, PlaceInv
<1>5. \A t \in Taken' : \/ \E s \in Slots : newR'[s] = t
                        \/ \E i \in Jobs : step'[i] = "store" /\ row'[i] = t
  <2>1. Taken' = Taken
    BY SameTaken
  <2>. QED  BY <2>1 DEF Moves
<1>. QED  BY <1>1, <1>3, <1>4, <1>5 DEF Moves

LEMMA StartMovingStep ==
  ASSUME Inv, NEW j \in Jobs, StartMoving(j)
  PROVE  Inv'
<1>1. /\ UNCHANGED <<hash, pc, written, completed, local, hist, next, temp, helpPsum,
                     psum, claim, newR>>
      /\ Moving(j) /\ step[j] = "start"
      /\ row' = [row EXCEPT ![j] = From(j)] /\ step' = [step EXCEPT ![j] = "take"]
  BY DEF StartMoving, mainVars
<1>2. /\ pc' \in Placing /\ pc' \in PC
      /\ step' \in [Jobs -> {"start", "take", "store", "end"}]
      /\ BatchInv' /\ HistInv' /\ LayoutInv' /\ EmptyInv'
  BY <1>1, MovingFrame
<1>3. /\ From(j) \in Nat /\ From(j) \in From(j)..To(j)
      /\ step \in [Jobs -> {"start", "take", "store", "end"}] /\ row \in [Jobs -> Nat]
  BY ShareBounds, SizeAssumption DEF Inv, TypeOK
<1>4. TypeOK'
  BY <1>1, <1>2, <1>3 DEF Inv, TypeOK
<1>5. Moves
  BY <1>1 DEF Inv, MoveInv, Moving, Placing
<1>6. /\ \A i \in Jobs : step'[i] = "store" <=> step[i] = "store"
      /\ \A i \in Jobs : step[i] = "store" => row'[i] = row[i]
      /\ \A i \in Jobs : step'[i] \in {"take", "store"} => row'[i] \in From(i)..To(i)
  BY <1>1, <1>3, <1>5 DEF Moves
<1>7. \A i \in Jobs : Moved(i)' = Moved(i)
  BY <1>1, <1>3 DEF Moved
<1>8. Moves'
  BY <1>1, <1>5, <1>6, <1>7, IdleMoves
<1>. QED  BY <1>2, <1>4, <1>8 DEF Inv, MoveInv

LEMMA EndMovingStep ==
  ASSUME Inv, NEW j \in Jobs, EndMoving(j)
  PROVE  Inv'
<1>1. /\ UNCHANGED <<hash, written, local, hist, next, temp, helpPsum, psum, row,
                     claim, newR>>
      /\ Moving(j) /\ step[j] = "take" /\ row[j] = To(j) /\ Complete
      /\ step' = [step EXCEPT ![j] = "end"]
  BY DEF EndMoving
<1>2. /\ pc' \in Placing /\ pc' \in PC /\ completed' \in 0..Threads
      /\ step' \in [Jobs -> {"start", "take", "store", "end"}]
      /\ BatchInv' /\ HistInv' /\ LayoutInv' /\ EmptyInv'
  BY <1>1, MovingFrame
<1>3. step \in [Jobs -> {"start", "take", "store", "end"}]
  BY DEF Inv, TypeOK
<1>4. TypeOK'
  BY <1>1, <1>2 DEF Inv, TypeOK
<1>5. Moves
  BY <1>1 DEF Inv, MoveInv, Moving, Placing
<1>6. /\ \A i \in Jobs : step'[i] = "store" <=> step[i] = "store"
      /\ \A i \in Jobs : step'[i] \in {"take", "store"} => row'[i] \in From(i)..To(i)
  BY <1>1, <1>3, <1>5 DEF Moves
<1>7. \A i \in Jobs : Moved(i)' = Moved(i)
  BY <1>1, <1>3 DEF Moved
<1>8. Moves'
  BY <1>1, <1>5, <1>6, <1>7, IdleMoves
<1>. QED  BY <1>2, <1>4, <1>8 DEF Inv, MoveInv

(* The row that a job is at is not taken, by it or by another.             *)
LEMMA NextRowIsLeft ==
  ASSUME TypeOK, Moves, NEW j \in Jobs, step[j] = "take", row[j] < To(j)
  PROVE  row[j] \in Tuples /\ row[j] \notin Taken
<1>1. row[j] \in Nat /\ From(j) <= row[j] /\ row[j] < Size
  BY ShareBounds, SizeAssumption DEF Moves
<1>2. row[j] \in Tuples
  BY <1>1, SizeAssumption DEF Tuples
<1>3. ASSUME NEW i \in Jobs, From(i) <= row[j], row[j] < Moved(i)
      PROVE  FALSE
  <2>1. i # j
    BY <1>1, <1>3 DEF Moved
  <2>2. From(i) \in Int /\ To(i) \in Int /\ From(i) <= To(i)
        /\ From(j) \in Int /\ To(j) \in Int
    BY ShareBounds, SizeAssumption
  <2>3. Moved(i) \in Int /\ Moved(i) <= To(i)
    BY <2>2 DEF Moved, Moves
  <2>4. To(i) <= From(j) \/ To(j) <= From(i)
    BY <2>1, SharesApart DEF Jobs
  <2>. QED  BY <1>1, <1>3, <2>2, <2>3, <2>4
<1>. QED  BY <1>2, <1>3 DEF Taken

LEMMA TakePlaceStep ==
  ASSUME Inv, NEW j \in Jobs, TakePlace(j)
  PROVE  Inv'
<1>. DEFINE t == row[j]
            u == hash[t]
<1>1. /\ UNCHANGED <<hash, pc, written, completed, local, next, temp, helpPsum, psum,
                     row, newR>>
      /\ Moving(j) /\ step[j] = "take" /\ row[j] < To(j)
      /\ claim' = [claim EXCEPT ![j] = hist[u]]
      /\ hist' = [hist EXCEPT ![u] = @ - 1]
      /\ step' = [step EXCEPT ![j] = "store"]
  BY DEF TakePlace, mainVars
<1>2. /\ pc' \in Placing /\ pc' \in PC
      /\ step' \in [Jobs -> {"start", "take", "store", "end"}]
      /\ BatchInv' /\ HistInv' /\ LayoutInv' /\ EmptyInv'
  BY <1>1, MovingFrame
<1>3. TypeOK /\ Moves /\ LayoutOf(HashRange) /\ Hashed
  BY <1>1 DEF Inv, LayoutInv, MoveInv, Moving, Placing, TypeOK, Hashed
<1>4. t \in Tuples /\ t \notin Taken /\ u \in Buckets
  BY <1>1, <1>3, NextRowIsLeft DEF Hashed
<1>5. t \in Int /\ From(j) <= t /\ t < To(j)
  BY <1>1, <1>3 DEF Moves, TypeOK
<1>. HIDE DEF t, u
<1>6. Taken' = Taken \cup {t}
  <2>1. \A i \in Jobs : i # j => Moved(i)' = Moved(i)
    BY <1>1, <1>3 DEF Moved, TypeOK
  <2>2. Moved(j) = t /\ Moved(j)' = t + 1
    BY <1>1, <1>3 DEF Moved, TypeOK, t
  <2>3. \A r \in Tuples : r \in Int
    BY DEF Tuples
  <2>4. ASSUME NEW r \in Tuples
        PROVE  (\E i \in Jobs : From(i) <= r /\ r < Moved(i)')
                 <=> (\E i \in Jobs : From(i) <= r /\ r < Moved(i)) \/ r = t
    BY <1>5, <2>1, <2>2, <2>3
  <2>. QED  BY <1>4, <2>4 DEF Taken
<1>7. \A v : /\ Num(v)' = Num(v) /\ Off(v)' = Off(v)
            /\ Num(v) \in Nat /\ Off(v) \in Nat
  BY <1>1, <1>3, SameCounts, OffType, SizeAssumption
<1>8. \A v \in Buckets : Left(v)' = IF v = u THEN Left(v) \ {t} ELSE Left(v)
  BY <1>1, <1>4, <1>6 DEF Left, u
<1>9. /\ \A v \in Buckets : Cardinality(Left(v)') = IF v = u THEN hist[v] - 1 ELSE hist[v]
      /\ hist[u] - 1 \in Nat /\ hist[u] <= Num(u)
  <2>1. t \in Left(u) /\ \A v : Left(v) \subseteq Tuples
    BY <1>4 DEF Left, u
  <2>2. \A v \in Buckets : IsFiniteSet(Left(v)) /\ Cardinality(Left(v)) = hist[v]
    BY <1>3, <2>1, CountType DEF Moves
  <2>3. Cardinality(Left(u) \ {t}) = hist[u] - 1
    BY <1>4, <2>1, <2>2, FS_RemoveElement
  <2>4. Cardinality(Left(u) \ {t}) \in Nat
    BY <2>1, CountType, SizeAssumption
  <2>5. hist[u] <= Num(u)
    <3>1. IsFiniteSet(OfBucket(u, 0, Size)) /\ Left(u) \subseteq OfBucket(u, 0, Size)
      BY NumIsAll, CountType DEF Left
    <3>. QED  BY <3>1, <1>4, <2>2, FS_Subset DEF Num
  <2>. QED  BY <1>8, <2>2, <2>3, <2>4, <2>5
<1>10. TypeOK'
  <2>1. hist' \in [Buckets -> Nat] /\ claim' \in [Jobs -> Nat]
    BY <1>1, <1>3, <1>4, <1>9 DEF TypeOK
  <2>. QED  BY <1>1, <1>2, <1>3, <2>1 DEF TypeOK
<1>11. \A v \in Buckets : hist'[v] \in Nat /\ hist'[v] <= hist[v] /\ hist[v] \in Nat
  BY <1>1, <1>3, <1>4, <1>9 DEF TypeOK
<1>12. hist'[u] = hist[u] - 1 /\ claim'[j] = hist[u] /\ hist[u] \in 1..Num(u)
       /\ hash[row[j]] = u
  BY <1>1, <1>3, <1>4, <1>7, <1>9, <1>11 DEF TypeOK, t, u
<1>13. newR[Slot(j)'] = Free
  <2>. DEFINE s == Off(u) + Num(u) - hist[u]
  <2>1. Slot(j)' = s
    <3>1. Slot(j)' = End(u) - hist[u]
      BY <1>1, <1>12 DEF Slot, End
    <3>. QED  BY <3>1, <1>3, <1>4, <1>7, <1>11, EndOf
  <2>2. s \in Slots /\ Off(u) <= s /\ s < Off(u) + Num(u)
    <3>1. Off(u) + Num(u) <= Size
      BY <1>3, <1>4, BucketInside
    <3>. QED  BY <3>1, <1>4, <1>7, <1>12, SizeAssumption DEF Slots
  <2>. HIDE DEF s
  <2>3. ASSUME newR[s] # Free  PROVE FALSE
    <3>. DEFINE w == hash[newR[s]]
    <3>1. newR[s] \in Tuples
      BY <2>2, <2>3, <1>3 DEF TypeOK
    <3>2. w \in Buckets /\ Off(w) <= s /\ s < Off(w) + Num(w) - hist[w]
      BY <2>2, <2>3, <3>1, <1>3 DEF Moves, PlaceInv, Hashed
    <3>. HIDE DEF w
    <3>3. s \in Int /\ s < Off(w) + Num(w)
      BY <2>2, <3>2, <1>7, <1>11, SizeAssumption DEF Slots
    <3>4. u = w
      BY <1>3, <1>4, <2>2, <3>2, <3>3, OneBucket
    <3>. QED  BY <3>2, <3>3, <3>4, <1>7, <1>12 DEF s
  <2>. QED  BY <2>1, <2>3
<1>14. ClaimInv'
  <2>1. \A i \in Jobs : step'[i] = "store" => i = j \/ step[i] = "store"
    BY <1>1, <1>3 DEF TypeOK
  <2>2. \A i \in Jobs : i # j => claim'[i] = claim[i] /\ Slot(i)' = Slot(i)
    BY <1>1, <1>3 DEF TypeOK, Slot, End
  <2>3. ASSUME NEW i \in Jobs, step[i] = "store"
        PROVE  /\ i # j /\ row[i] \in Tuples /\ hash[row[i]] \in Buckets
               /\ hist[hash[row[i]]] < claim[i] /\ claim[i] <= Num(hash[row[i]])
               /\ newR[Slot(i)] = Free /\ claim[i] \in Nat
    BY <1>1, <1>3, <2>3 DEF Moves, ClaimInv, Hashed, TypeOK
  <2>4. ASSUME NEW i \in Jobs, step'[i] = "store"
        PROVE  /\ row[i] \in Tuples
               /\ hist'[hash[row[i]]] < claim'[i] /\ claim'[i] <= Num(hash[row[i]])
               /\ newR[Slot(i)'] = Free
    <3>1. CASE i = j
      BY <3>1, <1>4, <1>7, <1>12, <1>13 DEF t
    <3>2. CASE i # j
      BY <3>2, <2>1, <2>2, <2>3, <2>4, <1>11
    <3>. QED  BY <3>1, <3>2
  <2>5. ASSUME NEW i \in Jobs, NEW k \in Jobs, step'[i] = "store", step'[k] = "store",
               hash[row[i]] = hash[row[k]], claim'[i] = claim'[k]
        PROVE  i = k
    <3>1. CASE i # j /\ k # j
      <4>1. step[i] = "store" /\ step[k] = "store" /\ claim[i] = claim[k]
        BY <2>1, <2>2, <2>5, <3>1
      <4>. QED  BY <4>1, <2>5, <1>3 DEF Moves, ClaimInv
    <3>2. CASE i = j /\ k # j
      BY <3>2, <2>1, <2>2, <2>3, <2>5, <1>11, <1>12
    <3>3. CASE i # j /\ k = j
      BY <3>3, <2>1, <2>2, <2>3, <2>5, <1>11, <1>12
    <3>. QED  BY <3>1, <3>2, <3>3
  <2>. QED  BY <1>1, <1>7, <2>4, <2>5 DEF ClaimInv
<1>15. PlaceInv'
  <2>1. ASSUME NEW s \in Slots, newR[s] # Free
        PROVE  LET v == hash[newR[s]]
               IN  Off(v) <= s /\ s < Off(v) + Num(v) - hist'[v]
    <3>. DEFINE v == hash[newR[s]]
    <3>1. v \in Buckets
      BY <2>1, <1>3 DEF TypeOK
    <3>2. Off(v) <= s /\ s < Off(v) + Num(v) - hist[v]
      BY <2>1, <1>3 DEF Moves, PlaceInv
    <3>. HIDE DEF v
    <3>3. s < Off(v) + Num(v) - hist'[v]
      BY <3>1, <3>2, <1>7, <1>11, SizeAssumption DEF Slots
    <3>. QED  BY <3>2, <3>3 DEF v
  <2>. QED  BY <2>1, <1>1, <1>7 DEF PlaceInv
<1>16. \A r \in Taken' : \/ \E s \in Slots : newR'[s] = r
                        \/ \E i \in Jobs : step'[i] = "store" /\ row'[i] = r
  <2>1. step'[j] = "store" /\ row'[j] = t
        /\ \A i \in Jobs : step[i] = "store" => step'[i] = "store"
    BY <1>1, <1>3 DEF TypeOK, t
  <2>. QED  BY <1>1, <1>3, <1>6, <2>1 DEF Moves
<1>17. \A i \in Jobs : step'[i] \in {"take", "store"} => row'[i] \in From(i)..To(i)
  <2>1. \A i \in Jobs : step'[i] \in {"take", "store"} => step[i] \in {"take", "store"}
    BY <1>1, <1>3 DEF TypeOK
  <2>. QED  BY <2>1, <1>1, <1>3 DEF Moves
<1>18. \A i \in Jobs : step'[i] = "store" => row'[i] < To(i)
  <2>1. \A i \in Jobs : step'[i] = "store" => step[i] = "store" \/ i = j
    BY <1>1, <1>3 DEF TypeOK
  <2>. QED  BY <2>1, <1>1, <1>3 DEF Moves
<1>19. \A v \in Buckets : hist'[v] = Cardinality(Left(v))'
  <2>1. \A v \in Buckets : hist'[v] = Cardinality(Left(v)')
    BY <1>1, <1>3, <1>4, <1>9 DEF TypeOK
  <2>. QED  BY <2>1
<1>20. Moves'
  BY <1>14, <1>15, <1>16, <1>17, <1>18, <1>19 DEF Moves
<1>. QED  BY <1>2, <1>10, <1>20 DEF Inv, MoveInv

LEMMA StoreStep ==
  ASSUME Inv, NEW j \in Jobs, Store(j)
  PROVE  /\ Inv'
         /\ \A s \in Slots : newR[s] # Free => newR'[s] = newR[s]
<1>. DEFINE t == row[j]
            slot == Slot(j)
<1>1. /\ UNCHANGED <<hash, pc, written, completed, local, hist, next, temp, helpPsum,
                     psum, claim>>
      /\ Moving(j) /\ step[j] = "store"
      /\ newR' = [newR EXCEPT ![slot] = t]
      /\ row' = [row EXCEPT ![j] = @ + 1]
      /\ step' = [step EXCEPT ![j] = "take"]
  BY DEF Store, mainVars
<1>2. /\ pc' \in Placing /\ pc' \in PC
      /\ step' \in [Jobs -> {"start", "take", "store", "end"}]
      /\ BatchInv' /\ HistInv' /\ LayoutInv'
  BY <1>1, MovingFrame
<1>3. TypeOK /\ Moves /\ ClaimInv /\ LayoutOf(HashRange) /\ Hashed
  BY <1>1 DEF Inv, LayoutInv, MoveInv, Moves, Moving, Placing, TypeOK, Hashed
<1>4. /\ slot \in Slots /\ newR[slot] = Free /\ t \in Tuples
      /\ Off(hash[t]) <= slot /\ slot < Off(hash[t]) + Num(hash[t]) - hist[hash[t]]
  BY <1>1, <1>3, SlotOf DEF ClaimInv
<1>5. t \in From(j)..To(j) /\ t + 1 <= To(j) /\ t \in Nat
  <2>1. From(j) \in Int /\ To(j) \in Int
    BY ShareBounds, SizeAssumption
  <2>. QED  BY <1>1, <1>3, <2>1 DEF Moves, TypeOK
<1>. HIDE DEF slot, t
<1>6. /\ newR' \in [Slots -> Tuples \cup {Free}] /\ newR'[slot] = t
      /\ \A s \in Slots : s # slot => newR'[s] = newR[s]
  BY <1>1, <1>3, <1>4 DEF TypeOK
<1>7. /\ row' \in [Jobs -> Nat] /\ row'[j] = t + 1
      /\ \A i \in Jobs : i # j => row'[i] = row[i]
  BY <1>1, <1>3 DEF TypeOK, t
<1>8. TypeOK'
  BY <1>1, <1>2, <1>3, <1>6, <1>7 DEF TypeOK
<1>9. \A i \in Jobs : step'[i] = "store" => i # j /\ step[i] = "store"
  BY <1>1, <1>3 DEF TypeOK
<1>10. \A i \in Jobs : Moved(i)' = Moved(i)
  BY <1>1, <1>3, <1>7 DEF Moved, TypeOK, t
<1>11. Taken' = Taken
       /\ \A v : Left(v)' = Left(v) /\ Num(v)' = Num(v) /\ Off(v)' = Off(v)
  BY <1>1, <1>10, SameTaken, SameCounts
<1>12. ASSUME NEW i \in Jobs, i # j, step[i] = "store"
       PROVE  Slot(i)' = Slot(i) /\ Slot(i) \in Slots /\ Slot(i) # slot
  <2>. DEFINE v == hash[row[i]]
              u == hash[t]
  <2>1. Slot(i)' = Slot(i)
    BY <1>1, <1>7, <1>12 DEF Slot, End
  <2>2. /\ v \in Buckets /\ hist[v] \in Nat /\ Off(v) \in Nat /\ Num(v) \in Nat
        /\ Slot(i) = Off(v) + Num(v) - claim[i] /\ Slot(i) \in Slots
        /\ Off(v) <= Slot(i) /\ Slot(i) < Off(v) + Num(v) - hist[v]
    BY <1>3, <1>12, SlotOf
  <2>3. /\ u \in Buckets /\ hist[u] \in Nat /\ Off(u) \in Nat /\ Num(u) \in Nat
        /\ slot = Off(u) + Num(u) - claim[j]
        /\ Off(u) <= slot /\ slot < Off(u) + Num(u) - hist[u]
    BY <1>1, <1>3, SlotOf DEF slot, t
  <2>4. v = u => claim[i] # claim[j]
    BY <1>1, <1>3, <1>12 DEF ClaimInv, t
  <2>5. claim[i] \in Nat /\ claim[j] \in Nat
    BY <1>3 DEF TypeOK
  <2>6. \A s \in Slots : s \in Int
    BY DEF Slots
  <2>. HIDE DEF u, v
  <2>7. Slot(i) # slot
    <3>1. CASE v = u
      BY <3>1, <2>2, <2>3, <2>4, <2>5
    <3>2. CASE v # u
      <4>1. ASSUME Slot(i) = slot  PROVE FALSE
        <5>1. /\ slot \in Int /\ Off(v) <= slot /\ slot < Off(v) + Num(v)
              /\ Off(u) <= slot /\ slot < Off(u) + Num(u)
          BY <4>1, <2>2, <2>3, <2>6
        <5>. QED  BY <5>1, <3>2, <1>3, <2>2, <2>3, OneBucket
      <4>. QED  BY <4>1
    <3>. QED  BY <3>1, <3>2
  <2>. QED  BY <2>1, <2>2, <2>7
<1>13. ClaimInv'
  <2>1. \A i \in Jobs : step'[i] = "store" => newR'[Slot(i)'] = Free
    BY <1>3, <1>6, <1>9, <1>12 DEF ClaimInv
  <2>. QED  BY <2>1, <1>1, <1>3, <1>7, <1>9, <1>11 DEF ClaimInv
<1>14. PlaceInv'
  BY <1>1, <1>3, <1>4, <1>6, <1>11 DEF Moves, PlaceInv
<1>15. ASSUME NEW r \in Taken
       PROVE  \/ \E s \in Slots : newR'[s] = r
              \/ \E i \in Jobs : step'[i] = "store" /\ row'[i] = r
  <2>1. CASE \E s \in Slots : newR[s] = r
    <3>1. PICK s \in Slots : newR[s] = r
      BY <2>1
    <3>2. r # Free
      BY DEF Taken, Tuples, Free
    <3>3. s # slot
      BY <3>1, <3>2, <1>4
    <3>. QED  BY <3>1, <3>3, <1>6
  <2>2. CASE \E i \in Jobs : step[i] = "store" /\ row[i] = r
    <3>1. PICK i \in Jobs : step[i] = "store" /\ row[i] = r
      BY <2>2
    <3>2. CASE i = j
      BY <3>1, <3>2, <1>4, <1>6 DEF t
    <3>3. CASE i # j
      BY <3>1, <3>3, <1>1, <1>3, <1>7 DEF TypeOK
    <3>. QED  BY <3>2, <3>3
  <2>. QED  BY <2>1, <2>2, <1>3 DEF Moves
<1>16. \A i \in Jobs : step'[i] \in {"take", "store"} => row'[i] \in From(i)..To(i)
  <2>1. From(j) \in Int /\ To(j) \in Int
    BY ShareBounds, SizeAssumption
  <2>2. \A i \in Jobs : i # j => step'[i] = step[i]
    BY <1>1, <1>3 DEF TypeOK
  <2>. QED  BY <2>1, <2>2, <1>3, <1>5, <1>7 DEF Moves
<1>17. Moves'
  BY <1>1, <1>3, <1>7, <1>9, <1>11, <1>13, <1>14, <1>15, <1>16 DEF Moves
<1>18. EmptyInv'
  BY <1>2 DEF EmptyInv
<1>. QED  BY <1>2, <1>4, <1>6, <1>8, <1>17, <1>18 DEF Inv, MoveInv

-----------------------------------------------------------------------------
(* The end of the second batch                                             *)

(* As many slots as tuples: each has one, and it lies in its bucket.       *)
LEMMA EverySlotFilled ==
  ASSUME Inv, pc = "done"
  PROVE  /\ \A t \in Tuples : \E s \in Slots : newR[s] = t
         /\ \A s \in Slots : newR[s] \in Tuples
         /\ \A s \in Slots : LET v == hash[newR[s]]
                             IN  v \in Buckets /\ Off(v) <= s /\ s < Off(v) + Num(v)
<1>1. Moves /\ TypeOK /\ \A j \in Jobs : step[j] = "end"
  BY DEF Inv, MoveInv, Placing, BatchInv, BarriersHold
<1>2. \A j \in Jobs : Moved(j) = To(j)
  BY <1>1 DEF Moved
<1>3. Taken = Tuples
  BY <1>2, SharesCover DEF Taken
<1>4. \A t \in Tuples : \E s \in Slots : newR[s] = t
  BY <1>1, <1>3 DEF Moves
<1>. DEFINE place == [t \in Tuples |-> CHOOSE s \in Slots : newR[s] = t]
<1>5. \A t \in Tuples : place[t] \in Slots /\ newR[place[t]] = t
  BY <1>4
<1>. HIDE DEF place
<1>6. place \in Injection(Tuples, Slots)
  <2>1. place \in [Tuples -> Slots]
    BY <1>5 DEF place
  <2>2. \A a, b \in Tuples : place[a] = place[b] => a = b
    BY <1>5
  <2>. QED  BY <2>1, <2>2 DEF Injection, IsInjective
<1>7. IsFiniteSet(Slots) /\ Cardinality(Tuples) = Cardinality(Slots)
  BY TuplesCount DEF Tuples, Slots
<1>8. place \in Surjection(Tuples, Slots)
  BY <1>6, <1>7, FS_Injection
<1>9. \A s \in Slots : \E t \in Tuples : place[t] = s
  BY <1>8 DEF Surjection
<1>10. \A s \in Slots : newR[s] \in Tuples
  BY <1>5, <1>9
<1>11. ASSUME NEW s \in Slots
       PROVE  LET v == hash[newR[s]]
              IN  v \in Buckets /\ Off(v) <= s /\ s < Off(v) + Num(v)
  <2>. DEFINE v == hash[newR[s]]
  <2>1. v \in Buckets /\ hist[v] \in Nat
    BY <1>1, <1>10 DEF TypeOK
  <2>2. newR[s] # Free
    BY <1>10 DEF Tuples, Free
  <2>3. Off(v) <= s /\ s < Off(v) + Num(v) - hist[v]
    BY <1>1, <2>2 DEF Moves, PlaceInv
  <2>4. Off(v) \in Nat /\ Num(v) \in Nat /\ s \in Int
    BY <1>1, OffType, SizeAssumption DEF TypeOK, Hashed, Slots
  <2>. HIDE DEF v
  <2>5. s < Off(v) + Num(v)
    BY <2>1, <2>3, <2>4
  <2>. QED  BY <2>1, <2>3, <2>5 DEF v
<1>. QED  BY <1>4, <1>10, <1>11

LEMMA InvImpliesReordered ==
  ASSUME Inv
  PROVE  Reordered
<1>1. Hashed /\ TypeOK
  BY DEF Inv, TypeOK, Hashed
<1>2. StoresInBucket
  <2>. SUFFICES ASSUME NEW j \in Jobs, step[j] = "store"
                PROVE  /\ Slot(j) \in Slots
                       /\ helpPsum[hash[row[j]]] <= Slot(j)
                       /\ Slot(j) < helpPsum[hash[row[j]]] + Num(hash[row[j]])
    BY DEF StoresInBucket, Num
  <2>. DEFINE v == hash[row[j]]
  <2>1. ClaimInv /\ LayoutOf(HashRange)
    <3>1. pc \in Placing
      BY <1>1 DEF Inv, BatchInv, BarriersHold, Placing, Counting, TypeOK, PC
    <3>. QED  BY <3>1 DEF Inv, MoveInv, Moves, LayoutInv
  <2>2. /\ v \in Buckets /\ hist[v] \in Nat /\ Off(v) \in Nat /\ Num(v) \in Nat
        /\ Slot(j) \in Slots
        /\ Off(v) <= Slot(j) /\ Slot(j) < Off(v) + Num(v) - hist[v]
    BY <1>1, <2>1, SlotOf
  <2>3. helpPsum[v] = Off(v)
    BY <1>1, <2>1, <2>2, EndOf
  <2>4. \A s \in Slots : s \in Int
    BY DEF Slots
  <2>. HIDE DEF v
  <2>5. helpPsum[v] <= Slot(j) /\ Slot(j) < helpPsum[v] + Num(v)
    BY <2>2, <2>3, <2>4
  <2>. QED  BY <2>2, <2>5 DEF v
<1>3. \A v : Off(v) \in Nat /\ Num(v) \in Nat
  BY <1>1, OffType, SizeAssumption
<1>4. Partitioned
  <2>. SUFFICES ASSUME pc = "done"
                PROVE  /\ \A t \in Tuples : \E s \in Slots : newR[s] = t
                       /\ \A r, s \in Slots : r <= s => hash[newR[r]] <= hash[newR[s]]
    BY DEF Partitioned
  <2>1. ASSUME NEW r \in Slots, NEW s \in Slots, r <= s
        PROVE  hash[newR[r]] <= hash[newR[s]]
    <3>. DEFINE v == hash[newR[r]]
                w == hash[newR[s]]
    <3>1. v \in Buckets /\ Off(v) <= r /\ w \in Buckets /\ s < Off(w) + Num(w)
      BY EverySlotFilled
    <3>2. r \in Int /\ s \in Int /\ v \in Int /\ w \in Int
      BY <3>1 DEF Slots, Buckets
    <3>. HIDE DEF v, w
    <3>3. w < v => Off(w) + Num(w) <= Off(v)
      BY <1>1, <3>1, BucketsApart
    <3>4. v <= w
      BY <2>1, <3>1, <3>2, <3>3, <1>3
    <3>. QED  BY <3>4 DEF v, w
  <2>. QED  BY <2>1, EverySlotFilled
<1>5. PsumDelimitsBuckets
  <2>. SUFFICES ASSUME pc = "done"
                PROVE  /\ {psum[i].h1Res : i \in 1..Len(psum)} = {hash[t] : t \in Tuples}
                       /\ \A i \in 1..Len(psum) : \A s \in Slots :
                            psum[i].offset <= s /\ s < PsumEnd(i)
                              <=> hash[newR[s]] = psum[i].h1Res
    BY DEF PsumDelimitsBuckets
  <2>1. PsumOf(HashRange) /\ Len(psum) \in Nat
    BY <1>1 DEF Inv, LayoutInv, Placing, LayoutOf, TypeOK
  <2>2. \A i \in 1..Len(psum) : psum[i].h1Res \in Buckets
    BY <2>1 DEF PsumOf, Buckets
  <2>3. {psum[i].h1Res : i \in 1..Len(psum)} = {hash[t] : t \in Tuples}
    <3>1. ASSUME NEW i \in 1..Len(psum)
          PROVE  \E t \in Tuples : hash[t] = psum[i].h1Res
      BY <2>1, Occurs DEF PsumOf
    <3>2. ASSUME NEW t \in Tuples
          PROVE  \E i \in 1..Len(psum) : psum[i].h1Res = hash[t]
      <4>1. hash[t] \in 0..HashRange-1 /\ Num(hash[t]) > 0
        BY <1>1, Occurs DEF Hashed, Buckets
      <4>. QED  BY <4>1, <2>1 DEF PsumOf
    <3>. QED  BY <3>1, <3>2
  <2>4. ASSUME NEW i \in 1..Len(psum), NEW s \in Slots
        PROVE  psum[i].offset <= s /\ s < PsumEnd(i) <=> hash[newR[s]] = psum[i].h1Res
    <3>. DEFINE v == psum[i].h1Res
                w == hash[newR[s]]
    <3>1. v \in Buckets /\ psum[i].offset = Off(v)
      BY <2>1, <2>2 DEF PsumOf
    <3>2. w \in Buckets /\ Off(w) <= s /\ s < Off(w) + Num(w) /\ s \in Int /\ s < Size
      BY EverySlotFilled, SizeAssumption DEF Slots
    <3>3. PICK k \in 1..Len(psum) : psum[k].h1Res = w
      <4>1. newR[s] \in Tuples
        BY EverySlotFilled
      <4>. QED  BY <4>1, <2>3
    <3>4. /\ (k < i => w < v) /\ (i < k => v < w) /\ (k = i => v = w)
      BY <2>1, <3>3 DEF PsumOf
    <3>5. v < w => i + 1 \in 1..Len(psum) /\ PsumEnd(i) <= Off(w)
      <4>. SUFFICES ASSUME v < w
                    PROVE  i + 1 \in 1..Len(psum) /\ PsumEnd(i) <= Off(w)
        OBVIOUS
      <4>1. v \in Int /\ w \in Int
        BY <3>1, <3>2 DEF Buckets
      <4>2. i < k /\ i + 1 \in 1..Len(psum) /\ i < Len(psum)
        BY <4>1, <3>4, <2>1
      <4>. DEFINE x == psum[i + 1].h1Res
      <4>3. x \in Buckets /\ PsumEnd(i) = Off(x)
        BY <4>2, <2>1, <2>2 DEF PsumOf, PsumEnd
      <4>4. x <= w
        <5>1. i + 1 < k \/ i + 1 = k
          BY <4>2
        <5>2. i + 1 < k => x < w
          BY <4>2, <3>3, <2>1 DEF PsumOf
        <5>3. i + 1 = k => x = w
          BY <3>3
        <5>. QED  BY <5>1, <5>2, <5>3, <4>3, <3>2 DEF Buckets
      <4>. HIDE DEF x, w
      <4>5. x \in 0..HashRange /\ w \in 0..HashRange
        BY <4>3, <3>2, RangeAssumption DEF Buckets
      <4>6. Off(x) <= Off(w)
        BY <1>1, <4>4, <4>5, OffMonotone
      <4>. QED  BY <4>2, <4>3, <4>6
    <3>6. Off(v) + Num(v) <= PsumEnd(i) /\ PsumEnd(i) \in Int
      <4>1. CASE i < Len(psum)
        <5>. DEFINE x == psum[i + 1].h1Res
        <5>1. i + 1 \in 1..Len(psum)
          BY <4>1, <2>1
        <5>2. x \in Buckets /\ PsumEnd(i) = Off(x) /\ v < x
          BY <5>1, <4>1, <2>1, <2>2 DEF PsumOf, PsumEnd
        <5>. HIDE DEF x, v
        <5>. QED  BY <5>2, <3>1, <1>1, <1>3, BucketsApart
      <4>2. CASE ~(i < Len(psum))
        BY <4>2, <3>1, <1>1, BucketInside, SizeAssumption DEF PsumEnd
      <4>. QED  BY <4>1, <4>2
    <3>7. v = w \/ v < w \/ w < v
      BY <3>1, <3>2 DEF Buckets
    <3>. HIDE DEF v, w
    <3>8. CASE v = w
      BY <3>8, <3>1, <3>2, <3>6, <1>3 DEF v, w
    <3>9. CASE v < w
      <4>1. ~(s < PsumEnd(i))
        BY <3>9, <3>2, <3>5, <3>6, <1>3
      <4>2. v # w
        BY <3>9, <3>1, <3>2 DEF Buckets
      <4>. QED  BY <4>1, <4>2 DEF v, w
    <3>10. CASE w < v
      <4>1. Off(w) + Num(w) <= Off(v)
        BY <3>10, <3>1, <3>2, <1>1, BucketsApart
      <4>2. ~(psum[i].offset <= s)
        BY <4>1, <3>1, <3>2, <1>3
      <4>3. v # w
        BY <3>10, <3>1, <3>2 DEF Buckets
      <4>. QED  BY <4>2, <4>3 DEF v, w
    <3>. QED  BY <3>7, <3>8, <3>9, <3>10
  <2>. QED  BY <2>3, <2>4
<1>. QED  BY <1>2, <1>4, <1>5 DEF Reordered

-----------------------------------------------------------------------------
(* The theorems                                                            *)

LEMMA NextInv ==
  ASSUME Inv, [Next]_vars
  PROVE  /\ Inv'
         /\ \A s \in Slots : newR[s] # Free => newR'[s] = newR[s]
<1>1. CASE WriteJob \/ Wait \/ SpuriousWakeup \/ PassHist \/ PassMove
  BY <1>1, MainMoves DEF WriteJob, Wait, SpuriousWakeup, PassHist, PassMove
<1>2. CASE Merge
  BY <1>2, MergeStep DEF Merge
<1>3. CASE Offsets
  BY <1>3, OffsetsStep DEF Offsets
<1>4. ASSUME NEW j \in Jobs, HistogramJob(j)
      PROVE  Inv' /\ newR' = newR
  BY <1>4, HistogramStep DEF HistogramJob
<1>5. ASSUME NEW j \in Jobs, StartMoving(j)
      PROVE  Inv' /\ newR' = newR
  BY <1>5, StartMovingStep DEF StartMoving
<1>6. ASSUME NEW j \in Jobs, TakePlace(j)
      PROVE  Inv' /\ newR' = newR
  BY <1>6, TakePlaceStep DEF TakePlace
<1>7. ASSUME NEW j \in Jobs, Store(j)
      PROVE  Inv' /\ \A s \in Slots : newR[s] # Free => newR'[s] = newR[s]
  BY <1>7, StoreStep
<1>8. ASSUME NEW j \in Jobs, EndMoving(j)
      PROVE  Inv' /\ newR' = newR
  BY <1>8, EndMovingStep DEF EndMoving
<1>9. CASE UNCHANGED vars
  <2>1. UNCHANGED <<hash, pc, written, completed, step, local, hist, next, temp,
                    helpPsum, psum, row, claim, newR>>
    BY <1>9 DEF vars
  <2>2. TypeOK' /\ BatchInv' /\ EmptyInv'
    BY <2>1 DEF Inv, TypeOK, BatchInv, BarriersHold, Ended, EmptyInv
  <2>3. HistInv'
    <3>1. From(next)' = From(next) /\ \A n : n = next' => n = next
      BY <2>1 DEF From
    <3>. QED  BY <2>1, <3>1, SameCounts DEF Inv, HistInv
  <2>4. LayoutInv' /\ MoveInv'
    <3>1. Off(next)' = Off(next) /\ LayoutOf(next)' = LayoutOf(next)
      BY <2>1 DEF Off, Before, Num, OfBucket, LayoutOf, PsumOf
    <3>2. SweepOf(next)' = SweepOf(next)
      BY <2>1, SameCounts DEF vars, SweepOf, Filled, Offset, buckets
    <3>. QED  BY <2>1, <3>1, <3>2, SameLayout, SameMoves DEF Inv, LayoutInv, MoveInv
  <2>. QED  BY <2>1, <2>2, <2>3, <2>4 DEF Inv
<1>. QED  BY <1>1, <1>2, <1>3, <1>4, <1>5, <1>6, <1>7, <1>8, <1>9
          DEF Next, Main, Job, Finished

LEMMA Invariance == Spec => []Inv
<1>1. Inv /\ [Next]_vars => Inv'
  BY NextInv
<1>. QED  BY InitInv, <1>1, PTL DEF Spec

(* Counters stay within Threads and histogram entries within the natural   *)
(* numbers, and nothing is stored outside the new array (H1.c).            *)
THEOREM TypeCorrect == Spec => []TypeOK
<1>1. Inv => TypeOK
  BY DEF Inv
<1>. QED  BY Invariance, <1>1, PTL

(* Whoever is behind a barrier finds every job of the batch ended, however *)
(* many there are and whatever wakes the main thread.                      *)
THEOREM Barriers == Spec => []BarriersHold
<1>1. Inv => BarriersHold
  BY DEF Inv, BatchInv
<1>. QED  BY Invariance, <1>1, PTL

(* For every relation and every assignment of hash values: stores stay in  *)
(* their bucket, the new array is the relation in ascending order of hash  *)
(* values, and psum delimits the buckets.                                  *)
THEOREM Reorders == Spec => []Reordered
<1>1. Inv => Reordered
  BY InvImpliesReordered
<1>. QED  BY Invariance, <1>1, PTL

(* No two jobs are given the same place, although the stores are made      *)
(* outside the mutex under which places are counted down.                  *)
THEOREM WrittenOnce == Spec => NoSlotWrittenTwice
<1>1. Inv /\ [Next]_vars =>
        [\A s \in Slots : newR[s] # Free => newR'[s] = newR[s]]_vars
  BY NextInv
<1>. QED  BY Invariance, <1>1, PTL DEF Spec, NoSlotWrittenTwice
=============================================================================

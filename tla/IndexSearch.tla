---------------------------- MODULE IndexSearch ----------------------------
(***************************************************************************)
(* The second half of radixHashJoin: indexing (src/indexing.c,             *)
(* src/indexManip.c, src/sideFunctions.c) builds a chained hash table for  *)
(* every bucket of the reordered relation R, cut into pieces that fit the  *)
(* cache, and searchThreadVer (src/chainFollower.c) probes it with the     *)
(* buckets of S, one job of the pool per bucket of S, each filling a       *)
(* result list of its own (src/resultListManip.c); the main thread waits   *)
(* for the jobs and links the lists together.                              *)
(*                                                                         *)
(* Keys are integers and a bucket is a residue, as Hash1_2 makes them; the *)
(* second hash is any function of the key, chosen in the initial state:    *)
(* index and search both take it from the piece they work on.  Cap stands  *)
(* for the number of tuples whose index fits in CACHE_SIZE, MaxTuples for  *)
(* MB / sizeof(tuple), the tuples of a result node.                        *)
(***************************************************************************)
EXTENDS Integers, FiniteSets, SequencesExt

CONSTANTS Relations,  \* the indexed and the probing relation: records r, s of keys
          HashRange,  \* buckets of the first hash
          Hash2Range, \* buckets of the second hash
          Cap,        \* tuples that one index piece may hold
          MaxTuples   \* tuples that one result node holds

ASSUME KeysAssumption == \A p \in Relations : p.r \in Seq(Nat) /\ p.s \in Seq(Nat)
ASSUME SizesAssumption == /\ HashRange \in Nat \ {0} /\ Hash2Range \in Nat \ {0}
                          /\ Cap \in Nat \ {0} /\ MaxTuples \in Nat \ {0}

Buckets == 0..HashRange-1
H1(key) == key % HashRange

VARIABLES rKey,      \* rKey[i]: the key of row i of R
          sKey,      \* sKey[i]: the key of row i of S
          hash2,     \* the second hash
          pc,        \* what the main thread does next
          index,     \* index[b]: the pieces of bucket b, a list linked by next
          at,        \* the bucket, piece and tuple the main thread is at
          job,       \* job[b]: "none", "ready", "run" or "end"
          probe,     \* probe[b]: piece, tuple of S and chain pointer of the job
          list,      \* list[b]: the headResult of job b
          connected, \* connectedLists
          result     \* the headResult of searchThreadVer, and its links

vars == <<rKey, sKey, hash2, pc, index, at, job, probe, list, connected, result>>

(* The rows of a bucket, in the order reorderRelation left them in.        *)
RowsOf(keys, b) ==
  LET rows[n \in 0..Len(keys)] ==
        IF n = 0 THEN <<>>
        ELSE IF H1(keys[n]) = b THEN Append(rows[n-1], n) ELSE rows[n-1]
  IN  rows[Len(keys)]
RRows(b) == RowsOf(rKey, b)
SRows(b) == RowsOf(sKey, b)
Keys == Range(rKey) \cup Range(sKey)
Probed == {b \in Buckets : SRows(b) # <<>>}

-----------------------------------------------------------------------------
(* Result lists: nodes that are full, and a buffer in the head.            *)

EmptyList == [nodes |-> <<>>, buff |-> <<>>, total |-> 0]

PushBeyondTheBuffer(l, t) ==
  IF Len(l.buff) <= MaxTuples
  THEN [l EXCEPT !.buff = Append(@, t), !.total = @ + 1]
  ELSE [nodes |-> Append(l.nodes, l.buff), buff |-> <<t>>, total |-> l.total + 1]
PushResult(l, t) ==
  IF Len(l.buff) # MaxTuples
  THEN [l EXCEPT !.buff = Append(@, t), !.total = @ + 1]
  ELSE [nodes |-> Append(l.nodes, l.buff), buff |-> <<t>>, total |-> l.total + 1]

CleanListHead(l) ==
  IF l.buff = <<>> THEN l
  ELSE [l EXCEPT !.nodes = Append(@, l.buff), !.buff = <<>>]

(* The result is the lists of the jobs, linked.  A pointer to the first or *)
(* the last node of a list is its bucket; nextNode[b] is where the last    *)
(* node of list b points to.                                               *)
None == -1
NoResult == [firstNode |-> None, tail |-> None, numbOfNodes |-> 0, total |-> 0,
             nextNode |-> [b \in Buckets |-> None]]

ConnectForgettingTheTail(final, b) ==
  IF list[b].total = 0 THEN final
  ELSE [firstNode   |-> IF final.total = 0 THEN b ELSE final.firstNode,
        tail        |-> IF final.total = 0 THEN b ELSE final.tail,
        numbOfNodes |-> final.numbOfNodes + Len(list[b].nodes),
        total       |-> final.total + list[b].total,
        nextNode    |-> IF final.total = 0 THEN final.nextNode
                        ELSE [final.nextNode EXCEPT ![final.tail] = b]]
ConnectResultList(final, b) ==
  IF list[b].total = 0 THEN final
  ELSE [firstNode   |-> IF final.total = 0 THEN b ELSE final.firstNode,
        tail        |-> b,
        numbOfNodes |-> final.numbOfNodes + Len(list[b].nodes),
        total       |-> final.total + list[b].total,
        nextNode    |-> IF final.total = 0 THEN final.nextNode
                        ELSE [final.nextNode EXCEPT ![final.tail] = b]]

-----------------------------------------------------------------------------
(* A bucket of n tuples is one piece if it fits; otherwise recomputeSizes  *)
(* halves it until a piece fits, and the last piece takes what is left.    *)
EachSize(n) ==
  LET half[m \in 0..n] == IF m <= Cap THEN m ELSE half[m \div 2]
  IN  half[n]

PieceSizesForgettingTheRest(n) ==
  [p \in 1..(n \div EachSize(n)) |-> EachSize(n)]
PieceSizes(n) ==
  LET e == EachSize(n)
      full == n \div e
      rest == n % e
  IN  [p \in 1..(full + IF rest = 0 THEN 0 ELSE 1) |->
         IF p <= full THEN e ELSE rest]

(* initializeIndex: every chain and every bucket is empty.                 *)
NewPiece(rows) == [rows    |-> rows,
                   buckets |-> [h \in 0..Hash2Range-1 |-> 0],
                   chain   |-> [i \in 1..Len(rows) |-> 0]]

NewPieces(rows) ==
  IF rows = <<>> THEN <<>>
  ELSE LET e == EachSize(Len(rows))
           sizes == PieceSizes(Len(rows))
       IN  [p \in 1..Len(sizes) |->
              NewPiece(SubSeq(rows, (p - 1) * e + 1, (p - 1) * e + sizes[p]))]

(* buildIndex and updateChain put tuple i in front of its chain; 0 ends a  *)
(* chain and i + 1 stands for the tuple at offset i.                       *)
UpdateChain(piece, i) ==
  LET h == hash2[rKey[piece.rows[i]]]
  IN  [piece EXCEPT !.chain[i] = piece.buckets[h], !.buckets[h] = i]

-----------------------------------------------------------------------------
Pairs == (DOMAIN rKey) \X (DOMAIN sKey)
Lists == [nodes : Seq(Seq(Pairs)), buff : Seq(Pairs), total : Nat]
Links == Buckets \cup {None}
Results == [firstNode : Links, tail : Links, numbOfNodes : Nat, total : Nat,
            nextNode : [Buckets -> Links]]

(* A piece fits the cache, chain and buckets point into it, and no buffer  *)
(* or node of a result list holds more than MB allows.                     *)
TypeOK ==
  /\ rKey \in Seq(Nat) /\ sKey \in Seq(Nat)
  /\ hash2 \in [Keys -> 0..Hash2Range-1]
  /\ pc \in {"index", "write", "test", "wait", "connect", "done"}
  /\ \A b \in Buckets : \A p \in DOMAIN index[b] :
       LET piece == index[b][p]
       IN  /\ Len(piece.rows) \in 1..Cap
           /\ \A i \in DOMAIN piece.chain : piece.chain[i] \in 0..Len(piece.rows)
           /\ \A h \in DOMAIN piece.buckets : piece.buckets[h] \in 0..Len(piece.rows)
  /\ job \in [Buckets -> {"none", "ready", "run", "end"}]
  /\ connected \in 0..HashRange
  /\ \A b \in Buckets : /\ list[b] \in Lists
                        /\ Len(list[b].buff) <= MaxTuples
                        /\ \A n \in DOMAIN list[b].nodes :
                             Len(list[b].nodes[n]) \in 1..MaxTuples
  /\ result \in Results

Start == [bucket |-> 0, piece |-> 1, tuple |-> 1]

Init == /\ \E p \in Relations : rKey = p.r /\ sKey = p.s
        /\ hash2 \in [Keys -> 0..Hash2Range-1]
        /\ pc = "index"
        /\ index = [b \in Buckets |-> <<>>]
        /\ at = Start
        /\ job = [b \in Buckets |-> "none"]
        /\ probe = [b \in Buckets |-> [piece |-> 1, tuple |-> 1, ptr |-> 0]]
        /\ list = [b \in Buckets |-> EmptyList]
        /\ connected = 0
        /\ result = NoResult

-----------------------------------------------------------------------------
(* indexing.                                                               *)

(* The bucket at hand is not laid out yet.                                 *)
LayOutBucket == /\ pc = "index"
                /\ at.bucket \in Buckets
                /\ index[at.bucket] = <<>>
                /\ RRows(at.bucket) # <<>>
                /\ index' = [index EXCEPT ![at.bucket] = NewPieces(RRows(at.bucket))]
                /\ UNCHANGED <<rKey, sKey, hash2, pc, at, job, probe, list,
                               connected, result>>

AddTuple ==
  /\ pc = "index"
  /\ at.bucket \in Buckets
  /\ index[at.bucket] # <<>>
  /\ at.piece <= Len(index[at.bucket])
  /\ LET b == at.bucket
         p == at.piece
         i == at.tuple
     IN  /\ index' = [index EXCEPT ![b][p] = UpdateChain(@, i)]
         /\ at' = IF i < Len(index[b][p].rows) THEN [at EXCEPT !.tuple = i + 1]
                  ELSE [at EXCEPT !.piece = p + 1, !.tuple = 1]
  /\ UNCHANGED <<rKey, sKey, hash2, pc, job, probe, list, connected, result>>

NextBucket == /\ pc = "index"
              /\ at.bucket \in Buckets
              /\ \/ RRows(at.bucket) = <<>>
                 \/ at.piece > Len(index[at.bucket]) /\ index[at.bucket] # <<>>
              /\ at' = [Start EXCEPT !.bucket = at.bucket + 1]
              /\ UNCHANGED <<rKey, sKey, hash2, pc, index, job, probe, list,
                             connected, result>>

EndIndex == /\ pc = "index"
            /\ at.bucket = HashRange
            /\ pc' = "write"
            /\ at' = Start
            /\ UNCHANGED <<rKey, sKey, hash2, index, job, probe, list,
                           connected, result>>

-----------------------------------------------------------------------------
(* searchThreadVer: one job per bucket that S has, then the barrier.       *)

WriteJob == /\ pc = "write"
            /\ at.bucket \in Buckets
            /\ job' = IF at.bucket \in Probed
                      THEN [job EXCEPT ![at.bucket] = "ready"] ELSE job
            /\ at' = [at EXCEPT !.bucket = @ + 1]
            /\ UNCHANGED <<rKey, sKey, hash2, pc, index, probe, list,
                           connected, result>>

EndWrite == /\ pc = "write"
            /\ at.bucket = HashRange
            /\ pc' = "test"
            /\ at' = Start
            /\ UNCHANGED <<rKey, sKey, hash2, index, job, probe, list,
                           connected, result>>

Wait == /\ pc = "test"
        /\ connected # Cardinality(Probed)
        /\ pc' = "wait"
        /\ UNCHANGED <<rKey, sKey, hash2, index, at, job, probe, list,
                       connected, result>>

SpuriousWakeup == /\ pc = "wait"
                  /\ pc' = "test"
                  /\ UNCHANGED <<rKey, sKey, hash2, index, at, job, probe,
                                 list, connected, result>>

PassWithoutTest == /\ pc = "test"
        /\ pc' = "connect"
        /\ UNCHANGED <<rKey, sKey, hash2, index, at, job, probe, list,
                       connected, result>>
Pass == /\ pc = "test"
        /\ connected = Cardinality(Probed)
        /\ pc' = "connect"
        /\ UNCHANGED <<rKey, sKey, hash2, index, at, job, probe, list,
                       connected, result>>

(* The lists are linked in the order of the buckets.                       *)
Connect == /\ pc = "connect"
           /\ at.bucket \in Buckets
           /\ result' = IF at.bucket \in Probed
                        THEN ConnectResultList(result, at.bucket)
                        ELSE result
           /\ at' = [at EXCEPT !.bucket = @ + 1]
           /\ UNCHANGED <<rKey, sKey, hash2, pc, index, job, probe, list,
                          connected>>

EndConnect == /\ pc = "connect"
              /\ at.bucket = HashRange
              /\ pc' = "done"
              /\ UNCHANGED <<rKey, sKey, hash2, index, at, job, probe, list,
                             connected, result>>

-----------------------------------------------------------------------------
(* joinBucket: searchKeyRec goes through the pieces, in each through the   *)
(* tuples of the bucket of S, and followChain through one chain for each.  *)

Begin(b) == /\ job[b] = "ready"
            /\ job' = [job EXCEPT ![b] = "run"]
            /\ UNCHANGED <<rKey, sKey, hash2, pc, index, at, probe, list,
                           connected, result>>

ProbeRow(b) == SRows(b)[probe[b].tuple]
ProbePiece(b) == index[b][probe[b].piece]

NextProbe(b) ==
  IF probe[b].tuple < Len(SRows(b))
  THEN [probe[b] EXCEPT !.tuple = @ + 1, !.ptr = 0]
  ELSE [piece |-> probe[b].piece + 1, tuple |-> 1, ptr |-> 0]

(* The head of the chain; an empty one sends the job to its next tuple.    *)
FollowChain(b) ==
  /\ job[b] = "run"
  /\ probe[b].piece <= Len(index[b])
  /\ probe[b].ptr = 0
  /\ LET head == ProbePiece(b).buckets[hash2[sKey[ProbeRow(b)]]]
     IN  probe' = [probe EXCEPT ![b] =
                     IF head = 0 THEN NextProbe(b) ELSE [@ EXCEPT !.ptr = head]]
  /\ UNCHANGED <<rKey, sKey, hash2, pc, index, at, job, list, connected, result>>

(* One link of the chain: the keys themselves are compared.                *)
VisitLink(b) ==
  /\ job[b] = "run"
  /\ probe[b].ptr # 0
  /\ LET row  == ProbePiece(b).rows[probe[b].ptr]
         link == ProbePiece(b).chain[probe[b].ptr]
     IN  /\ list' = IF rKey[row] # sKey[ProbeRow(b)] THEN list
                    ELSE [list EXCEPT ![b] =
                            PushResult(@, <<row, ProbeRow(b)>>)]
         /\ probe' = [probe EXCEPT ![b] =
                        IF link = 0 THEN NextProbe(b) ELSE [@ EXCEPT !.ptr = link]]
  /\ UNCHANGED <<rKey, sKey, hash2, pc, index, at, job, connected, result>>

CountAndSignalResultsOnly(b) ==
  /\ connected' = connected + IF list[b].total = 0 THEN 0 ELSE 1
  /\ pc' = IF connected' = Cardinality(Probed) /\ pc = "wait" THEN "test" ELSE pc
CountAndSignal(b) ==
  /\ connected' = connected + 1
  /\ pc' = IF connected + 1 = Cardinality(Probed) /\ pc = "wait" THEN "test"
           ELSE pc

(* The list is stored before it is counted; the last job wakes the main    *)
(* thread.                                                                 *)
EndJob(b) == /\ job[b] = "run"
             /\ probe[b].piece > Len(index[b])
             /\ list' = [list EXCEPT ![b] = CleanListHead(@)]
             /\ job' = [job EXCEPT ![b] = "end"]
             /\ CountAndSignal(b)
             /\ UNCHANGED <<rKey, sKey, hash2, index, at, probe, result>>

-----------------------------------------------------------------------------
Main == \/ LayOutBucket \/ AddTuple \/ NextBucket \/ EndIndex \/ WriteJob
        \/ EndWrite \/ Wait \/ Pass \/ Connect \/ EndConnect
Job(b) == Begin(b) \/ FollowChain(b) \/ VisitLink(b) \/ EndJob(b)
Finished == pc = "done" /\ UNCHANGED vars

Next == Main \/ SpuriousWakeup \/ (\E b \in Buckets : Job(b)) \/ Finished

Spec == Init /\ [][Next]_vars

(* The main thread is scheduled and the pool runs every job to its end.    *)
Fairness == WF_vars(Main) /\ \A b \in Buckets : WF_vars(Job(b))
FairSpec == Spec /\ Fairness

-----------------------------------------------------------------------------
(* Properties                                                              *)

(* A walk from firstNode along nextNode to the end, list by list.          *)
IsWalk(walk) ==
  IF walk = <<>> THEN result.firstNode = None
  ELSE /\ walk[1] = result.firstNode
       /\ \A i \in 1..Len(walk)-1 : result.nextNode[walk[i]] = walk[i+1]
       /\ result.nextNode[walk[Len(walk)]] = None

NodesOf(walk) == FlattenSeq([i \in 1..Len(walk) |-> list[walk[i]].nodes])

(* The join is exact: who follows the links of the result finds every pair *)
(* of rows with equal keys, each once, and comes to an end; numbOfNodes    *)
(* and totalSize count what he finds.                                      *)
JoinExact ==
  pc = "done" =>
    \E walk \in BoundedSeq(Buckets, HashRange) :
      LET rows == FlattenSeq(NodesOf(walk))
      IN  /\ IsWalk(walk)
          /\ Range(rows) = {m \in Pairs : rKey[m[1]] = sKey[m[2]]}
          /\ Len(rows) = Cardinality(Range(rows))
          /\ result.total = Len(rows)
          /\ result.numbOfNodes = Len(NodesOf(walk))

(* A list is linked only when its job has cleaned its head and ended.      *)
ConnectsFinishedLists ==
  pc \in {"connect", "done"} => \A b \in Probed : job[b] = "end"

(* No chain is followed for ever, so every chain ends, and the barrier      *)
(* opens.                                                                  *)
SearchEnds == <>(pc = "done")
=============================================================================

--------------------------- MODULE RadixPartition ---------------------------
(***************************************************************************)
(* reorderRelation of src/H1.c with DoTheHash of src/functions.c: the      *)
(* tuples of a relation are counted per hash value by Threads jobs, the    *)
(* main thread lays the buckets out, and Threads more jobs move the tuples *)
(* to their buckets, side by side, through one shared histogram.  The jobs *)
(* run on the pool of JobScheduler in any order and at any speed; the main *)
(* thread waits for each batch on a counter and a condition variable.      *)
(*                                                                         *)
(* A tuple is its row; its key matters only through its hash value, and    *)
(* every assignment of hash values to rows is an initial state.  A free    *)
(* slot of the new array holds Free.                                       *)
(***************************************************************************)
EXTENDS Integers, Sequences, FiniteSets

CONSTANTS Size,      \* r->size
          Threads,   \* NUMB_OF_THREADS, also the number of jobs of a batch
          HashRange  \* *hash1: the number of hash values

ASSUME SizeAssumption    == Size \in Nat \ {0}
ASSUME ThreadsAssumption == Threads \in Nat \ {0}
ASSUME RangeAssumption   == HashRange \in Nat \ {0}

Tuples  == 0..Size-1
Slots   == 0..Size-1
Jobs    == 0..Threads-1
Buckets == 0..HashRange-1
Free    == -1

VARIABLES hash,       \* hash[t]: Hash1_2 of the key of tuple t
          pc,         \* what the main thread does next
          written,    \* jobs of the current batch put on the queue
          completed,  \* histsCompleted, then constructionsCompleted
          step,       \* step[j]: what job j of the current batch does next
          local,      \* local[j]: contents[j]->hist
          hist,       \* the shared histogram
          next,       \* loop variable of the main thread
          temp,       \* where the bucket next starts, until the last one
          helpPsum,   \* where each bucket starts
          psum,       \* psum: the buckets that are not empty, with offsets
          row,        \* row[j]: the tuple job j moves next
          claim,      \* claim[j]: the value of hist job j took for it
          newR        \* the reordered relation, by slot

mainVars == <<pc, written, next, temp, helpPsum, psum>>
vars == <<hash, pc, written, completed, step, local, hist, next, temp,
          helpPsum, psum, row, claim, newR>>

PC == {"writeHist", "testHist", "waitHist", "merge", "offsets", "writeMove",
       "testMove", "waitMove", "done"}

(* The rows of job j: an equal share each, the last also the remainder.    *)
From(j) == j * (Size \div Threads)
ToWithoutRemainder(j) == (j + 1) * (Size \div Threads)
To(j)   == IF j # Threads - 1 THEN (j + 1) * (Size \div Threads) ELSE Size

(* Tuples of the rows a..b-1 with hash value v.                            *)
OfBucket(v, a, b) == {t \in Tuples : a <= t /\ t < b /\ hash[t] = v}
Before(v) == {t \in Tuples : hash[t] < v}

(* Neither counter of a batch passes Threads, no histogram entry goes      *)
(* below zero, and nothing is stored outside the new array.                *)
TypeOK == /\ hash \in [Tuples -> Buckets]
          /\ pc \in PC
          /\ written \in 0..Threads
          /\ completed \in 0..Threads
          /\ step \in [Jobs -> {"start", "take", "store", "end"}]
          /\ local \in [Jobs -> [Buckets -> Nat]]
          /\ hist \in [Buckets -> Nat]
          /\ next \in Nat
          /\ temp \in Nat
          /\ helpPsum \in [Buckets -> Nat]
          /\ psum \in Seq([h1Res : Buckets, offset : Nat])
          /\ row \in [Jobs -> Nat]
          /\ claim \in [Jobs -> Nat]
          /\ newR \in [Slots -> Tuples \cup {Free}]

Init == /\ hash \in [Tuples -> Buckets]
        /\ pc = "writeHist"
        /\ written = 0
        /\ completed = 0
        /\ step = [j \in Jobs |-> "start"]
        /\ local = [j \in Jobs |-> [v \in Buckets |-> 0]]
        /\ hist = [v \in Buckets |-> 0]
        /\ next = 0
        /\ temp = 0
        /\ helpPsum = [v \in Buckets |-> 0]
        /\ psum = <<>>
        /\ row = [j \in Jobs |-> 0]
        /\ claim = [j \in Jobs |-> 0]
        /\ newR = [s \in Slots |-> Free]

-----------------------------------------------------------------------------
(* Both batches: writing a job on the queue, and the barrier.              *)

WriteOneJobTooMany ==
            /\ pc \in {"writeHist", "writeMove"}
            /\ written' = written + 1
            /\ pc' = IF written + 1 <= Threads THEN pc
                     ELSE IF pc = "writeHist" THEN "testHist" ELSE "testMove"
            /\ UNCHANGED <<hash, completed, step, local, hist, next, temp,
                           helpPsum, psum, row, claim, newR>>
WriteJob == /\ pc \in {"writeHist", "writeMove"}
            /\ written' = written + 1
            /\ pc' = IF written + 1 < Threads THEN pc
                     ELSE IF pc = "writeHist" THEN "testHist" ELSE "testMove"
            /\ UNCHANGED <<hash, completed, step, local, hist, next, temp,
                           helpPsum, psum, row, claim, newR>>

(* while (completed != NUMB_OF_THREADS) pthread_cond_wait: the main thread *)
(* holds the mutex of the counter from its test to its wait.               *)
Blocked == pc \in {"waitHist", "waitMove"}
Awake   == IF pc = "waitHist" THEN "testHist" ELSE "testMove"

Wait == /\ pc \in {"testHist", "testMove"}
        /\ completed # Threads
        /\ pc' = IF pc = "testHist" THEN "waitHist" ELSE "waitMove"
        /\ UNCHANGED <<hash, written, completed, step, local, hist, next, temp,
                       helpPsum, psum, row, claim, newR>>

SpuriousWakeup == /\ Blocked
                  /\ pc' = Awake
                  /\ UNCHANGED <<hash, written, completed, step, local, hist,
                           next, temp, helpPsum, psum, row, claim, newR>>

(* The end of a job: count it and, if it is the last, signal.              *)
CompleteSignallingTooEarly ==
            /\ completed' = completed + 1
            /\ pc' = IF completed + 1 = Threads - 1 /\ Blocked THEN Awake ELSE pc
Complete == /\ completed' = completed + 1
            /\ pc' = IF completed + 1 = Threads /\ Blocked THEN Awake ELSE pc

-----------------------------------------------------------------------------
(* The histogram.                                                          *)

(* histogramJob: its rows are its own, so only its result and its count    *)
(* are seen by others.                                                     *)
HistogramJob(j) ==
  /\ pc \in {"writeHist", "testHist", "waitHist"}
  /\ j < written
  /\ step[j] = "start"
  /\ local' = [local EXCEPT ![j] =
                 [v \in Buckets |-> Cardinality(OfBucket(v, From(j), To(j)))]]
  /\ step' = [step EXCEPT ![j] = "end"]
  /\ Complete
  /\ UNCHANGED <<hash, written, hist, next, temp, helpPsum, psum, row, claim,
                 newR>>

PassHistWithoutTest == /\ pc = "testHist"
            /\ pc' = "merge"
            /\ next' = 0
            /\ UNCHANGED <<hash, written, completed, step, local, hist, temp,
                           helpPsum, psum, row, claim, newR>>
PassHist == /\ pc = "testHist"
            /\ completed = Threads
            /\ pc' = "merge"
            /\ next' = 0
            /\ UNCHANGED <<hash, written, completed, step, local, hist, temp,
                           helpPsum, psum, row, claim, newR>>

(* The histograms are added up job by job.                                 *)
Merge == /\ pc = "merge"
         /\ hist' = [v \in Buckets |->
                       IF next = 0 THEN local[0][v] ELSE hist[v] + local[next][v]]
         /\ next' = IF next + 1 = Threads THEN 0 ELSE next + 1
         /\ pc' = IF next + 1 = Threads THEN "offsets" ELSE pc
         /\ UNCHANGED <<hash, written, completed, step, local, temp, helpPsum,
                        psum, row, claim, newR>>

-----------------------------------------------------------------------------
(* The layout: the sweep over the hash values that fills helpPsum for all  *)
(* of them and psum for those that occur, one value at a time.             *)

(* buckets: as many entries as psum will have.                             *)
buckets == Cardinality({v \in Buckets : hist[v] # 0})

(* The first entry starts at 0, the others behind the one before.          *)
Offset == IF psum = <<>> THEN 0
          ELSE psum[Len(psum)].offset + hist[psum[Len(psum)].h1Res]

(* temp is not moved any more behind the last bucket: the values that come *)
(* after it are set to the size.                                           *)
EmptyBucketAtTemp ==
  /\ helpPsum' = [helpPsum EXCEPT ![next] = temp]
  /\ UNCHANGED <<psum, temp>>
EmptyBucket ==
  /\ helpPsum' = [helpPsum EXCEPT ![next] =
                    IF Len(psum) = buckets THEN Size ELSE temp]
  /\ UNCHANGED <<psum, temp>>

FilledBucket ==
  /\ psum' = Append(psum, [h1Res |-> next, offset |-> Offset])
  /\ helpPsum' = [helpPsum EXCEPT ![next] = Offset]
  /\ temp' = IF psum = <<>> /\ HashRange = 1 THEN Size
             ELSE IF psum # <<>> /\ Len(psum) + 1 = buckets THEN temp
             ELSE temp + hist[next]

NextOffset == IF hist[next] = 0 THEN EmptyBucket ELSE FilledBucket

(* When the sweep ends the second batch starts from scratch.               *)
Offsets == /\ pc = "offsets"
           /\ NextOffset
           /\ next' = next + 1
           /\ IF next + 1 = HashRange
              THEN /\ pc' = "writeMove"
                   /\ written' = 0
                   /\ completed' = 0
                   /\ step' = [j \in Jobs |-> "start"]
              ELSE UNCHANGED <<pc, written, completed, step>>
           /\ UNCHANGED <<hash, local, hist, row, claim, newR>>

-----------------------------------------------------------------------------
(* constructionJob.                                                        *)

Moving(j) == pc \in {"writeMove", "testMove", "waitMove"} /\ j < written

StartMoving(j) == /\ Moving(j)
                  /\ step[j] = "start"
                  /\ row' = [row EXCEPT ![j] = From(j)]
                  /\ step' = [step EXCEPT ![j] = "take"]
                  /\ UNCHANGED <<hash, mainVars, completed, local, hist, claim,
                                 newR>>

(* Under workMutex of the bucket: temp = hist[h]; hist[h]--.               *)
TakePlaceWithoutCounting(j) ==
                /\ Moving(j)
                /\ step[j] = "take"
                /\ row[j] < To(j)
                /\ claim' = [claim EXCEPT ![j] = hist[hash[row[j]]]]
                /\ step' = [step EXCEPT ![j] = "store"]
                /\ UNCHANGED <<hash, mainVars, completed, local, hist, row,
                               newR>>
TakePlace(j) == /\ Moving(j)
                /\ step[j] = "take"
                /\ row[j] < To(j)
                /\ claim' = [claim EXCEPT ![j] = hist[hash[row[j]]]]
                /\ hist' = [hist EXCEPT ![hash[row[j]]] = @ - 1]
                /\ step' = [step EXCEPT ![j] = "store"]
                /\ UNCHANGED <<hash, mainVars, completed, local, row, newR>>

(* Where a bucket ends: where the next starts, or at the end of the array. *)
End(v) == IF v < HashRange - 1 THEN helpPsum[v + 1] ELSE Size
Slot(j) == End(hash[row[j]]) - claim[j]

(* Outside the mutex: newR[...] = tuples[i].                               *)
Store(j) == /\ Moving(j)
            /\ step[j] = "store"
            /\ newR' = [newR EXCEPT ![Slot(j)] = row[j]]
            /\ row' = [row EXCEPT ![j] = @ + 1]
            /\ step' = [step EXCEPT ![j] = "take"]
            /\ UNCHANGED <<hash, mainVars, completed, local, hist, claim>>

EndMoving(j) == /\ Moving(j)
                /\ step[j] = "take"
                /\ row[j] = To(j)
                /\ step' = [step EXCEPT ![j] = "end"]
                /\ Complete
                /\ UNCHANGED <<hash, written, local, hist, next, temp, helpPsum,
                               psum, row, claim, newR>>

PassMove == /\ pc = "testMove"
            /\ completed = Threads
            /\ pc' = "done"
            /\ UNCHANGED <<hash, written, completed, step, local, hist, next,
                           temp, helpPsum, psum, row, claim, newR>>

-----------------------------------------------------------------------------
Main == WriteJob \/ Wait \/ PassHist \/ Merge \/ Offsets \/ PassMove

Job(j) == \/ HistogramJob(j) \/ StartMoving(j) \/ TakePlace(j) \/ Store(j)
          \/ EndMoving(j)

Finished == pc = "done" /\ UNCHANGED vars

Next == Main \/ SpuriousWakeup \/ (\E j \in Jobs : Job(j)) \/ Finished

Spec == Init /\ [][Next]_vars

(* The main thread is scheduled, and the pool starts and runs every job    *)
(* that was written to its end (EveryJobStarts of JobScheduler).           *)
Fairness == WF_vars(Main) /\ \A j \in Jobs : WF_vars(Job(j))

FairSpec == Spec /\ Fairness

-----------------------------------------------------------------------------
(* Properties                                                              *)

(* The barriers hold: the histograms are added up only when every job has  *)
(* delivered its own, and the new array is handed out only when no job     *)
(* will write to it again (constructionsCompleted, histsCompleted).        *)
BarriersHold == pc \in {"merge", "offsets", "done"} =>
                  \A j \in Jobs : step[j] = "end"

(* No two jobs write the same slot, whatever the interleaving of the       *)
(* counting down of hist and the stores outside the mutex.                 *)
NoSlotWrittenTwice ==
  [][\A s \in Slots : newR[s] # Free => newR'[s] = newR[s]]_vars

(* A job stores within the array and within its tuple's bucket.            *)
StoresInBucket ==
  \A j \in Jobs : step[j] = "store" =>
    /\ Slot(j) \in Slots
    /\ helpPsum[hash[row[j]]] <= Slot(j)
    /\ Slot(j) < helpPsum[hash[row[j]]] + Cardinality(OfBucket(hash[row[j]], 0, Size))

(* The result is the relation, reordered by hash value: every tuple is in  *)
(* it, and the slots hold ascending hash values.                           *)
Partitioned ==
  pc = "done" =>
    /\ \A t \in Tuples : \E s \in Slots : newR[s] = t
    /\ \A r, s \in Slots : r <= s => hash[newR[r]] <= hash[newR[s]]

(* What search reads: psum lists the hash values that occur, ascending,    *)
(* and entry i spans the tuples of its value up to entry i + 1 or the end. *)
PsumEnd(i) == IF i < Len(psum) THEN psum[i + 1].offset ELSE Size
PsumDelimitsBuckets ==
  pc = "done" =>
    /\ {psum[i].h1Res : i \in 1..Len(psum)} = {hash[t] : t \in Tuples}
    /\ \A i \in 1..Len(psum) : \A s \in Slots :
         psum[i].offset <= s /\ s < PsumEnd(i) <=> hash[newR[s]] = psum[i].h1Res

(* reorderRelation reorders: stores stay in their buckets on the way, and  *)
(* at the end the array and its psum are what search relies on.            *)
Reordered == StoresInBucket /\ Partitioned /\ PsumDelimitsBuckets

(* The jobs and the main thread never wait for one another for ever.       *)
Terminates == <>(pc = "done")
=============================================================================

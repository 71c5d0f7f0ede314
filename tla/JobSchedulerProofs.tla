------------------------- MODULE JobSchedulerProofs -------------------------
(***************************************************************************)
(* Proofs about JobScheduler for every number of workers and jobs.         *)
(*                                                                         *)
(* The argument: a worker holds the mutex exactly from its lock to its     *)
(* wait or its reading++, so what it tested there is still true when it    *)
(* counts itself in (LockInv, InsideInv).  Hence the list is changed by    *)
(* one thread at a time and size is its length (SizeInv), and therefore    *)
(* the list is always the last jobs written and the others are in one hand *)
(* or done (JobInv).  Each layer uses the ones before it only.             *)
(***************************************************************************)
EXTENDS JobScheduler, SequenceTheorems, TLAPS

(* The mutex is held between lock and unlock or wait, and by one worker.   *)
Holding == {"first", "test", "check", "sleep", "enter"}

LockInv == /\ \A w \in Workers : pc[w] \in Holding <=> owner = w
           /\ \A w \in Workers : pc[w] = "enter" =>
                writing = 0 /\ reading = 0 /\ size > 0

(* reading and writing count the threads inside, and never more than one.  *)
Inside(w) == pc[w] \in {"pop", "popSize", "exitRead"}

InsideInv == /\ writing = IF WriterInside THEN 1 ELSE 0
             /\ reading = 0 => \A w \in Workers : ~Inside(w)
             /\ \A w \in Workers : Inside(w) => reading = 1 /\ ~WriterInside
             /\ \A v, w \in Workers : Inside(v) /\ Inside(w) => v = w
             /\ reading \in {0, 1}
             /\ reading = 1 => \E w \in Workers : Inside(w)

(* size is one behind the list while a thread has relinked and not yet     *)
(* counted, and equal to its length otherwise; a reader inside has         *)
(* something to pop.                                                       *)
SizeInv == /\ main = "insertSize" => Len(queue) = size + 1
           /\ \A w \in Workers : pc[w] = "popSize" => size = Len(queue) + 1
           /\ main # "insertSize" /\ (\A w \in Workers : pc[w] # "popSize")
                => size = Len(queue)
           /\ \A w \in Workers : pc[w] = "pop" => size > 0

(* A call of writeOnQueue has a job to write.                              *)
WriteInv == main \in {"enterWrite", "waitWrite", "insert"} => submitted < NumJobs

(* A worker has a job in hand from its pop to the end of the job.          *)
HandInv == \A w \in Workers :
  job[w] # NoJob <=> pc[w] \in {"popSize", "exitRead", "exitCheck", "run"}

SyncInv == TypeOK /\ LockInv /\ InsideInv /\ SizeInv /\ WriteInv /\ HandInv

LEMMA SyncInit == Init => SyncInv
  BY WorkersAssumption, NumJobsAssumption, SpuriousAssumption
  DEF Init, SyncInv, TypeOK, LockInv, InsideInv, SizeInv, WriteInv, HandInv, Holding, Inside,
      WriterInside, WorkerLabels, MainLabels, Jobs, NoJob

(* A signal moves at most blocked readers, and only to their relock.       *)
LEMMA SignalReadMoves ==
  ASSUME NEW p \in [Workers -> WorkerLabels], NEW q \in SignalRead(p)
  PROVE  /\ q \in [Workers -> WorkerLabels]
         /\ \A v \in Workers :
              q[v] = p[v] \/ (p[v] = "waiting" /\ q[v] = "relock")
  BY DEF SignalRead, WorkerLabels

(* Labels stay labels; the counters stay natural because only a thread     *)
(* that is inside counts down, and only jobs enter the list.               *)
LEMMA TypeStep ==
  ASSUME SyncInv, Next PROVE TypeOK'
  <1> USE WorkersAssumption, NumJobsAssumption, SpuriousAssumption
      DEF SyncInv, TypeOK, WriteInv, HandInv, WorkerLabels,
          MainLabels, Jobs, NoJob, Goto
  <1>w. ASSUME NEW w \in Workers, Worker(w) \/ SpuriousRead(w)
        PROVE  TypeOK'
    <2>1. CASE LeaveOnShutdown(w)
      BY <2>1 DEF LeaveOnShutdown
    <2>2. CASE LoopAgain(w)
      BY <2>2 DEF LoopAgain
    <2>3. CASE Lock(w)
      BY <2>3 DEF Lock
    <2>4. CASE FirstCheck(w)
      BY <2>4 DEF FirstCheck
    <2>5. CASE FindFree(w)
      BY <2>5 DEF FindFree, MustWaitToRead, QueueBusy
    <2>6. CASE EnterRead(w)
      BY <2>6 DEF EnterRead
    <2>7. CASE FindBusy(w)
      BY <2>7 DEF FindBusy
    <2>8. CASE CheckAndSignal(w)
      BY <2>8 DEF CheckAndSignal, SignalWrite
    <2>9. CASE Sleep(w)
      BY <2>9 DEF Sleep
    <2>10. CASE Pop(w)
      <3>1. size > 0 /\ queue # <<>>
        BY <2>10 DEF Pop, SizeInv, InsideInv, Inside, WriterInside
      <3>2. Head(queue) \in Jobs /\ Tail(queue) \in Seq(Jobs)
        BY <3>1
      <3>3. queue' \in Seq(Jobs)
        <4>1. queue' = <<>> \/ queue' = Tail(queue)
          BY <2>10 DEF Pop
        <4> QED BY <3>2, <4>1, EmptySeq
      <3>4. job' \in [Workers -> Jobs \cup {NoJob}]
        BY <2>10, <3>2 DEF Pop
      <3>5. pc' \in [Workers -> WorkerLabels]
        BY <2>10 DEF Pop
      <3> QED BY <2>10, <3>3, <3>4, <3>5 DEF Pop
    <2>11. CASE PopSize(w)
      <3>1. size = Len(queue) + 1
        BY <2>11 DEF PopSize, SizeInv
      <3> QED BY <2>11, <3>1 DEF PopSize
    <2>12. CASE ExitRead(w)
      <3>1. reading = 1
        BY <2>12 DEF ExitRead, InsideInv, Inside
      <3>2. [pc EXCEPT ![w] = "exitCheck"] \in [Workers -> WorkerLabels]
        OBVIOUS
      <3>3. pc' \in [Workers -> WorkerLabels]
        BY <2>12, <3>2, SignalReadMoves DEF ExitRead
      <3> QED BY <2>12, <3>1, <3>3 DEF ExitRead, SignalWrite
    <2>13. CASE KeepJob(w)
      BY <2>13 DEF KeepJob
    <2>14. CASE Run(w)
      BY <2>14 DEF Run
    <2>15. CASE SpuriousRead(w)
      BY <2>15 DEF SpuriousRead
    <2> QED BY <1>w, <2>1, <2>2, <2>3, <2>4, <2>5, <2>6, <2>7, <2>8,
           <2>9, <2>10, <2>11, <2>12, <2>13, <2>14, <2>15
        DEF Worker, WorkerCall
  <1>1. CASE StartWrite
    BY <1>1 DEF StartWrite
  <1>2. CASE EnterWrite
    BY <1>2 DEF EnterWrite, QueueBusy
  <1>3. CASE WaitToWrite
    BY <1>3 DEF WaitToWrite
  <1>4. CASE Insert
    <2>1. submitted \in Nat /\ submitted < NumJobs
      BY <1>4 DEF Insert
    <2>2. queue' \in Seq(Jobs)
      <3>1. submitted + 1 \in Jobs
        BY <2>1
      <3>2. queue' = <<submitted + 1>> \/ queue' = Append(queue, submitted + 1)
        BY <1>4 DEF Insert
      <3>3. queue \in Seq(Jobs)
        OBVIOUS
      <3>4. <<submitted + 1>> \in Seq(Jobs)
        BY <3>1
      <3>5. Append(queue, submitted + 1) \in Seq(Jobs)
        BY <3>1, <3>3, AppendProperties
      <3> QED BY <3>2, <3>4, <3>5
    <2>3. submitted' \in 0..NumJobs
      <3>1. submitted' = submitted + 1
        BY <1>4 DEF Insert
      <3> HIDE DEF SyncInv
      <3> QED BY <2>1, <3>1
    <2> QED BY <1>4, <2>2, <2>3 DEF Insert
  <1>5. CASE InsertSize
    BY <1>5 DEF InsertSize
  <1>6. CASE ExitWrite
    <2>1. writing = 1
      BY <1>6 DEF ExitWrite, InsideInv, WriterInside
    <2>2. pc' \in [Workers -> WorkerLabels]
      BY <1>6, SignalReadMoves DEF ExitWrite
    <2> QED BY <1>6, <2>1, <2>2 DEF ExitWrite
  <1>7. CASE Shutdown
    BY <1>7 DEF Shutdown
  <1>8. CASE Broadcast
    BY <1>8 DEF Broadcast
  <1>9. CASE Join
    BY <1>9 DEF Join
  <1>10. CASE SpuriousWrite
    BY <1>10 DEF SpuriousWrite
  <1> QED BY <1>w, <1>1, <1>2, <1>3, <1>4, <1>5, <1>6, <1>7, <1>8, <1>9,
         <1>10 DEF Next, MainCall

(* The mutex is taken only when free; a worker at "enter" still holds it,  *)
(* so neither counter has moved since its test, nor size: nobody is inside *)
(* to change it.                                                           *)
LEMMA LockStep ==
  ASSUME SyncInv, Next PROVE LockInv'
  <1> USE WorkersAssumption, NumJobsAssumption, SpuriousAssumption
      DEF SyncInv, TypeOK, LockInv, InsideInv, SizeInv, Holding,
          Inside, WriterInside, Goto
  <1>w. ASSUME NEW w \in Workers, Worker(w) \/ SpuriousRead(w)
        PROVE  LockInv'
    <2>1. CASE LeaveOnShutdown(w)
      BY <2>1 DEF LeaveOnShutdown
    <2>2. CASE LoopAgain(w)
      BY <2>2 DEF LoopAgain
    <2>3. CASE Lock(w)
      BY <2>3 DEF Lock
    <2>4. CASE FirstCheck(w)
      BY <2>4 DEF FirstCheck
    <2>5. CASE FindFree(w)
      BY <2>5 DEF FindFree, MustWaitToRead, QueueBusy
    <2>6. CASE EnterRead(w)
      BY <2>6 DEF EnterRead
    <2>7. CASE FindBusy(w)
      BY <2>7 DEF FindBusy
    <2>8. CASE CheckAndSignal(w)
      BY <2>8 DEF CheckAndSignal, SignalWrite
    <2>9. CASE Sleep(w)
      BY <2>9 DEF Sleep
    <2>10. CASE Pop(w)
      BY <2>10 DEF Pop
    <2>11. CASE PopSize(w)
      BY <2>11 DEF PopSize
    <2>12. CASE ExitRead(w)
      BY <2>12 DEF ExitRead, SignalRead, SignalWrite
    <2>13. CASE KeepJob(w)
      BY <2>13 DEF KeepJob
    <2>14. CASE Run(w)
      BY <2>14 DEF Run
    <2>15. CASE SpuriousRead(w)
      BY <2>15 DEF SpuriousRead
    <2> QED BY <1>w, <2>1, <2>2, <2>3, <2>4, <2>5, <2>6, <2>7, <2>8,
           <2>9, <2>10, <2>11, <2>12, <2>13, <2>14, <2>15
        DEF Worker, WorkerCall
  <1>1. CASE StartWrite
    BY <1>1 DEF StartWrite
  <1>2. CASE EnterWrite
    BY <1>2 DEF EnterWrite, QueueBusy
  <1>3. CASE WaitToWrite
    BY <1>3 DEF WaitToWrite
  <1>4. CASE Insert
    BY <1>4 DEF Insert
  <1>5. CASE InsertSize
    BY <1>5 DEF InsertSize
  <1>6. CASE ExitWrite
    BY <1>6 DEF ExitWrite, SignalRead
  <1>7. CASE Shutdown
    BY <1>7 DEF Shutdown
  <1>8. CASE Broadcast
    BY <1>8 DEF Broadcast
  <1>9. CASE Join
    BY <1>9 DEF Join
  <1>10. CASE SpuriousWrite
    BY <1>10 DEF SpuriousWrite
  <1> QED BY <1>w, <1>1, <1>2, <1>3, <1>4, <1>5, <1>6, <1>7, <1>8, <1>9,
         <1>10 DEF Next, MainCall

(* A reader counts itself in only where both counters were 0, the writer   *)
(* only where it tests them.                                               *)
LEMMA InsideStep ==
  ASSUME SyncInv, Next PROVE InsideInv'
  <1> USE WorkersAssumption, NumJobsAssumption, SpuriousAssumption
      DEF SyncInv, TypeOK, LockInv, InsideInv, Holding, Inside,
          WriterInside, Goto
  <1>w. ASSUME NEW w \in Workers, Worker(w) \/ SpuriousRead(w)
        PROVE  InsideInv'
    <2>1. CASE LeaveOnShutdown(w)
      BY <2>1 DEF LeaveOnShutdown
    <2>2. CASE LoopAgain(w)
      BY <2>2 DEF LoopAgain
    <2>3. CASE Lock(w)
      BY <2>3 DEF Lock
    <2>4. CASE FirstCheck(w)
      BY <2>4 DEF FirstCheck
    <2>5. CASE FindFree(w)
      BY <2>5 DEF FindFree, MustWaitToRead, QueueBusy
    <2>6. CASE EnterRead(w)
      BY <2>6 DEF EnterRead
    <2>7. CASE FindBusy(w)
      BY <2>7 DEF FindBusy
    <2>8. CASE CheckAndSignal(w)
      BY <2>8 DEF CheckAndSignal, SignalWrite
    <2>9. CASE Sleep(w)
      BY <2>9 DEF Sleep
    <2>10. CASE Pop(w)
      BY <2>10 DEF Pop
    <2>11. CASE PopSize(w)
      BY <2>11 DEF PopSize
    <2>12. CASE ExitRead(w)
      BY <2>12 DEF ExitRead, SignalRead, SignalWrite
    <2>13. CASE KeepJob(w)
      BY <2>13 DEF KeepJob
    <2>14. CASE Run(w)
      BY <2>14 DEF Run
    <2>15. CASE SpuriousRead(w)
      BY <2>15 DEF SpuriousRead
    <2> QED BY <1>w, <2>1, <2>2, <2>3, <2>4, <2>5, <2>6, <2>7, <2>8,
           <2>9, <2>10, <2>11, <2>12, <2>13, <2>14, <2>15
        DEF Worker, WorkerCall
  <1>1. CASE StartWrite
    BY <1>1 DEF StartWrite
  <1>2. CASE EnterWrite
    BY <1>2 DEF EnterWrite, QueueBusy
  <1>3. CASE WaitToWrite
    BY <1>3 DEF WaitToWrite
  <1>4. CASE Insert
    BY <1>4 DEF Insert
  <1>5. CASE InsertSize
    BY <1>5 DEF InsertSize
  <1>6. CASE ExitWrite
    BY <1>6 DEF ExitWrite, SignalRead
  <1>7. CASE Shutdown
    BY <1>7 DEF Shutdown
  <1>8. CASE Broadcast
    BY <1>8 DEF Broadcast
  <1>9. CASE Join
    BY <1>9 DEF Join
  <1>10. CASE SpuriousWrite
    BY <1>10 DEF SpuriousWrite
  <1> QED BY <1>w, <1>1, <1>2, <1>3, <1>4, <1>5, <1>6, <1>7, <1>8, <1>9,
         <1>10 DEF Next, MainCall

(* Relinking and counting are done by the one thread inside.               *)
LEMMA SizeStep ==
  ASSUME SyncInv, Next PROVE SizeInv'
  <1> USE WorkersAssumption, NumJobsAssumption, SpuriousAssumption
      DEF SyncInv, TypeOK, LockInv, InsideInv, SizeInv, Inside,
          WriterInside, Holding, Goto
  <1>w. ASSUME NEW w \in Workers, Worker(w) \/ SpuriousRead(w)
        PROVE  SizeInv'
    <2>1. CASE LeaveOnShutdown(w)
      BY <2>1 DEF LeaveOnShutdown
    <2>2. CASE LoopAgain(w)
      BY <2>2 DEF LoopAgain
    <2>3. CASE Lock(w)
      BY <2>3 DEF Lock
    <2>4. CASE FirstCheck(w)
      BY <2>4 DEF FirstCheck
    <2>5. CASE FindFree(w)
      BY <2>5 DEF FindFree, MustWaitToRead, QueueBusy
    <2>6. CASE EnterRead(w)
      BY <2>6 DEF EnterRead
    <2>7. CASE FindBusy(w)
      BY <2>7 DEF FindBusy
    <2>8. CASE CheckAndSignal(w)
      BY <2>8 DEF CheckAndSignal, SignalWrite
    <2>9. CASE Sleep(w)
      BY <2>9 DEF Sleep
    <2>10. CASE Pop(w)
      BY <2>10 DEF Pop
    <2>11. CASE PopSize(w)
      BY <2>11 DEF PopSize
    <2>12. CASE ExitRead(w)
      BY <2>12 DEF ExitRead, SignalRead, SignalWrite
    <2>13. CASE KeepJob(w)
      BY <2>13 DEF KeepJob
    <2>14. CASE Run(w)
      BY <2>14 DEF Run
    <2>15. CASE SpuriousRead(w)
      BY <2>15 DEF SpuriousRead
    <2> QED BY <1>w, <2>1, <2>2, <2>3, <2>4, <2>5, <2>6, <2>7, <2>8,
           <2>9, <2>10, <2>11, <2>12, <2>13, <2>14, <2>15
        DEF Worker, WorkerCall
  <1>1. CASE StartWrite
    BY <1>1 DEF StartWrite
  <1>2. CASE EnterWrite
    BY <1>2 DEF EnterWrite, QueueBusy
  <1>3. CASE WaitToWrite
    BY <1>3 DEF WaitToWrite
  <1>4. CASE Insert
    BY <1>4 DEF Insert
  <1>5. CASE InsertSize
    BY <1>5 DEF InsertSize
  <1>6. CASE ExitWrite
    BY <1>6 DEF ExitWrite, SignalRead
  <1>7. CASE Shutdown
    BY <1>7 DEF Shutdown
  <1>8. CASE Broadcast
    BY <1>8 DEF Broadcast
  <1>9. CASE Join
    BY <1>9 DEF Join
  <1>10. CASE SpuriousWrite
    BY <1>10 DEF SpuriousWrite
  <1> QED BY <1>w, <1>1, <1>2, <1>3, <1>4, <1>5, <1>6, <1>7, <1>8, <1>9,
         <1>10 DEF Next, MainCall

(* StartWrite tests the bound, and submitted grows in Insert only.         *)
LEMMA WriteStep ==
  ASSUME SyncInv, Next PROVE WriteInv'
  <1> USE DEF SyncInv, TypeOK, WriteInv
  <1>1. ASSUME NEW w \in Workers, Worker(w) \/ SpuriousRead(w)
        PROVE  WriteInv'
    BY <1>1 DEF Worker, WorkerCall, LeaveOnShutdown, LoopAgain, Lock,
        FirstCheck, FindFree, EnterRead, FindBusy, CheckAndSignal, SignalWrite,
        Sleep, Pop, PopSize, ExitRead, KeepJob, Run, SpuriousRead
  <1>2. CASE MainCall \/ StartWrite \/ Shutdown \/ SpuriousWrite
    BY <1>2 DEF MainCall, StartWrite, Shutdown, SpuriousWrite, EnterWrite,
        WaitToWrite, Insert, InsertSize, ExitWrite, Broadcast, Join
  <1> QED BY <1>1, <1>2 DEF Next

(* A pop that is not empty gives a job; Run and an exit put it down.       *)
LEMMA HandStep ==
  ASSUME SyncInv, Next PROVE HandInv'
  <1> USE WorkersAssumption, NumJobsAssumption, SpuriousAssumption
      DEF SyncInv, TypeOK, HandInv, WorkerLabels, Jobs, NoJob, Goto
  <1>w. ASSUME NEW w \in Workers, Worker(w) \/ SpuriousRead(w)
        PROVE  HandInv'
    <2>1. CASE LeaveOnShutdown(w)
      BY <2>1 DEF LeaveOnShutdown
    <2>2. CASE LoopAgain(w)
      BY <2>2 DEF LoopAgain
    <2>3. CASE Lock(w)
      BY <2>3 DEF Lock
    <2>4. CASE FirstCheck(w)
      BY <2>4 DEF FirstCheck
    <2>5. CASE FindFree(w)
      BY <2>5 DEF FindFree, MustWaitToRead, QueueBusy
    <2>6. CASE EnterRead(w)
      BY <2>6 DEF EnterRead
    <2>7. CASE FindBusy(w)
      BY <2>7 DEF FindBusy
    <2>8. CASE CheckAndSignal(w)
      BY <2>8 DEF CheckAndSignal, SignalWrite
    <2>9. CASE Sleep(w)
      BY <2>9 DEF Sleep
    <2>10. CASE Pop(w)
      <3>1. size > 0 /\ queue # <<>>
        BY <2>10 DEF Pop, SizeInv, InsideInv, Inside, WriterInside
      <3>2. Head(queue) \in Jobs
        BY <3>1
      <3> QED BY <2>10, <3>1, <3>2 DEF Pop
    <2>11. CASE PopSize(w)
      BY <2>11 DEF PopSize
    <2>12. CASE ExitRead(w)
      BY <2>12 DEF ExitRead, SignalRead, SignalWrite
    <2>13. CASE KeepJob(w)
      BY <2>13 DEF KeepJob
    <2>14. CASE Run(w)
      BY <2>14 DEF Run
    <2>15. CASE SpuriousRead(w)
      BY <2>15 DEF SpuriousRead
    <2> QED BY <1>w, <2>1, <2>2, <2>3, <2>4, <2>5, <2>6, <2>7, <2>8,
           <2>9, <2>10, <2>11, <2>12, <2>13, <2>14, <2>15
        DEF Worker, WorkerCall
  <1>1. CASE StartWrite
    BY <1>1 DEF StartWrite
  <1>2. CASE EnterWrite
    BY <1>2 DEF EnterWrite, QueueBusy
  <1>3. CASE WaitToWrite
    BY <1>3 DEF WaitToWrite
  <1>4. CASE Insert
    BY <1>4 DEF Insert
  <1>5. CASE InsertSize
    BY <1>5 DEF InsertSize
  <1>6. CASE ExitWrite
    BY <1>6 DEF ExitWrite, SignalRead
  <1>7. CASE Shutdown
    BY <1>7 DEF Shutdown
  <1>8. CASE Broadcast
    BY <1>8 DEF Broadcast
  <1>9. CASE Join
    BY <1>9 DEF Join
  <1>10. CASE SpuriousWrite
    BY <1>10 DEF SpuriousWrite
  <1> QED BY <1>w, <1>1, <1>2, <1>3, <1>4, <1>5, <1>6, <1>7, <1>8, <1>9,
         <1>10 DEF Next, MainCall

LEMMA SyncStep ==
  ASSUME SyncInv, [Next]_vars PROVE SyncInv'
  <1>1. CASE Next
    BY <1>1, TypeStep, LockStep, InsideStep, SizeStep, WriteStep, HandStep
    DEF SyncInv
  <1>2. CASE UNCHANGED vars
    BY <1>2 DEF vars, SyncInv, TypeOK, LockInv, InsideInv, SizeInv, WriteInv,
                HandInv, Inside, WriterInside, Holding
  <1> QED BY <1>1, <1>2

(* What the properties say of the synchronisation follows from SyncInv.    *)
LEMMA SyncImplies ==
  ASSUME SyncInv
  PROVE  TypeOK /\ OneReaderOrOneWriter /\ NeverPopsNull /\ SizeIsLength
  <1> USE DEF SyncInv, TypeOK, InsideInv, Inside, WriterInside, Readers
  <1>1. OneReaderOrOneWriter
    BY DEF OneReaderOrOneWriter
  <1>2. NeverPopsNull
    BY EmptySeq DEF NeverPopsNull, SizeInv, HandInv
  <1>3. SizeIsLength
    <2> SUFFICES ASSUME Readers = {}, ~WriterInside PROVE size = Len(queue)
      BY DEF SizeIsLength
    <2>1. \A w \in Workers : pc[w] # "popSize"
      OBVIOUS
    <2> QED BY <2>1 DEF SizeInv
  <1> QED BY <1>1, <1>2, <1>3

(* TypeOK holds throughout: counters stay natural, labels stay labels.     *)
THEOREM TypeCorrect == Spec => []TypeOK
  BY SyncInit, SyncStep, SyncImplies, PTL DEF Spec

(* enterRead, exitRead, enterWrite and exitWrite let at most one thread    *)
(* change the list at a time, whatever the number of workers.              *)
THEOREM MutualExclusion == Spec => []OneReaderOrOneWriter
  BY SyncInit, SyncStep, SyncImplies, PTL DEF Spec

(* popFromQueue never meets an empty list, so no worker calls a NULL job.  *)
THEOREM NoNullJob == Spec => []NeverPopsNull
  BY SyncInit, SyncStep, SyncImplies, PTL DEF Spec

(* size is the length of the list whenever nobody is changing it.          *)
THEOREM SizeExact == Spec => []SizeIsLength
  BY SyncInit, SyncStep, SyncImplies, PTL DEF Spec

-----------------------------------------------------------------------------
(* The jobs.                                                               *)

(* Jobs taken out of the list: all but the last Len(queue) written.        *)
Taken == submitted - Len(queue)

QueueInv == /\ Len(queue) <= submitted
            /\ \A i \in 1..Len(queue) : queue[i] = Taken + i

PlaceInv == /\ done \subseteq 1..Taken
            /\ \A w \in Workers : job[w] # NoJob =>
                 /\ job[w] \in 1..Taken
                 /\ job[w] \notin done
                 /\ \A v \in Workers : job[v] = job[w] => v = w
            /\ \A j \in 1..Taken : j \in done \/ \E w \in Workers : job[w] = j

ShutInv == /\ shutdown = 1 <=> main \in {"broadcast", "join", "stopped"}
           /\ shutdown = 1 => done = 1..submitted

JobInv == QueueInv /\ PlaceInv /\ ShutInv

LEMMA JobInit == Init => JobInv
  BY DEF Init, JobInv, QueueInv, PlaceInv, ShutInv, Taken, NoJob

(* Once shutdown is set every job is done, so a worker that leaves after   *)
(* exitRead would hold a job that is both done and in hand.                *)
LEMMA LeaveHasNoJob ==
  ASSUME SyncInv, JobInv, NEW w \in Workers, LeaveOnShutdown(w)
  PROVE  job' = job
  <1>1. job[w] = NoJob
    <2> SUFFICES ASSUME job[w] # NoJob PROVE FALSE
      OBVIOUS
    <2>1. job[w] \in 1..Taken /\ job[w] \notin done
      BY DEF JobInv, PlaceInv
    <2>2. done = 1..submitted
      BY DEF LeaveOnShutdown, JobInv, ShutInv
    <2> QED BY <2>1, <2>2 DEF Taken, SyncInv, TypeOK
  <1> QED BY <1>1 DEF LeaveOnShutdown, SyncInv, TypeOK

(* Between two steps of these three actions the jobs do not move.          *)
Moves == (\E w \in Workers : Pop(w) \/ Run(w)) \/ Insert

LEMMA OthersMoveNothing ==
  ASSUME SyncInv, JobInv, [Next]_vars, ~Moves
  PROVE  UNCHANGED <<queue, job, done, submitted>>
  <1>1. CASE UNCHANGED vars
    BY <1>1 DEF vars
  <1>2. ASSUME NEW w \in Workers, Worker(w) \/ SpuriousRead(w)
        PROVE  UNCHANGED <<queue, job, done, submitted>>
    <2>1. CASE LeaveOnShutdown(w)
      BY <2>1, LeaveHasNoJob DEF LeaveOnShutdown
    <2> QED BY <1>2, <2>1
      DEF Worker, WorkerCall, Moves, LoopAgain, Lock, FirstCheck, FindFree,
          EnterRead, FindBusy, CheckAndSignal, Sleep, PopSize, ExitRead,
          KeepJob, SpuriousRead
  <1>3. CASE MainCall \/ StartWrite \/ Shutdown \/ SpuriousWrite
    BY <1>3 DEF MainCall, Moves, StartWrite, Shutdown, SpuriousWrite,
        EnterWrite, WaitToWrite, InsertSize, ExitWrite, Broadcast, Join
  <1> QED BY <1>1, <1>2, <1>3 DEF Next

(* A pop takes the oldest job of a list that is not empty.                 *)
LEMMA PopTakesHead ==
  ASSUME SyncInv, NEW w \in Workers, Pop(w)
  PROVE  /\ queue # <<>>
         /\ job[w] = NoJob
         /\ job' = [job EXCEPT ![w] = Head(queue)]
         /\ queue' = Tail(queue)
         /\ UNCHANGED <<done, submitted, main, shutdown>>
  <1>1. size > 0 /\ size = Len(queue)
    BY DEF Pop, SyncInv, SizeInv, InsideInv, Inside, WriterInside, TypeOK
  <1>2. queue \in Seq(Jobs)
    BY DEF SyncInv, TypeOK
  <1>3. queue # <<>>
    BY <1>1, <1>2
  <1>4. size = 1 => Tail(queue) = <<>>
    <2>1. Tail(queue) \in Seq(Jobs) /\ Len(Tail(queue)) = Len(queue) - 1
      BY <1>2, <1>3, HeadTailProperties
    <2>2. size = 1 => Len(Tail(queue)) = 0
      BY <1>1, <2>1
    <2> QED BY <2>1, <2>2, EmptySeq
  <1>5. job[w] = NoJob
    BY DEF SyncInv, HandInv, Pop, TypeOK
  <1>6. size \in Nat
    BY DEF SyncInv, TypeOK
  <1> QED BY <1>1, <1>3, <1>4, <1>5, <1>6 DEF Pop

(* An insertion appends, though it overwrites firstNode when size is 0.    *)
LEMMA InsertAppends ==
  ASSUME SyncInv, Insert
  PROVE  /\ queue' = Append(queue, submitted + 1)
         /\ submitted' = submitted + 1
         /\ submitted < NumJobs
         /\ UNCHANGED <<done, job, shutdown>>
         /\ main' = "insertSize"
         /\ main = "insert"
  <1>1. size = Len(queue)
    BY DEF Insert, SyncInv, SizeInv, InsideInv, Inside, WriterInside, TypeOK
  <1>2. queue \in Seq(Jobs)
    BY DEF SyncInv, TypeOK
  <1>3. size = 0 => queue = <<>>
    BY <1>1, <1>2, EmptySeq
  <1>4. submitted + 1 \in Jobs
    BY NumJobsAssumption DEF Insert, SyncInv, WriteInv, TypeOK, Jobs
  <1>5. size = 0 => Append(queue, submitted + 1) = <<submitted + 1>>
    <2>1. <<submitted + 1>> \in Seq(Jobs)
      BY <1>4
    <2>2. size = 0 => queue \o <<submitted + 1>> = <<submitted + 1>>
      BY <1>3, <2>1, ConcatEmptySeq
    <2> QED BY <1>2, <1>4, <2>2, AppendIsConcat
  <1> QED BY <1>5 DEF Insert, SyncInv, WriteInv
LEMMA JobStep ==
  ASSUME SyncInv, JobInv, [Next]_vars PROVE QueueInv' /\ PlaceInv'
  <1>t. /\ queue \in Seq(Jobs) /\ submitted \in Nat /\ Len(queue) \in Nat
        /\ job \in [Workers -> Jobs \cup {NoJob}]
    BY NumJobsAssumption DEF SyncInv, TypeOK
  <1>1. CASE ~Moves
    BY <1>1, OthersMoveNothing DEF JobInv, QueueInv, PlaceInv, Taken
  <1>2. ASSUME NEW w \in Workers, Pop(w) PROVE QueueInv' /\ PlaceInv'
    <2>1. /\ queue # <<>> /\ job[w] = NoJob
          /\ job' = [job EXCEPT ![w] = Head(queue)]
          /\ queue' = Tail(queue) /\ UNCHANGED <<done, submitted>>
      BY <1>2, PopTakesHead
    <2>2. /\ Len(queue') = Len(queue) - 1 /\ Len(queue) > 0
          /\ \A i \in 1..Len(queue') : queue'[i] = queue[i + 1]
          /\ Head(queue) = queue[1]
      BY <1>t, <2>1, HeadTailProperties, EmptySeq
    <2>3. Taken' = Taken + 1 /\ Taken \in Nat /\ Head(queue) = Taken + 1
      BY <1>t, <2>1, <2>2 DEF Taken, JobInv, QueueInv
    <2>4. QueueInv'
      BY <1>t, <2>1, <2>2, <2>3 DEF QueueInv, JobInv, Taken
    <2>5. PlaceInv'
      BY <1>t, <2>1, <2>3 DEF PlaceInv, JobInv, NoJob
    <2> QED BY <2>4, <2>5
  <1>3. ASSUME NEW w \in Workers, Run(w) PROVE QueueInv' /\ PlaceInv'
    <2>1. /\ UNCHANGED <<queue, submitted>> /\ done' = done \cup {job[w]}
          /\ job' = [job EXCEPT ![w] = NoJob] /\ job[w] # NoJob
      BY <1>3 DEF Run, SyncInv, HandInv
    <2>2. Taken' = Taken /\ QueueInv'
      BY <2>1 DEF Taken, JobInv, QueueInv
    <2>3. PlaceInv'
      BY <1>t, <2>1, <2>2 DEF PlaceInv, JobInv
    <2> QED BY <2>2, <2>3
  <1>4. CASE Insert
    <2>1. /\ queue' = Append(queue, submitted + 1)
          /\ submitted' = submitted + 1 /\ UNCHANGED <<done, job>>
      BY <1>4, InsertAppends
    <2>2. /\ Len(queue') = Len(queue) + 1
          /\ \A i \in 1..Len(queue) : queue'[i] = queue[i]
          /\ queue'[Len(queue) + 1] = submitted + 1
      BY <1>t, <2>1
    <2>3. Taken' = Taken
      BY <1>t, <2>1, <2>2 DEF Taken
    <2>4. QueueInv'
      BY <1>t, <2>1, <2>2, <2>3 DEF QueueInv, JobInv, Taken
    <2>5. PlaceInv'
      BY <2>1, <2>3 DEF PlaceInv, JobInv
    <2> QED BY <2>4, <2>5
  <1> QED BY <1>1, <1>2, <1>3, <1>4 DEF Moves

LEMMA ShutStep ==
  ASSUME SyncInv, JobInv, [Next]_vars PROVE ShutInv'
  <1> USE DEF JobInv, ShutInv, SyncInv, TypeOK, MainLabels
  <1>1. CASE UNCHANGED vars
    BY <1>1 DEF vars
  <1>2. ASSUME NEW w \in Workers, Run(w) PROVE ShutInv'
    <2>1. job[w] \in 1..Taken /\ job[w] \notin done
      BY <1>2 DEF Run, HandInv, PlaceInv
    <2>2. shutdown = 0
      BY <2>1 DEF Taken
    <2> QED BY <1>2, <2>2 DEF Run
  <1>3. ASSUME NEW w \in Workers, WorkerCall(w) \/ SpuriousRead(w)
        PROVE  ShutInv'
    BY <1>3 DEF WorkerCall, LeaveOnShutdown, LoopAgain, Lock, FirstCheck,
        FindFree, EnterRead, FindBusy, CheckAndSignal, SignalWrite, Sleep,
        Pop, PopSize, ExitRead, KeepJob, SpuriousRead
  <1>4. CASE MainCall \/ StartWrite \/ Shutdown \/ SpuriousWrite
    BY <1>4 DEF MainCall, StartWrite, Shutdown, SpuriousWrite, EnterWrite,
        WaitToWrite, Insert, InsertSize, ExitWrite, Broadcast, Join
  <1> QED BY <1>1, <1>2, <1>3, <1>4 DEF Next, Worker

LEMMA JobsImply ==
  ASSUME SyncInv, JobInv PROVE EachJobInOnePlace /\ NothingLeftWhenJoined
  <1>t. /\ queue \in Seq(Jobs) /\ submitted \in Nat /\ Len(queue) \in Nat
        /\ Taken \in Nat
    BY NumJobsAssumption DEF SyncInv, TypeOK, JobInv, QueueInv, Taken
  <1>1. \A j \in 1..submitted : j \notin 1..Taken =>
          j - Taken \in 1..Len(queue) /\ queue[j - Taken] = j
    <2> TAKE j \in 1..submitted
    <2> HAVE j \notin 1..Taken
    <2>1. j - Taken \in 1..Len(queue)
      BY <1>t DEF JobInv, QueueInv, Taken
    <2>2. queue[j - Taken] = Taken + (j - Taken)
      BY <2>1 DEF JobInv, QueueInv
    <2> QED BY <1>t, <2>1, <2>2
  <1>2. EachJobInOnePlace
    BY <1>t, <1>1 DEF EachJobInOnePlace, JobInv, QueueInv, PlaceInv
  <1>3. NothingLeftWhenJoined
    <2> SUFFICES ASSUME main = "stopped"
                 PROVE  queue = <<>> /\ done = 1..submitted
      BY DEF NothingLeftWhenJoined
    <2>1. done = 1..submitted /\ done \subseteq 1..Taken
      BY DEF JobInv, ShutInv, PlaceInv
    <2>2. Len(queue) = 0
      BY <1>t, <2>1 DEF Taken, JobInv, QueueInv
    <2> QED BY <1>t, <2>1, <2>2, EmptySeq
  <1> QED BY <1>2, <1>3

(* No job is run twice, and none is lost between the list, the hands of    *)
(* the workers and completion, in particular by the exits on shutdown.     *)
THEOREM ExactlyOnce == Spec => [](EachJobInOnePlace /\ NothingLeftWhenJoined)
  <1>1. Init => SyncInv /\ JobInv
    BY SyncInit, JobInit
  <1>2. SyncInv /\ JobInv /\ [Next]_vars => (SyncInv /\ JobInv)'
    BY SyncStep, JobStep, ShutStep DEF JobInv
  <1> QED BY <1>1, <1>2, JobsImply, PTL DEF Spec

-----------------------------------------------------------------------------
(* Refinement: linking a job is Write, unlinking it Take, and the end of   *)
(* its function Finish; every other step leaves the pool alone.            *)
LEMMA PoolStep ==
  ASSUME SyncInv, JobInv, [Next]_vars
  PROVE  [Pool!PoolNext]_(Pool!poolVars)
  <1> USE DEF Pool!poolVars, Pool!PoolNext, Pool!NoJob, Pool!Jobs, NoJob
  <1>1. CASE ~Moves
    BY <1>1, OthersMoveNothing
  <1>2. ASSUME NEW w \in Workers, Pop(w) PROVE Pool!Take(w)
    BY <1>2, PopTakesHead DEF Pool!Take
  <1>3. ASSUME NEW w \in Workers, Run(w) PROVE Pool!Finish(w)
    BY <1>3 DEF Run, Pool!Finish, SyncInv, HandInv
  <1>4. CASE Insert
    <2>1. /\ queue' = Append(queue, submitted + 1) /\ submitted < NumJobs
          /\ UNCHANGED <<done, job>>
      BY <1>4, InsertAppends
    <2>2. submitted \in Nat /\ Len(queue) \in Nat
      BY NumJobsAssumption DEF SyncInv, TypeOK
    <2>3. submitted + 1 \in Jobs
      BY <2>1, <2>2, NumJobsAssumption DEF Jobs
    <2>4. submitted + 1 \notin done
      BY <2>2 DEF JobInv, PlaceInv, Taken
    <2>5. \A w \in Workers : job[w] # submitted + 1
      BY <2>2 DEF JobInv, PlaceInv, Taken
    <2>6. \A i \in 1..Len(queue) : queue[i] # submitted + 1
      BY <2>2 DEF JobInv, QueueInv, Taken
    <2>7. Pool!Write(submitted + 1)
      BY <2>1, <2>4, <2>5, <2>6 DEF Pool!Write
    <2> QED BY <2>3, <2>7 DEF Jobs
  <1> QED BY <1>1, <1>2, <1>3, <1>4 DEF Moves

(* The threads, condition variables and unprotected list operations of     *)
(* jobScheduler.c implement a first-in first-out pool that runs each job   *)
(* once.                                                                   *)
THEOREM Refinement == Spec => ImplementsPool
  <1>1. Init => Pool!PoolInit
    BY DEF Init, Pool!PoolInit, Pool!NoJob, NoJob
  <1>2. Init => SyncInv /\ JobInv
    BY SyncInit, JobInit
  <1>3. SyncInv /\ JobInv /\ [Next]_vars => (SyncInv /\ JobInv)'
    BY SyncStep, JobStep, ShutStep DEF JobInv
  <1> QED BY <1>1, <1>2, <1>3, PoolStep, PTL
      DEF Spec, ImplementsPool, Pool!PoolSpec
=============================================================================

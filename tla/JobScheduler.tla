---------------------------- MODULE JobScheduler ----------------------------
(***************************************************************************)
(* src/jobScheduler.c: one FIFO queue of jobs, a pool of threads that read *)
(* it and the main thread, which alone writes it.  queueMutex protects the *)
(* counters reading and writing only: the queue itself is changed outside  *)
(* the mutex, between enterRead and exitRead or enterWrite and exitWrite.  *)
(* shutdown is written and broadcast without the mutex.                    *)
(*                                                                         *)
(* A label of pc or main names the statement the thread is about to run.   *)
(* A critical section that touches nothing but the counters is one step,   *)
(* taken while the mutex is free; enterRead, which reads shutdown and size *)
(* inside it, holds the mutex over several.                                *)
(***************************************************************************)
EXTENDS Naturals, Sequences

CONSTANTS Workers,     \* the NUMB_OF_THREADS threads of the pool
          Nobody,      \* the owner of a free mutex
          NumJobs,     \* bound: jobs the main thread writes in all
          MaxSpurious  \* bound: spurious wakeups of pthread_cond_wait

ASSUME WorkersAssumption  == Nobody \notin Workers
ASSUME NumJobsAssumption  == NumJobs \in Nat
ASSUME SpuriousAssumption == MaxSpurious \in Nat

VARIABLES owner,      \* owner of queueMutex
          pc,         \* pc[w]: next statement of worker w
          main,       \* next statement of the main thread
          writing,    \* threads between enterWrite and exitWrite
          reading,    \* threads between enterRead and exitRead
          shutdown,   \* the flag jobExecutor loops on
          queue,      \* the jobs of the list firstNode ... lastNode
          size,       \* jobQueue->size
          job,        \* job[w]: the job in worker w's hand, NoJob for NULL
          submitted,  \* jobs linked so far; jobs are numbered as written
          done,       \* jobs that ran to their end
          spurious    \* spurious wakeups so far

vars == <<owner, pc, main, writing, reading, shutdown, queue, size, job,
          submitted, done, spurious>>

Jobs  == 1..NumJobs
NoJob == 0

WorkerLabels == {"loop", "lock", "first", "test", "check", "sleep", "waiting",
                 "relock", "enter", "pop", "popSize", "exitRead", "exitCheck",
                 "run", "exited"}
MainLabels == {"idle", "enterWrite", "waitWrite", "insert", "insertSize",
               "exitWrite", "broadcast", "join", "stopped"}

(* size and the two counters never go below zero, whatever order readers   *)
(* and the writer count in, and every label is one of the code's.          *)
TypeOK == /\ owner \in Workers \cup {Nobody}
          /\ pc \in [Workers -> WorkerLabels]
          /\ main \in MainLabels
          /\ writing \in Nat
          /\ reading \in Nat
          /\ shutdown \in {0, 1}
          /\ queue \in Seq(Jobs)
          /\ size \in Nat
          /\ job \in [Workers -> Jobs \cup {NoJob}]
          /\ submitted \in 0..NumJobs
          /\ done \subseteq Jobs
          /\ spurious \in 0..MaxSpurious

Init == /\ owner = Nobody
        /\ pc = [w \in Workers |-> "loop"]
        /\ main = "idle"
        /\ writing = 0
        /\ reading = 0
        /\ shutdown = 0
        /\ queue = <<>>
        /\ size = 0
        /\ job = [w \in Workers |-> NoJob]
        /\ submitted = 0
        /\ done = {}
        /\ spurious = 0

-----------------------------------------------------------------------------
(* Condition variables.  The threads blocked on cond_read are those at     *)
(* "waiting"; only the main thread ever blocks on cond_write.              *)

Goto(w, label) == pc' = [pc EXCEPT ![w] = label]

(* Every outcome of pthread_cond_signal(&cond_read) in the state p of pc.  *)
SignalRead(p) ==
  LET blocked == {v \in Workers : p[v] = "waiting"}
  IN  IF blocked = {} THEN {p} ELSE {[p EXCEPT ![v] = "relock"] : v \in blocked}

(* pthread_cond_signal(&cond_write): enterWrite tests its condition again. *)
SignalNobody == main
SignalWrite == IF main = "waitWrite" THEN "enterWrite" ELSE main

(* What a reader and the writer both wait for.                             *)
QueueBusyToTheWriterOnly == writing > 0
QueueBusy == writing > 0 \/ reading > 0

-----------------------------------------------------------------------------
(* The workers: jobExecutor, readFromQueue, enterRead, popFromQueue and    *)
(* exitRead.                                                               *)

(* The four places where a worker tests shutdown and ends its thread: the  *)
(* loop, twice inside enterRead, and after exitRead with a job in hand,    *)
(* which is lost.                                                          *)
LeaveOnShutdown(w) == /\ pc[w] \in {"loop", "first", "check", "exitCheck"}
                      /\ shutdown = 1
                      /\ Goto(w, "exited")
                      /\ owner' = IF owner = w THEN Nobody ELSE owner
                      /\ job' = [job EXCEPT ![w] = NoJob]
                      /\ UNCHANGED <<main, writing, reading, shutdown, queue,
                                     size, submitted, done, spurious>>

LoopAgain(w) == /\ pc[w] = "loop"
                /\ shutdown = 0
                /\ Goto(w, "lock")
                /\ UNCHANGED <<owner, main, writing, reading, shutdown, queue,
                               size, job, submitted, done, spurious>>

(* The mutex is taken on entry, and again when pthread_cond_wait returns.  *)
Lock(w) == /\ pc[w] \in {"lock", "relock"}
           /\ owner = Nobody
           /\ owner' = w
           /\ Goto(w, IF pc[w] = "lock" THEN "first" ELSE "test")
           /\ UNCHANGED <<main, writing, reading, shutdown, queue, size, job,
                          submitted, done, spurious>>

FirstCheck(w) == /\ pc[w] = "first"
                 /\ shutdown = 0
                 /\ Goto(w, "test")
                 /\ UNCHANGED <<owner, main, writing, reading, shutdown, queue,
                                size, job, submitted, done, spurious>>

MustWaitEvenIfEmpty == QueueBusy
MustWaitToRead == QueueBusy \/ size = 0

FindFree(w) == /\ pc[w] = "test"
               /\ ~MustWaitToRead
               /\ Goto(w, "enter")
               /\ UNCHANGED <<owner, main, writing, reading, shutdown, queue,
                              size, job, submitted, done, spurious>>

EnterRead(w) == /\ pc[w] = "enter"
                /\ reading' = reading + 1
                /\ owner' = Nobody
                /\ Goto(w, "pop")
                /\ UNCHANGED <<main, writing, shutdown, queue, size, job,
                               submitted, done, spurious>>

FindBusy(w) == /\ pc[w] = "test"
               /\ MustWaitToRead
               /\ Goto(w, "check")
               /\ UNCHANGED <<owner, main, writing, reading, shutdown, queue,
                              size, job, submitted, done, spurious>>

(* The loop's own test of shutdown, then the wakeup of the writer when the *)
(* queue is empty.  size may be read here while it is being changed.       *)
CheckAndSignal(w) == /\ pc[w] = "check"
                     /\ shutdown = 0
                     /\ Goto(w, "sleep")
                     /\ main' = IF size = 0 THEN SignalWrite ELSE main
                     /\ UNCHANGED <<owner, writing, reading, shutdown, queue,
                                    size, job, submitted, done, spurious>>

(* pthread_cond_wait releases the mutex and blocks in one step.            *)
Sleep(w) == /\ pc[w] = "sleep"
            /\ owner' = Nobody
            /\ Goto(w, "waiting")
            /\ UNCHANGED <<main, writing, reading, shutdown, queue, size, job,
                           submitted, done, spurious>>

(* popFromQueue relinks the list, then counts.                             *)
PopTheLast(w) == /\ pc[w] = "pop"
                 /\ job' = [job EXCEPT ![w] = IF size = 0 THEN NoJob
                                              ELSE queue[Len(queue)]]
                 /\ queue' = IF size <= 1 THEN <<>>
                             ELSE SubSeq(queue, 1, Len(queue) - 1)
                 /\ Goto(w, IF size = 0 THEN "exitRead" ELSE "popSize")
                 /\ UNCHANGED <<owner, main, writing, reading, shutdown, size,
                                submitted, done, spurious>>
Pop(w) == /\ pc[w] = "pop"
          /\ job' = [job EXCEPT ![w] = IF size = 0 THEN NoJob ELSE Head(queue)]
          /\ queue' = IF size <= 1 THEN <<>> ELSE Tail(queue)
          /\ Goto(w, IF size = 0 THEN "exitRead" ELSE "popSize")
          /\ UNCHANGED <<owner, main, writing, reading, shutdown, size,
                         submitted, done, spurious>>

PopWithoutSize(w) == /\ pc[w] = "popSize"
                     /\ Goto(w, "exitRead")
                     /\ UNCHANGED <<owner, main, writing, reading, shutdown,
                               queue, size, job, submitted, done, spurious>>
PopSize(w) == /\ pc[w] = "popSize"
              /\ size' = size - 1
              /\ Goto(w, "exitRead")
              /\ UNCHANGED <<owner, main, writing, reading, shutdown, queue,
                             job, submitted, done, spurious>>

(* exitRead wakes one reader and the writer.                               *)
ExitReadOfTheWriter(w) ==
               /\ pc[w] = "exitRead"
               /\ owner = Nobody
               /\ writing' = writing - 1
               /\ pc' \in SignalRead([pc EXCEPT ![w] = "exitCheck"])
               /\ main' = SignalWrite
               /\ UNCHANGED <<owner, reading, shutdown, queue, size, job,
                              submitted, done, spurious>>
ExitReadWakingNoReader(w) ==
               /\ pc[w] = "exitRead"
               /\ owner = Nobody
               /\ reading' = reading - 1
               /\ Goto(w, "exitCheck")
               /\ main' = SignalWrite
               /\ UNCHANGED <<owner, writing, shutdown, queue, size, job,
                              submitted, done, spurious>>
ExitRead(w) == /\ pc[w] = "exitRead"
               /\ owner = Nobody
               /\ reading' = reading - 1
               /\ pc' \in SignalRead([pc EXCEPT ![w] = "exitCheck"])
               /\ main' = SignalWrite
               /\ UNCHANGED <<owner, writing, shutdown, queue, size, job,
                              submitted, done, spurious>>

KeepJob(w) == /\ pc[w] = "exitCheck"
              /\ shutdown = 0
              /\ Goto(w, "run")
              /\ UNCHANGED <<owner, main, writing, reading, shutdown, queue,
                             size, job, submitted, done, spurious>>

(* The job's function, then free(job).                                     *)
Run(w) == /\ pc[w] = "run"
          /\ done' = done \cup {job[w]}
          /\ job' = [job EXCEPT ![w] = NoJob]
          /\ Goto(w, "loop")
          /\ UNCHANGED <<owner, main, writing, reading, shutdown, queue, size,
                         submitted, spurious>>

(* What a worker does between two jobs, and all it does.                   *)
WorkerCall(w) == \/ LeaveOnShutdown(w) \/ LoopAgain(w) \/ Lock(w)
                 \/ FirstCheck(w) \/ FindFree(w) \/ EnterRead(w)
                 \/ FindBusy(w) \/ CheckAndSignal(w) \/ Sleep(w)
                 \/ Pop(w) \/ PopSize(w) \/ ExitRead(w) \/ KeepJob(w)

Worker(w) == WorkerCall(w) \/ Run(w)

-----------------------------------------------------------------------------
(* The main thread: writeOnQueue and shutdownAndFreeScheduler.             *)

StartWrite == /\ main = "idle"
              /\ submitted < NumJobs
              /\ main' = "enterWrite"
              /\ UNCHANGED <<owner, pc, writing, reading, shutdown, queue,
                             size, job, submitted, done, spurious>>

EnterWrite == /\ main = "enterWrite"
              /\ owner = Nobody
              /\ ~QueueBusy
              /\ writing' = writing + 1
              /\ main' = "insert"
              /\ UNCHANGED <<owner, pc, reading, shutdown, queue, size, job,
                             submitted, done, spurious>>

WaitToWrite == /\ main = "enterWrite"
               /\ owner = Nobody
               /\ QueueBusy
               /\ main' = "waitWrite"
               /\ UNCHANGED <<owner, pc, writing, reading, shutdown, queue,
                              size, job, submitted, done, spurious>>

(* insertInQueue links the node, then counts.                              *)
Insert == /\ main = "insert"
          /\ queue' = IF size = 0 THEN <<submitted + 1>>
                      ELSE Append(queue, submitted + 1)
          /\ submitted' = submitted + 1
          /\ main' = "insertSize"
          /\ UNCHANGED <<owner, pc, writing, reading, shutdown, size, job,
                         done, spurious>>

InsertSize == /\ main = "insertSize"
              /\ size' = size + 1
              /\ main' = "exitWrite"
              /\ UNCHANGED <<owner, pc, writing, reading, shutdown, queue, job,
                             submitted, done, spurious>>

ExitWrite == /\ main = "exitWrite"
             /\ owner = Nobody
             /\ writing' = writing - 1
             /\ pc' \in SignalRead(pc)
             /\ main' = "idle"
             /\ UNCHANGED <<owner, reading, shutdown, queue, size, job,
                            submitted, done, spurious>>

(* Each phase waits for its own jobs, so the program shuts the pool down   *)
(* only when every job it wrote has run.                                   *)
ShutdownAtOnce == /\ main = "idle"
                  /\ shutdown' = 1
                  /\ main' = "broadcast"
                  /\ UNCHANGED <<owner, pc, writing, reading, queue, size, job,
                                 submitted, done, spurious>>
ShutdownFlagForgotten == /\ main = "idle"
                         /\ done = 1..submitted
                         /\ main' = "broadcast"
                         /\ UNCHANGED <<owner, pc, writing, reading, shutdown,
                                   queue, size, job, submitted, done, spurious>>
Shutdown == /\ main = "idle"
            /\ done = 1..submitted
            /\ shutdown' = 1
            /\ main' = "broadcast"
            /\ UNCHANGED <<owner, pc, writing, reading, queue, size, job,
                           submitted, done, spurious>>

Broadcast == /\ main = "broadcast"
             /\ pc' = [w \in Workers |->
                         IF pc[w] = "waiting" THEN "relock" ELSE pc[w]]
             /\ main' = "join"
             /\ UNCHANGED <<owner, writing, reading, shutdown, queue, size,
                            job, submitted, done, spurious>>

(* pthread_join on every worker, then deleteQueue.                         *)
Join == /\ main = "join"
        /\ \A w \in Workers : pc[w] = "exited"
        /\ main' = "stopped"
        /\ UNCHANGED <<owner, pc, writing, reading, shutdown, queue, size, job,
                       submitted, done, spurious>>

(* pthread_cond_wait may return unsignalled.                               *)
SpuriousRead(w) == /\ pc[w] = "waiting"
                   /\ spurious < MaxSpurious
                   /\ Goto(w, "relock")
                   /\ spurious' = spurious + 1
                   /\ UNCHANGED <<owner, main, writing, reading, shutdown,
                                  queue, size, job, submitted, done>>

SpuriousWrite == /\ main = "waitWrite"
                 /\ spurious < MaxSpurious
                 /\ main' = "enterWrite"
                 /\ spurious' = spurious + 1
                 /\ UNCHANGED <<owner, pc, writing, reading, shutdown, queue,
                                size, job, submitted, done>>

(* Steps the main thread takes once it has begun a call.                   *)
MainCall == \/ EnterWrite \/ WaitToWrite \/ Insert \/ InsertSize \/ ExitWrite
            \/ Broadcast \/ Join

Next == \/ \E w \in Workers : Worker(w) \/ SpuriousRead(w)
        \/ MainCall \/ StartWrite \/ Shutdown \/ SpuriousWrite

Spec == Init /\ [][Next]_vars

(* Every thread that can move is eventually scheduled, and a call that was *)
(* begun goes on.  Nothing obliges a job to return, the main thread to     *)
(* write another job or to shut down, or a wait to wake up unsignalled.    *)
Fairness == WF_vars(MainCall) /\ \A w \in Workers : WF_vars(WorkerCall(w))

FairSpec == Spec /\ Fairness

-----------------------------------------------------------------------------
(* Properties                                                              *)

Readers == {w \in Workers : pc[w] \in {"pop", "popSize", "exitRead"}}
WriterInside == main \in {"insert", "insertSize", "exitWrite"}

(* "We will only allow one reader or one writer" (jobScheduler.h:36): the  *)
(* list is changed outside the mutex, so two threads between enter and     *)
(* exit would corrupt it.                                                  *)
OneReaderOrOneWriter == /\ \A v, w \in Readers : v = w
                        /\ WriterInside => Readers = {}

(* popFromQueue is never called on an empty list: that branch unlocks a    *)
(* mutex the thread does not hold and returns NULL, which jobExecutor      *)
(* would call.  A job in hand is a real one until it is freed.             *)
NeverPopsNull == /\ \A w \in Workers : pc[w] = "pop" => queue # <<>>
                 /\ \A w \in Workers :
                      pc[w] \in {"exitRead", "exitCheck", "run"} => job[w] # NoJob

(* size, which every waiting reader decides on, is the length of the list  *)
(* whenever nobody is inside.                                              *)
SizeIsLength == Readers = {} /\ ~WriterInside => size = Len(queue)

(* A job is in the list once, in one hand or done, and never in two of     *)
(* these places: no job is run twice and none is lost, shutdown included.  *)
EachJobInOnePlace ==
  /\ \A j \in 1..submitted :
       \/ j \in done
       \/ \E i \in 1..Len(queue) : queue[i] = j
       \/ \E w \in Workers : job[w] = j
  /\ \A w \in Workers : job[w] # NoJob =>
       /\ job[w] \notin done
       /\ \A i \in 1..Len(queue) : queue[i] # job[w]
       /\ \A v \in Workers : job[v] = job[w] => v = w
  /\ \A i \in 1..Len(queue) : queue[i] \notin done

(* deleteQueue never prints "Unexpected: Queue is not empty when deleting" *)
(* (jobScheduler.c:224): when the threads are joined every job has run.    *)
NothingLeftWhenJoined == main = "stopped" => queue = <<>> /\ done = 1..submitted

(* The scheduler is a first-in first-out pool: taking a job is unlinking   *)
(* it, writing one is linking it.                                          *)
Pool == INSTANCE JobPool WITH pending <- queue, running <- job, finished <- done

ImplementsPool == Pool!PoolSpec

(* No wakeup is lost between the writer and the readers: while there are   *)
(* as many workers as jobs, each job is begun although no other ever       *)
(* returns, however its signal and the readers' own signals fall; no       *)
(* worker sleeps on while the list holds a job.                            *)
EveryJobStarts ==
  \A j \in Jobs :
    (submitted >= j) ~> \/ j \in done
                       \/ \E w \in Workers : pc[w] = "run" /\ job[w] = j

(* The writer is not blocked for ever by the readers it waits for.         *)
WriterGetsIn == (main = "enterWrite") ~> (main = "insert")

(* Shutdown ends, unless some worker has read shutdown == 0 in enterRead   *)
(* and has not yet blocked on cond_read when the flag is set.              *)
ShutdownEndsOutsideTheWindow ==
  (main = "broadcast" /\ \A w \in Workers : pc[w] # "sleep") ~> (main = "stopped")

(* "Broadcast shutdown", "Join threads" (jobScheduler.c:54, 58): the       *)
(* broadcast reaches every thread, so joining them returns.                *)
ShutdownEnds == (main = "broadcast") ~> (main = "stopped")
=============================================================================

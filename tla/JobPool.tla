------------------------------ MODULE JobPool ------------------------------
(***************************************************************************)
(* What the job scheduler promises to the phases that use it: a pool of    *)
(* workers that takes jobs in the order they were written, one worker per  *)
(* job, each job run once and none lost.  Nothing here speaks of mutexes,  *)
(* condition variables or shutdown; JobScheduler implements this module.   *)
(***************************************************************************)
EXTENDS Naturals, Sequences

CONSTANTS Workers,   \* the threads of the pool
          NumJobs    \* how many jobs are written in all (a bound)

VARIABLES pending,   \* jobs written and not yet taken, oldest first
          running,   \* running[w]: the job worker w has in hand, or NoJob
          finished   \* jobs that have run to their end

poolVars == <<pending, running, finished>>

Jobs  == 1..NumJobs
NoJob == 0

InHand == {running[w] : w \in Workers} \ {NoJob}

PoolInit == /\ pending = <<>>
            /\ running = [w \in Workers |-> NoJob]
            /\ finished = {}

(* A job is written once: it is neither waiting, in hand nor finished.     *)
Write(j) == /\ j \notin finished
            /\ \A w \in Workers : running[w] # j
            /\ \A i \in 1..Len(pending) : pending[i] # j
            /\ pending' = Append(pending, j)
            /\ UNCHANGED <<running, finished>>

(* A free worker takes the oldest job.                                     *)
Take(w) == /\ pending # <<>>
           /\ running[w] = NoJob
           /\ running' = [running EXCEPT ![w] = Head(pending)]
           /\ pending' = Tail(pending)
           /\ UNCHANGED finished

Finish(w) == /\ running[w] # NoJob
             /\ finished' = finished \cup {running[w]}
             /\ running' = [running EXCEPT ![w] = NoJob]
             /\ UNCHANGED pending

PoolNext == \/ \E j \in Jobs : Write(j)
            \/ \E w \in Workers : Take(w) \/ Finish(w)

PoolSpec == PoolInit /\ [][PoolNext]_poolVars
=============================================================================

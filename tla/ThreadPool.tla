----------------------------- MODULE ThreadPool -----------------------------
(***************************************************************************)
(* The thread pool of lc_thread.c (lc_threadpool_new, next_job,            *)
(* pool_thread, lc_threadpool_run, lc_threadpool_set_threads).             *)
(*                                                                         *)
(* Everything the code does between lc_spin_lock(tp->lock) and             *)
(* lc_spin_unlock(tp->lock) is one action.  What it does outside the lock  *)
(* is an action of its own: the semaphore wait, its timeout, the execution *)
(* of a job, and the atomic_int_dec of tp->threads when a thread ends.     *)
(***************************************************************************)
EXTENDS Integers, Sequences, FiniteSets

CONSTANTS
  Worker,        \* identities of OS threads, reused after a thread has ended
  Job,           \* what callers submit: the (fn, data) pairs
  NoJob,         \* a thread with no job in hand
  MinThreads,    \* lc_threadpool_new(min, max)
  MaxThreads,
  Limits,        \* the <<min, max>> pairs lc_threadpool_set_threads is given
  SpawnMayFail,  \* whether pthread_create may fail
  MaxQueue       \* bound of the model: callers stop at this queue length

ASSUME PoolAssumption ==
  /\ IsFiniteSet(Worker)
  /\ NoJob \notin Job
  /\ MinThreads \in Int /\ MaxThreads \in Int
  /\ Limits \subseteq Int \X Int
  /\ SpawnMayFail \in BOOLEAN
  /\ MaxQueue \in Nat

VARIABLES
  jobs,     \* tp->jobs
  sem,      \* the value of tp->sem
  min,      \* tp->min_threads
  max,      \* tp->max_threads
  threads,  \* tp->threads
  worker,   \* worker[w]: where thread w is in pool_thread and next_job
  hand      \* hand[w]: the local variable job of pool_thread

vars == <<jobs, sem, min, max, threads, worker, hand>>

Phase == {"none",      \* no such thread
          "waiting",   \* in lc_sem_timedwait
          "timedout",  \* the wait failed, about to compare threads with min
          "woken",     \* the wait succeeded, about to pop
          "running",   \* in job->fn
          "leaving"}   \* next_job returned NULL, about to decrement threads

TypeOK ==
  /\ jobs \in Seq(Job)
  /\ sem \in Nat
  /\ min \in Int /\ max \in Int /\ threads \in Int
  /\ worker \in [Worker -> Phase]
  /\ hand \in [Worker -> Job \cup {NoJob}]

-----------------------------------------------------------------------------
Init ==
  /\ jobs = <<>>
  /\ sem = 0
  /\ min = MinThreads
  /\ max = MaxThreads
  /\ threads = 0
  /\ worker = [w \in Worker |-> "none"]
  /\ hand = [w \in Worker |-> NoJob]

\* The test of lc_threadpool_run after the push, with n jobs queued.
NeedsThread(n) == threads < min \/ (n > 1 /\ threads < max)

\* pthread_create(pool_thread) and the increment that follows its success.
Spawn ==
  \/ \E w \in Worker :
       /\ worker[w] = "none"
       /\ worker' = [worker EXCEPT ![w] = "waiting"]
       /\ threads' = threads + 1
  \/ /\ SpawnMayFail \/ \A w \in Worker : worker[w] # "none"
     /\ UNCHANGED <<worker, threads>>

\* Mutants of Run: the post is forgotten when a thread is created; the queue
\* is used as a stack; a job is handed over without looking for a thread.
RunNoPost(j) ==
  /\ Len(jobs) < MaxQueue
  /\ jobs' = Append(jobs, j)
  /\ IF NeedsThread(Len(jobs) + 1)
       THEN Spawn /\ UNCHANGED sem
       ELSE sem' = sem + 1 /\ UNCHANGED <<worker, threads>>
  /\ UNCHANGED <<min, max, hand>>

RunAsStack(j) ==
  /\ Len(jobs) < MaxQueue
  /\ jobs' = <<j>> \o jobs
  /\ sem' = sem + 1
  /\ IF NeedsThread(Len(jobs) + 1) THEN Spawn ELSE UNCHANGED <<worker, threads>>
  /\ UNCHANGED <<min, max, hand>>

\* lc_threadpool_run, by any thread.
Run(j) ==
  /\ Len(jobs) < MaxQueue
  /\ jobs' = Append(jobs, j)
  /\ sem' = sem + 1
  /\ IF NeedsThread(Len(jobs) + 1) THEN Spawn ELSE UNCHANGED <<worker, threads>>
  /\ UNCHANGED <<min, max, hand>>

\* lc_threadpool_set_threads, reached from Lua with any two integers.
SetThreads(lo, hi) ==
  /\ min' = lo
  /\ max' = hi
  /\ UNCHANGED <<jobs, sem, threads, worker, hand>>

-----------------------------------------------------------------------------
\* lc_sem_timedwait returns SUCCESS.
Wake(w) ==
  /\ worker[w] = "waiting"
  /\ sem > 0
  /\ sem' = sem - 1
  /\ worker' = [worker EXCEPT ![w] = "woken"]
  /\ UNCHANGED <<jobs, min, max, threads, hand>>

\* lc_sem_timedwait fails: the time is up, or a signal came, at an instant at
\* which the semaphore is zero.
Timeout(w) ==
  /\ worker[w] = "waiting"
  /\ sem = 0
  /\ worker' = [worker EXCEPT ![w] = "timedout"]
  /\ UNCHANGED <<jobs, sem, min, max, threads, hand>>

\* A mutant of CheckIdle: the thread leaves at the minimum too.
CheckIdleAtMin(w) ==
  /\ worker[w] = "timedout"
  /\ worker' = [worker EXCEPT ![w] = IF threads >= min THEN "leaving" ELSE "waiting"]
  /\ UNCHANGED <<jobs, sem, min, max, threads, hand>>

\* The body of the loop in next_job.
CheckIdle(w) ==
  /\ worker[w] = "timedout"
  /\ worker' = [worker EXCEPT ![w] = IF threads > min THEN "leaving" ELSE "waiting"]
  /\ UNCHANGED <<jobs, sem, min, max, threads, hand>>

\* The pop of next_job, and what pool_thread makes of its result.
Pop(w) ==
  /\ worker[w] = "woken"
  /\ IF jobs = <<>>
       THEN /\ worker' = [worker EXCEPT ![w] = "leaving"]
            /\ UNCHANGED <<jobs, hand>>
       ELSE /\ worker' = [worker EXCEPT ![w] = "running"]
            /\ hand' = [hand EXCEPT ![w] = Head(jobs)]
            /\ jobs' = Tail(jobs)
  /\ UNCHANGED <<sem, min, max, threads>>

\* job->fn(job->data) returns and the job is freed.
FinishJob(w) ==
  /\ worker[w] = "running"
  /\ worker' = [worker EXCEPT ![w] = "waiting"]
  /\ hand' = [hand EXCEPT ![w] = NoJob]
  /\ UNCHANGED <<jobs, sem, min, max, threads>>

\* A mutant of Leave: the count is not given back.
LeaveUncounted(w) ==
  /\ worker[w] = "leaving"
  /\ worker' = [worker EXCEPT ![w] = "none"]
  /\ UNCHANGED <<jobs, sem, min, max, threads, hand>>

\* The end of pool_thread.
Leave(w) ==
  /\ worker[w] = "leaving"
  /\ worker' = [worker EXCEPT ![w] = "none"]
  /\ threads' = threads - 1
  /\ UNCHANGED <<jobs, sem, min, max, hand>>

Step(w) == Wake(w) \/ CheckIdle(w) \/ Pop(w) \/ FinishJob(w) \/ Leave(w)

Next ==
  \/ \E j \in Job : Run(j)
  \/ \E l \in Limits : SetThreads(l[1], l[2])
  \/ \E w \in Worker : Step(w) \/ Timeout(w)

Spec == Init /\ [][Next]_vars

\* Threads are scheduled, and the functions submitted to the pool return.
\* Nothing forces a caller to submit, or a wait to time out.
FairSpec == Spec /\ \A w \in Worker : WF_vars(Step(w))

-----------------------------------------------------------------------------
Woken == {w \in Worker : worker[w] = "woken"}
Live  == {w \in Worker : worker[w] # "none"}

\* Every job in the queue is matched by a semaphore token or by a thread that
\* has consumed one and not popped yet.  The push and the post of
\* lc_threadpool_run, and the wait and the pop of next_job, are made for it.
TokensMatchJobs == sem + Cardinality(Woken) = Len(jobs)

\* A thread that was woken finds a job: next_job never returns NULL to a
\* thread that has not timed out, so no thread ends below the minimum that way.
WokenFindsJob == \A w \in Worker : worker[w] = "woken" => jobs # <<>>

\* tp->threads is the number of threads that exist, those about to end included.
ThreadsCounted == threads = Cardinality(Live)

\* A thread that will look at the queue again before it ends.
Attentive(w) == worker[w] \in Phase \ {"none", "leaving"}

\* Whenever a job is queued some thread will come back to the queue, where min
\* and max are equal and fixed; with min < max it is false.
Staffed == jobs # <<>> => \E w \in Worker : Attentive(w)

\* Some thread exists, and none is about to end.
Settled == threads > 0 /\ \A w \in Worker : worker[w] # "leaving"

\* The limits are equal, and there are no threads in excess of them.
Capped == min = max /\ threads =< min

\* Every submitted job is eventually executed.  With min < max it is false.
EveryJobServed ==
  \A j \in Job : (\E i \in DOMAIN jobs : jobs[i] = j) ~> (\E w \in Worker : hand[w] = j)

\* It is true once the pool has settled with limits that are equal and left alone,
\* however they were moved before, and whatever pthread_create refuses.
JobsServed == <>(Settled /\ []Capped) => EveryJobServed

\* The pool is a FIFO executor.
Exec == INSTANCE Executor WITH Payload <- Job, None <- NoJob,
                               queue <- jobs, held <- hand
ExecutorSpec == Exec!Spec

=============================================================================

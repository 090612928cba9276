-------------------------- MODULE ThreadPoolProofs --------------------------
(***************************************************************************)
(* Proofs about lc_thread.c: ThreadPool, for any set of threads, any       *)
(* limits and any failures of pthread_create; then about what the pool is  *)
(* built on: SpinLock, for any set of threads, and Queue, for any nodes.   *)
(* The three specifications share no variable.                             *)
(***************************************************************************)
EXTENDS ThreadPool, SpinLock, Queue, Functions, FiniteSetTheorems, SequenceTheorems,
        WellFoundedInduction, TLAPS

\* A thread has a job in hand exactly while it executes one.
HandMatchesPhase ==
  \A w \in Worker : hand[w] # NoJob <=> worker[w] = "running"

IInv == TypeOK /\ TokensMatchJobs /\ ThreadsCounted /\ HandMatchesPhase

\* When thread w moves to phase p, the counts of woken and of live threads
\* change by at most one, according to where w was and where it is now.
LEMMA PhaseCounts ==
  ASSUME TypeOK, NEW w \in Worker, NEW p \in Phase,
         worker' = [worker EXCEPT ![w] = p]
  PROVE  /\ Cardinality(Woken) \in Nat /\ Cardinality(Live) \in Nat
         /\ Cardinality(Woken') =
              IF worker[w] = "woken" THEN IF p = "woken" THEN Cardinality(Woken) ELSE Cardinality(Woken) - 1
              ELSE IF p = "woken" THEN Cardinality(Woken) + 1 ELSE Cardinality(Woken)
         /\ Cardinality(Live') =
              IF worker[w] # "none" THEN IF p # "none" THEN Cardinality(Live) ELSE Cardinality(Live) - 1
              ELSE IF p # "none" THEN Cardinality(Live) + 1 ELSE Cardinality(Live)
<1>1. IsFiniteSet(Woken) /\ IsFiniteSet(Live)
  <2>1. Woken \in SUBSET Worker /\ Live \in SUBSET Worker
    BY DEF Woken, Live
  <2>2. QED
    BY <2>1, FS_Subset, PoolAssumption
<1>2. Cardinality(Woken) \in Nat /\ Cardinality(Live) \in Nat
  BY <1>1, FS_CardinalityType
<1>3. Woken' = IF p = "woken" THEN Woken \cup {w} ELSE Woken \ {w}
  BY DEF Woken, TypeOK
<1>4. Live' = IF p # "none" THEN Live \cup {w} ELSE Live \ {w}
  BY DEF Live, TypeOK
<1>5. (w \in Woken <=> worker[w] = "woken") /\ (w \in Live <=> worker[w] # "none")
  BY DEF Woken, Live
<1>6. /\ Cardinality(Woken \cup {w}) = IF w \in Woken THEN Cardinality(Woken) ELSE Cardinality(Woken) + 1
      /\ Cardinality(Woken \ {w}) = IF w \in Woken THEN Cardinality(Woken) - 1 ELSE Cardinality(Woken)
  BY <1>1, FS_AddElement, FS_RemoveElement
<1>7. /\ Cardinality(Live \cup {w}) = IF w \in Live THEN Cardinality(Live) ELSE Cardinality(Live) + 1
      /\ Cardinality(Live \ {w}) = IF w \in Live THEN Cardinality(Live) - 1 ELSE Cardinality(Live)
  BY <1>1, FS_AddElement, FS_RemoveElement
<1>8. QED
  BY <1>2, <1>3, <1>4, <1>5, <1>6, <1>7

\* The invariant holds of the pool lc_threadpool_new returns: no job, no token,
\* no thread.
LEMMA InitInv == Init => IInv
<1> SUFFICES ASSUME Init PROVE IInv
  OBVIOUS
<1>1. TypeOK /\ HandMatchesPhase
  BY PoolAssumption DEF Init, TypeOK, HandMatchesPhase, Phase
<1>2. Woken = {} /\ Live = {}
  BY DEF Init, Woken, Live
<1>3. TokensMatchJobs /\ ThreadsCounted
  BY <1>2, FS_EmptySet DEF Init, TokensMatchJobs, ThreadsCounted
<1>4. QED
  BY <1>1, <1>3 DEF IInv

\* Nothing the invariant counts depends on the limits or on the job in hand.
LEMMA SameWorkers ==
  ASSUME worker' = worker
  PROVE  Woken' = Woken /\ Live' = Live
  BY DEF Woken, Live

\* Every critical section of the pool, and every step a pool thread takes
\* outside it, keeps jobs, tokens, threads and hands matched.
LEMMA StepInv == IInv /\ [Next]_vars => IInv'
<1> SUFFICES ASSUME IInv, [Next]_vars PROVE IInv'
  OBVIOUS
<1> USE DEF IInv
<1>1. ASSUME NEW j \in Job, Run(j) PROVE IInv'
  <2>1. jobs' \in Seq(Job) /\ Len(jobs') = Len(jobs) + 1 /\ sem' = sem + 1
    BY <1>1 DEF Run, TypeOK
  <2>2. CASE UNCHANGED <<worker, threads>>
    <3>1. TypeOK' /\ HandMatchesPhase'
      BY <1>1, <2>1, <2>2 DEF Run, TypeOK, HandMatchesPhase
    <3>2. TokensMatchJobs' /\ ThreadsCounted'
      <4>1. Cardinality(Woken) \in Nat
        BY FS_Subset, FS_CardinalityType, PoolAssumption DEF Woken
      <4>2. QED
        BY <4>1, <2>1, <2>2, SameWorkers DEF TokensMatchJobs, ThreadsCounted, TypeOK
    <3>3. QED
      BY <3>1, <3>2
  <2>3. CASE \E w \in Worker : /\ worker[w] = "none"
                               /\ worker' = [worker EXCEPT ![w] = "waiting"]
                               /\ threads' = threads + 1
    <3>1. PICK w \in Worker : /\ worker[w] = "none"
                              /\ worker' = [worker EXCEPT ![w] = "waiting"]
                              /\ threads' = threads + 1
      BY <2>3
    <3>2. TypeOK'
      BY <1>1, <2>1, <3>1 DEF Run, TypeOK, Phase
    <3>3. HandMatchesPhase'
      BY <1>1, <3>1 DEF Run, TypeOK, HandMatchesPhase
    <3>4. /\ Cardinality(Woken) \in Nat /\ Cardinality(Live) \in Nat
          /\ Cardinality(Woken') = Cardinality(Woken)
          /\ Cardinality(Live') = Cardinality(Live) + 1
      BY <3>1, PhaseCounts DEF Phase
    <3>5. QED
      BY <2>1, <3>1, <3>2, <3>3, <3>4 DEF TokensMatchJobs, ThreadsCounted, TypeOK
  <2>4. QED
    BY <1>1, <2>2, <2>3 DEF Run, Spawn
<1>2. ASSUME NEW l \in Limits, SetThreads(l[1], l[2]) PROVE IInv'
  <2>1. l[1] \in Int /\ l[2] \in Int
    BY PoolAssumption
  <2>2. TypeOK' /\ HandMatchesPhase'
    BY <1>2, <2>1 DEF SetThreads, TypeOK, HandMatchesPhase
  <2>3. TokensMatchJobs' /\ ThreadsCounted'
    BY <1>2, SameWorkers DEF SetThreads, TokensMatchJobs, ThreadsCounted
  <2>4. QED
    BY <2>2, <2>3
<1>3. ASSUME NEW w \in Worker, Wake(w) PROVE IInv'
  <2>1. TypeOK' /\ HandMatchesPhase'
    BY <1>3 DEF Wake, TypeOK, HandMatchesPhase, Phase
  <2>2. /\ Cardinality(Woken) \in Nat
        /\ Cardinality(Woken') = Cardinality(Woken) + 1
        /\ Cardinality(Live') = Cardinality(Live)
    BY <1>3, PhaseCounts DEF Wake, Phase
  <2>3. QED
    BY <1>3, <2>1, <2>2 DEF Wake, TokensMatchJobs, ThreadsCounted, TypeOK
<1>4. ASSUME NEW w \in Worker, Timeout(w) PROVE IInv'
  <2>1. TypeOK' /\ HandMatchesPhase'
    BY <1>4 DEF Timeout, TypeOK, HandMatchesPhase, Phase
  <2>2. Cardinality(Woken') = Cardinality(Woken) /\ Cardinality(Live') = Cardinality(Live)
    BY <1>4, PhaseCounts DEF Timeout, Phase
  <2>3. QED
    BY <1>4, <2>1, <2>2 DEF Timeout, TokensMatchJobs, ThreadsCounted
<1>5. ASSUME NEW w \in Worker, CheckIdle(w) PROVE IInv'
  <2>1. PICK p \in {"leaving", "waiting"} : worker' = [worker EXCEPT ![w] = p]
    BY <1>5 DEF CheckIdle
  <2>2. TypeOK' /\ HandMatchesPhase'
    BY <1>5, <2>1 DEF CheckIdle, TypeOK, HandMatchesPhase, Phase
  <2>3. Cardinality(Woken') = Cardinality(Woken) /\ Cardinality(Live') = Cardinality(Live)
    BY <1>5, <2>1, PhaseCounts DEF CheckIdle, Phase
  <2>4. QED
    BY <1>5, <2>2, <2>3 DEF CheckIdle, TokensMatchJobs, ThreadsCounted
<1>6. ASSUME NEW w \in Worker, Pop(w) PROVE IInv'
  <2>1. w \in Woken /\ IsFiniteSet(Woken)
    BY <1>6, FS_Subset, PoolAssumption DEF Pop, Woken
  <2>2. Cardinality(Woken) \in Nat /\ Cardinality(Woken) # 0
    BY <2>1, FS_CardinalityType, FS_EmptySet
  <2>3. jobs # <<>>
    BY <2>2 DEF TokensMatchJobs, TypeOK
  <2>4. /\ worker' = [worker EXCEPT ![w] = "running"]
        /\ hand' = [hand EXCEPT ![w] = Head(jobs)]
        /\ jobs' = Tail(jobs)
        /\ UNCHANGED <<sem, min, max, threads>>
    BY <1>6, <2>3 DEF Pop
  <2>5. Head(jobs) \in Job /\ jobs' \in Seq(Job) /\ Len(jobs') = Len(jobs) - 1
    BY <2>3, <2>4 DEF TypeOK
  <2>6. TypeOK' /\ HandMatchesPhase'
    BY <2>4, <2>5, PoolAssumption DEF TypeOK, HandMatchesPhase, Phase
  <2>7. /\ Cardinality(Woken') = Cardinality(Woken) - 1
        /\ Cardinality(Live') = Cardinality(Live)
    BY <1>6, <2>4, PhaseCounts DEF Pop, Phase
  <2>8. QED
    BY <2>2, <2>4, <2>5, <2>6, <2>7 DEF TokensMatchJobs, ThreadsCounted, TypeOK
<1>7. ASSUME NEW w \in Worker, FinishJob(w) PROVE IInv'
  <2>1. TypeOK' /\ HandMatchesPhase'
    BY <1>7 DEF FinishJob, TypeOK, HandMatchesPhase, Phase
  <2>2. Cardinality(Woken') = Cardinality(Woken) /\ Cardinality(Live') = Cardinality(Live)
    BY <1>7, PhaseCounts DEF FinishJob, Phase
  <2>3. QED
    BY <1>7, <2>1, <2>2 DEF FinishJob, TokensMatchJobs, ThreadsCounted
<1>8. ASSUME NEW w \in Worker, Leave(w) PROVE IInv'
  <2>1. TypeOK' /\ HandMatchesPhase'
    BY <1>8 DEF Leave, TypeOK, HandMatchesPhase, Phase
  <2>2. /\ Cardinality(Woken') = Cardinality(Woken)
        /\ Cardinality(Live) \in Nat
        /\ Cardinality(Live') = Cardinality(Live) - 1
    BY <1>8, PhaseCounts DEF Leave, Phase
  <2>3. QED
    BY <1>8, <2>1, <2>2 DEF Leave, TokensMatchJobs, ThreadsCounted
<1>9. CASE UNCHANGED vars
  <2>1. TypeOK' /\ HandMatchesPhase'
    BY <1>9 DEF vars, TypeOK, HandMatchesPhase
  <2>2. TokensMatchJobs' /\ ThreadsCounted'
    BY <1>9, SameWorkers DEF vars, TokensMatchJobs, ThreadsCounted
  <2>3. QED
    BY <2>1, <2>2
<1>10. QED
  BY <1>1, <1>2, <1>3, <1>4, <1>5, <1>6, <1>7, <1>8, <1>9 DEF Next, Step

-----------------------------------------------------------------------------
\* The inductive invariant holds in every reachable state.
THEOREM Invariance == Spec => []IInv
<1>1. Init => IInv
  BY InitInv
<1>2. IInv /\ [Next]_vars => IInv'
  BY StepInv
<1>3. QED
  BY <1>1, <1>2, PTL DEF Spec

\* The variables of the pool keep their types; in particular the semaphore
\* is never below zero.
THEOREM TypeCorrect == Spec => []TypeOK
<1>1. IInv => TypeOK
  BY DEF IInv
<1>2. QED
  BY <1>1, Invariance, PTL

\* Every queued job has exactly one post of tp->sem, or one woken thread,
\* that was made for it, whatever the limits are and however often
\* pthread_create fails.
THEOREM TokensMatch == Spec => []TokensMatchJobs
<1>1. IInv => TokensMatchJobs
  BY DEF IInv
<1>2. QED
  BY <1>1, Invariance, PTL

\* tp->threads is the number of existing threads, although it is incremented
\* under tp->lock and decremented outside it.
THEOREM ThreadCount == Spec => []ThreadsCounted
<1>1. IInv => ThreadsCounted
  BY DEF IInv
<1>2. QED
  BY <1>1, Invariance, PTL

\* queue_pop never finds the queue empty in next_job: a thread whose wait
\* succeeded always gets a job, so pool_thread ends only through the idle test.
THEOREM WokenServed == Spec => []WokenFindsJob
<1>1. IInv => WokenFindsJob
  <2> SUFFICES ASSUME IInv, NEW w \in Worker, worker[w] = "woken"
               PROVE  jobs # <<>>
    BY DEF WokenFindsJob
  <2>1. w \in Woken /\ IsFiniteSet(Woken)
    BY FS_Subset, PoolAssumption DEF Woken
  <2>2. Cardinality(Woken) \in Nat /\ Cardinality(Woken) # 0
    BY <2>1, FS_CardinalityType, FS_EmptySet
  <2>3. QED
    BY <2>2 DEF IInv, TokensMatchJobs, TypeOK
<1>2. QED
  BY <1>1, Invariance, PTL

\* The pool implements the FIFO executor: lc_threadpool_run submits, the pop of
\* next_job hands the oldest job to a thread with empty hands, the return of
\* job->fn finishes it, and nothing else the pool does is visible.
THEOREM Refinement == Spec => ExecutorSpec
<1>1. Init => Exec!Init
  BY DEF Init, Exec!Init
<1>2. IInv /\ [Next]_vars => [Exec!Next]_(Exec!vars)
  <2> SUFFICES ASSUME IInv, [Next]_vars PROVE [Exec!Next]_(Exec!vars)
    OBVIOUS
  <2>1. ASSUME NEW j \in Job, Run(j) PROVE Exec!Next
    BY <2>1 DEF Run, Exec!Next, Exec!Submit
  <2>2. ASSUME NEW l \in Limits, SetThreads(l[1], l[2]) PROVE UNCHANGED Exec!vars
    BY <2>2 DEF SetThreads, Exec!vars
  <2>3. ASSUME NEW w \in Worker, Wake(w) \/ Timeout(w) \/ CheckIdle(w) \/ Leave(w)
        PROVE  UNCHANGED Exec!vars
    BY <2>3 DEF Wake, Timeout, CheckIdle, Leave, Exec!vars
  <2>4. ASSUME NEW w \in Worker, Pop(w) PROVE [Exec!Next]_(Exec!vars)
    <3>1. CASE jobs = <<>>
      BY <2>4, <3>1 DEF Pop, Exec!vars
    <3>2. CASE jobs # <<>>
      <4>1. hand[w] = NoJob
        BY <2>4 DEF Pop, IInv, HandMatchesPhase
      <4>2. Exec!Start(w)
        BY <2>4, <3>2, <4>1 DEF Pop, Exec!Start
      <4>3. QED
        BY <4>2 DEF Exec!Next
    <3>3. QED
      BY <3>1, <3>2
  <2>5. ASSUME NEW w \in Worker, FinishJob(w) PROVE Exec!Next
    <3>1. hand[w] # NoJob
      BY <2>5 DEF FinishJob, IInv, HandMatchesPhase
    <3>2. Exec!Finish(w)
      BY <2>5, <3>1 DEF FinishJob, Exec!Finish
    <3>3. QED
      BY <3>2 DEF Exec!Next
  <2>6. CASE UNCHANGED vars
    BY <2>6 DEF vars, Exec!vars
  <2>7. QED
    BY <2>1, <2>2, <2>3, <2>4, <2>5, <2>6 DEF Next, Step
<1>3. QED
  BY <1>1, <1>2, Invariance, PTL DEF Spec, ExecutorSpec, Exec!Spec

-----------------------------------------------------------------------------
\* Where the limits are equal and stay so, no thread is ever above the minimum,
\* so the idle test sends nobody away; and a queued job found a thread or made one.
Kept ==
  /\ min = MinThreads /\ max = MaxThreads
  /\ threads =< min
  /\ \A w \in Worker : worker[w] # "leaving"
  /\ jobs # <<>> => Live # {}

\* With limits that leave no room between the minimum and the maximum, are not
\* changed, and with threads that can be created, no job is ever left in a
\* queue that no thread will look at.  With min < max this fails: the test of
\* next_job and the end of the thread are not one critical section.
THEOREM AlwaysStaffed ==
  ASSUME Worker # {}, MinThreads > 0, MaxThreads =< MinThreads,
         Limits = {}, SpawnMayFail = FALSE
  PROVE  Spec => []Staffed
<1>1. Init => Kept
  BY PoolAssumption DEF Init, Kept
<1>2. IInv /\ IInv' /\ Kept /\ [Next]_vars => Kept'
  <2> SUFFICES ASSUME IInv, IInv', Kept, [Next]_vars PROVE Kept'
    OBVIOUS
  <2>0. threads \in Int /\ min \in Int /\ max \in Int /\ worker \in [Worker -> Phase]
    BY DEF IInv, TypeOK
  <2>1. ASSUME NEW j \in Job, Run(j) PROVE Kept'
    <3>1. CASE \E w \in Worker : /\ worker[w] = "none"
                                 /\ worker' = [worker EXCEPT ![w] = "waiting"]
                                 /\ threads' = threads + 1
                                 /\ NeedsThread(Len(jobs) + 1)
      <4>1. PICK w \in Worker : /\ worker' = [worker EXCEPT ![w] = "waiting"]
                                /\ threads' = threads + 1
                                /\ NeedsThread(Len(jobs) + 1)
        BY <3>1
      <4>2. worker'[w] = "waiting"
        BY <4>1, <2>0
      <4>3. w \in Live'
        BY <4>2 DEF Live
      <4>4. threads < min
        BY <4>1, <2>0 DEF NeedsThread, Kept
      <4>5. UNCHANGED <<min, max>>
        BY <2>1 DEF Run
      <4>6. threads' =< min'
        BY <4>1, <4>4, <4>5, <2>0
      <4>7. \A v \in Worker : worker'[v] # "leaving"
        BY <4>1, <2>0 DEF Kept
      <4>8. QED
        BY <4>3, <4>5, <4>6, <4>7 DEF Kept
    <3>2. CASE UNCHANGED <<worker, threads>>
      <4>1. Live # {}
        <5>1. CASE NeedsThread(Len(jobs) + 1)
          <6>1. CASE \A w \in Worker : worker[w] # "none"
            BY <6>1 DEF Live
          <6>2. CASE ~ \A w \in Worker : worker[w] # "none"
            <7>1. threads' = threads + 1
              BY <2>1, <5>1, <6>2 DEF Run, Spawn
            <7>2. QED
              BY <3>2, <7>1, <2>0
          <6>3. QED
            BY <6>1, <6>2
        <5>2. CASE ~ NeedsThread(Len(jobs) + 1)
          <6>1. threads > 0
            BY <5>2, <2>0, PoolAssumption DEF NeedsThread, Kept
          <6>2. QED
            BY <6>1, FS_EmptySet DEF IInv, ThreadsCounted
        <5>3. QED
          BY <5>1, <5>2
      <4>2. Live' = Live
        BY <3>2 DEF Live
      <4>3. QED
        BY <2>1, <3>2, <4>1, <4>2 DEF Run, Kept
    <3>3. QED
      BY <2>1, <3>1, <3>2 DEF Run, Spawn
  <2>2. ASSUME NEW w \in Worker, Wake(w) \/ Timeout(w) \/ CheckIdle(w) PROVE Kept'
    <3>1. PICK p \in {"woken", "timedout", "waiting"} :
             worker' = [worker EXCEPT ![w] = p] /\ UNCHANGED <<jobs, min, max, threads>>
      BY <2>2, <2>0 DEF Wake, Timeout, CheckIdle, Kept
    <3>2. worker'[w] = p
      BY <3>1, <2>0
    <3>3. w \in Live'
      BY <3>2 DEF Live
    <3>4. \A v \in Worker : worker'[v] # "leaving"
      BY <3>1, <2>0 DEF Kept
    <3>5. QED
      BY <3>1, <3>3, <3>4 DEF Kept
  <2>3. ASSUME NEW w \in Worker, Pop(w) PROVE Kept'
    <3>1. jobs # <<>>
      <4>1. w \in Woken /\ IsFiniteSet(Woken)
        BY <2>3, FS_Subset, PoolAssumption DEF Pop, Woken
      <4>2. Cardinality(Woken) \in Nat /\ Cardinality(Woken) # 0
        BY <4>1, FS_CardinalityType, FS_EmptySet
      <4>3. QED
        BY <4>2 DEF IInv, TokensMatchJobs, TypeOK
    <3>2. worker' = [worker EXCEPT ![w] = "running"] /\ UNCHANGED <<min, max, threads>>
      BY <2>3, <3>1 DEF Pop
    <3>3. worker'[w] = "running"
      BY <3>2, <2>0
    <3>4. w \in Live'
      BY <3>3 DEF Live
    <3>5. \A v \in Worker : worker'[v] # "leaving"
      BY <3>2, <2>0 DEF Kept
    <3>6. QED
      BY <3>2, <3>4, <3>5 DEF Kept
  <2>4. ASSUME NEW w \in Worker, FinishJob(w) PROVE Kept'
    <3>1. worker' = [worker EXCEPT ![w] = "waiting"] /\ UNCHANGED <<jobs, min, max, threads>>
      BY <2>4 DEF FinishJob
    <3>2. worker'[w] = "waiting"
      BY <3>1, <2>0
    <3>3. w \in Live'
      BY <3>2 DEF Live
    <3>4. \A v \in Worker : worker'[v] # "leaving"
      BY <3>1, <2>0 DEF Kept
    <3>5. QED
      BY <3>1, <3>3, <3>4 DEF Kept
  <2>5. ASSUME NEW w \in Worker, Leave(w) PROVE Kept'
    BY <2>5 DEF Leave, Kept
  <2>6. CASE UNCHANGED vars
    BY <2>6, SameWorkers DEF vars, Kept
  <2>7. QED
    BY <2>1, <2>2, <2>3, <2>4, <2>5, <2>6 DEF Next, Step
<1>3. IInv /\ Kept => Staffed
  BY DEF IInv, TypeOK, Kept, Staffed, Attentive, Live
<1>4. QED
  BY <1>1, <1>2, <1>3, Invariance, PTL DEF Spec

-----------------------------------------------------------------------------
(* The spin lock. *)

\* Where the exchange is a full barrier a store waits for it, so what a thread has
\* loaded is still what the memory holds when it stores.
LockOrdered ==
  /\ \A t \in Thread : stored[t] => pc[t] = "unlock"
  /\ \A t \in Thread : pc[t] = "store" => loaded[t] = memory

LockInv == LockTypeOK /\ MutualExclusion /\ (FullExchange => LockOrdered)

\* Numbers are counted modulo.
LEMMA NextNumber == ASSUME NEW n \in Number PROVE (n + 1) % Modulus \in Number
  BY SpinLockAssumption DEF Number

LEMMA LockInitInv == LockInit => LockInv
<1>1. 0 \in Number
  BY SpinLockAssumption DEF Number
<1>2. QED
  BY <1>1 DEF LockInit, LockInv, LockTypeOK, LockPhase, MutualExclusion, Inside, LockOrdered

LEMMA LockTypes == LockTypeOK /\ [LockNext]_lockVars => LockTypeOK'
<1> SUFFICES ASSUME LockTypeOK, [LockNext]_lockVars PROVE LockTypeOK'
  OBVIOUS
<1> USE DEF LockTypeOK, LockPhase, Goto
<1>0. ASSUME NEW t \in Thread, Drain(t) PROVE LockTypeOK'
  BY <1>0 DEF Drain
<1>1. ASSUME NEW t \in Thread, Lock(t) PROVE LockTypeOK'
  BY <1>1 DEF Lock
<1>2. ASSUME NEW t \in Thread, Spin(t) \/ TryLock(t) PROVE LockTypeOK'
  BY <1>2 DEF Spin, TryLock, Swap
<1>3. ASSUME NEW t \in Thread, Load(t) PROVE LockTypeOK'
  BY <1>3 DEF Load
<1>4. ASSUME NEW t \in Thread, Store(t) PROVE LockTypeOK'
  BY <1>4, NextNumber DEF Store
<1>5. ASSUME NEW t \in Thread, Unlock(t) PROVE LockTypeOK'
  BY <1>5 DEF Unlock
<1>6. CASE UNCHANGED lockVars
  BY <1>6 DEF lockVars
<1>7. QED
  BY <1>0, <1>1, <1>2, <1>3, <1>4, <1>5, <1>6 DEF LockNext, LockStep

\* The lock is free when a thread gets in, and taken until that one is out.
LEMMA LockExcludes == LockTypeOK /\ MutualExclusion /\ [LockNext]_lockVars => MutualExclusion'
<1> SUFFICES ASSUME LockTypeOK, MutualExclusion, [LockNext]_lockVars PROVE MutualExclusion'
  OBVIOUS
<1>1. ASSUME NEW t \in Thread, Drain(t) \/ Lock(t) \/ Load(t) \/ Store(t) PROVE MutualExclusion'
  <2>1. s' = s /\ \A u \in Thread : Inside(u)' <=> Inside(u)
    BY <1>1 DEF Drain, Lock, Load, Store, Goto, Inside, LockTypeOK
  <2>2. QED
    BY <2>1 DEF MutualExclusion
<1>2. ASSUME NEW t \in Thread, Spin(t) \/ TryLock(t) PROVE MutualExclusion'
  <2>1. s = 0 /\ s' = 1 /\ \A u \in Thread : Inside(u)' <=> Inside(u) \/ u = t
    BY <1>2 DEF Spin, TryLock, Swap, Goto, Inside, LockTypeOK
  <2>2. \A u \in Thread : ~ Inside(u)
    BY <2>1 DEF MutualExclusion
  <2>3. QED
    BY <2>1, <2>2 DEF MutualExclusion
<1>3. ASSUME NEW t \in Thread, Unlock(t) PROVE MutualExclusion'
  <2>1. Inside(t) /\ s' = 0 /\ \A u \in Thread : Inside(u)' <=> Inside(u) /\ u # t
    BY <1>3 DEF Unlock, Goto, Inside, LockTypeOK
  <2>2. QED
    BY <2>1 DEF MutualExclusion
<1>4. CASE UNCHANGED lockVars
  BY <1>4 DEF lockVars, MutualExclusion, Inside
<1>5. QED
  BY <1>1, <1>2, <1>3, <1>4 DEF LockNext, LockStep

\* Nobody stores while a thread is between its load and its store.
LEMMA LockKeepsOrder ==
  FullExchange /\ LockTypeOK /\ MutualExclusion /\ LockOrdered /\ [LockNext]_lockVars => LockOrdered'
<1> SUFFICES ASSUME FullExchange, LockTypeOK, MutualExclusion, LockOrdered, [LockNext]_lockVars PROVE LockOrdered'
  OBVIOUS
<1>1. ASSUME NEW t \in Thread, Drain(t) PROVE LockOrdered'
  <2>1. pc[t] = "unlock"
    BY <1>1 DEF Drain, LockOrdered
  <2>2. \A u \in Thread : pc[u] # "store"
    BY <2>1 DEF MutualExclusion, Inside
  <2>3. QED
    BY <1>1, <2>2 DEF Drain, LockOrdered, LockTypeOK
<1>2. ASSUME NEW t \in Thread, Lock(t) \/ Spin(t) \/ TryLock(t) \/ Unlock(t) PROVE LockOrdered'
  BY <1>2 DEF Lock, Spin, TryLock, Swap, Unlock, Goto, LockOrdered, LockTypeOK
<1>3. ASSUME NEW t \in Thread, Load(t) PROVE LockOrdered'
  BY <1>3 DEF Load, Goto, LockOrdered, LockTypeOK
<1>4. ASSUME NEW t \in Thread, Store(t) PROVE LockOrdered'
  BY <1>4 DEF Store, Goto, LockOrdered, LockTypeOK
<1>5. CASE UNCHANGED lockVars
  BY <1>5 DEF lockVars, LockOrdered
<1>6. QED
  BY <1>1, <1>2, <1>3, <1>4, <1>5 DEF LockNext, LockStep

\* The invariant holds in every reachable state.
LEMMA LockInvariance == LockSpec => []LockInv
<1>1. LockInv /\ [LockNext]_lockVars => LockInv'
  BY LockTypes, LockExcludes, LockKeepsOrder DEF LockInv
<1>2. QED
  BY <1>1, LockInitInv, PTL DEF LockSpec

\* No two threads are in critical sections of one lock, on any machine.
THEOREM Exclusion == LockSpec => []MutualExclusion
<1>1. LockInv => MutualExclusion
  BY DEF LockInv
<1>2. QED
  BY <1>1, LockInvariance, PTL

\* Where the exchange of lc_spin_unlock is a full barrier a critical section is one
\* step, for any number of threads: what the other modules are built on.
THEOREM Atomicity == ASSUME FullExchange PROVE LockSpec => AtomicSpec
<1>1. LockInit => Sections!Init
  <2>1. LockInit => SharedValue = 0
    BY DEF LockInit, SharedValue
  <2>2. QED
    BY <2>1 DEF LockInit, Sections!Init
<1>2. LockInv /\ [LockNext]_lockVars => [Sections!Next]_(Sections!vars)
  <2> SUFFICES ASSUME LockInv, [LockNext]_lockVars PROVE [Sections!Next]_(Sections!vars)
    OBVIOUS
  <2>0. LockTypeOK /\ MutualExclusion /\ LockOrdered
    BY DEF LockInv
  <2>1. ASSUME UNCHANGED <<memory, stored, buffer, done>> PROVE UNCHANGED Sections!vars
    BY <2>1 DEF SharedValue, Sections!vars
  <2>2. ASSUME NEW t \in Thread, Lock(t) \/ Spin(t) \/ TryLock(t) \/ Load(t) \/ Unlock(t)
        PROVE  UNCHANGED Sections!vars
    BY <2>1, <2>2 DEF Lock, Spin, TryLock, Swap, Load, Unlock
  <2>3. ASSUME NEW t \in Thread, Drain(t) PROVE UNCHANGED Sections!vars
    <3>1. \A u \in Thread : stored[u] <=> u = t
      BY <2>0, <2>3 DEF Drain, LockOrdered, MutualExclusion, Inside
    <3>2. SharedValue = buffer[t]
      BY <3>1 DEF SharedValue
    <3>3. \A u \in Thread : ~ stored'[u]
      BY <2>0, <2>3, <3>1 DEF Drain, LockTypeOK
    <3>4. SharedValue' = memory'
      BY <3>3 DEF SharedValue
    <3>5. QED
      BY <2>3, <3>2, <3>4 DEF Drain, Sections!vars
  <2>4. ASSUME NEW t \in Thread, Store(t) PROVE Sections!Section(t)
    <3>1. \A u \in Thread : ~ stored[u]
      BY <2>0, <2>4 DEF Store, LockOrdered, MutualExclusion, Inside
    <3>2. SharedValue = memory /\ loaded[t] = memory
      BY <2>0, <2>4, <3>1 DEF SharedValue, Store, LockOrdered
    <3>3. \A u \in Thread : stored'[u] <=> u = t
      BY <2>0, <2>4, <3>1 DEF Store, LockTypeOK
    <3>4. SharedValue' = buffer'[t]
      BY <3>3 DEF SharedValue
    <3>5. buffer'[t] = (loaded[t] + 1) % Modulus
      BY <2>0, <2>4 DEF Store, LockTypeOK
    <3>6. QED
      BY <2>4, <3>2, <3>4, <3>5 DEF Store, Sections!Section
  <2>5. CASE UNCHANGED lockVars
    BY <2>1, <2>5 DEF lockVars
  <2>6. QED
    BY <2>2, <2>3, <2>4, <2>5 DEF LockNext, LockStep, Sections!Next
<1>3. QED
  BY <1>1, <1>2, LockInvariance, PTL DEF LockSpec, AtomicSpec, Sections!Spec

-----------------------------------------------------------------------------
(* The queue.  queue_push and queue_pop keep one chain of nodes from the     *)
(* head to the tail, so the links, the tail pointer, the counter and the     *)
(* allocated nodes agree (Linked), and the list is the FIFO queue that       *)
(* queue.h promises (ImplementsFifo).  The walk along the links (Met, Nodes) *)
(* is a recursive function; that it visits exactly the nodes of the chain is *)
(* shown by induction over the length.                                       *)

\* A set of naturals that is not empty has a least element.
LEMMA Least ==
  ASSUME NEW T, T \subseteq Nat, T # {}
  PROVE  \E n \in T : \A m \in T : n =< m
<1>1. PICK R : IsWellFoundedOn(R, Nat) /\ \A x, y \in Nat : x < y => <<x, y>> \in R
  <2>1. IsWellFoundedOn(OpToRel(<, Nat), Nat)
    BY NatLessThanWellFounded
  <2>2. \A x, y \in Nat : x < y => <<x, y>> \in OpToRel(<, Nat)
    BY DEF OpToRel
  <2>3. QED
    BY <2>1, <2>2
<1>2. PICK n \in T : \A m \in T : ~ (<<m, n>> \in R)
  <2>1. IsWellFoundedOn(R, Nat)
    BY <1>1
  <2>2. QED
    BY <2>1, WFMin
<1>3. ASSUME NEW m \in T PROVE n =< m
  <2>1. m \in Nat /\ n \in Nat /\ ~ (m < n)
    BY <1>1, <1>2
  <2>2. QED
    BY <2>1
<1>4. QED
  BY <1>3

\* Induction: a set that has 0 and the successors of its elements.
LEMMA Ind ==
  ASSUME NEW S, 0 \in S, \A n \in Nat : n \in S => n + 1 \in S
  PROVE  Nat \subseteq S
<1> SUFFICES ASSUME ~ (Nat \subseteq S) PROVE FALSE
  OBVIOUS
<1>1. PICK n \in Nat \ S : \A m \in Nat \ S : n =< m
  <2>1. Nat \ S \subseteq Nat /\ Nat \ S # {}
    OBVIOUS
  <2>2. QED
    BY <2>1, Least
<1>2. n - 1 \in Nat /\ n - 1 \in S /\ n = (n - 1) + 1
  BY <1>1
<1>3. QED
  BY <1>1, <1>2

-----------------------------------------------------------------------------
\* ns are the nodes of the list, from the head to the tail: every one of them
\* allocated and met once, each linked to the one after it, the last one to
\* nothing.  The list is in such a state for some ns whenever nobody is inside
\* an operation.
Chain(ns) ==
  /\ ns \in Seq(Cell) /\ IsInjective(ns) /\ heap = Range(ns)
  /\ next[HeadCell] = IF ns = <<>> THEN Null ELSE ns[1]
  /\ \A i \in 1..(Len(ns) - 1) : next[ns[i]] = ns[i + 1]
  /\ tail = IF ns = <<>> THEN HeadCell ELSE ns[Len(ns)]
  /\ next[tail] = Null
  /\ size = Len(ns)
  /\ \A i \in 1..Len(ns) : data[ns[i]] \in Value

\* What Met should be if ns are the nodes.
Along(ns) == [i \in 0..Cardinality(Cell) |->
               IF i = 0 THEN HeadCell ELSE IF i =< Len(ns) THEN ns[i] ELSE Null]

\* There are finitely many nodes.
LEMMA MostNat == Cardinality(Cell) \in Nat
  BY FS_CardinalityType, QueueAssumption

\* Along(ns) satisfies the equation that defines Met.
LEMMA AlongMet ==
  ASSUME NEW ns, Chain(ns)
  PROVE  Along(ns) = [i \in 0..Cardinality(Cell) |->
           IF i = 0 THEN HeadCell ELSE IF Along(ns)[i - 1] = Null THEN Null ELSE next[Along(ns)[i - 1]]]
<1>1. Cardinality(Cell) \in Nat
  BY MostNat
<1>2. ns \in Seq(Cell) /\ Len(ns) \in Nat /\ Null \notin Cell /\ HeadCell # Null
  BY QueueAssumption DEF Chain, Node
<1>3. ASSUME NEW i \in 0..Cardinality(Cell), i # 0
      PROVE  Along(ns)[i] = IF Along(ns)[i - 1] = Null THEN Null ELSE next[Along(ns)[i - 1]]
  <2>1. i \in 1..Cardinality(Cell) /\ i - 1 \in 0..Cardinality(Cell)
    BY <1>1, <1>3
  <2>2. CASE i = 1
    BY <1>1, <1>2, <2>1, <2>2 DEF Along, Chain
  <2>3. CASE i > 1 /\ i =< Len(ns)
    <3>1. i - 1 \in 1..(Len(ns) - 1) /\ (i - 1) + 1 = i
      BY <1>1, <1>2, <2>1, <2>3
    <3>2. next[ns[i - 1]] = ns[i] /\ ns[i - 1] \in Cell
      BY <1>2, <3>1 DEF Chain
    <3>3. Along(ns)[i - 1] = ns[i - 1] /\ Along(ns)[i] = ns[i]
      BY <2>1, <2>3, <3>1 DEF Along
    <3>4. QED
      BY <1>2, <3>2, <3>3
  <2>4. CASE i > 1 /\ i = Len(ns) + 1
    <3>1. ns # <<>> /\ Along(ns)[i - 1] = ns[Len(ns)] /\ Along(ns)[i] = Null
      BY <1>2, <2>1, <2>4 DEF Along
    <3>2. QED
      BY <1>2, <3>1 DEF Chain
  <2>5. CASE i > 1 /\ i > Len(ns) + 1
    BY <1>2, <2>1, <2>5 DEF Along
  <2>6. QED
    BY <1>1, <1>2, <2>1, <2>2, <2>3, <2>4, <2>5
<1>4. QED
  BY <1>1, <1>3 DEF Along

\* Met is defined by its equation: a function that satisfies it exists.
LEMMA MetEquation ==
  ASSUME NEW f, f = [i \in 0..Cardinality(Cell) |->
           IF i = 0 THEN HeadCell ELSE IF f[i - 1] = Null THEN Null ELSE next[f[i - 1]]]
  PROVE  Met = [i \in 0..Cardinality(Cell) |->
           IF i = 0 THEN HeadCell ELSE IF Met[i - 1] = Null THEN Null ELSE next[Met[i - 1]]]
  BY Zenon DEF Met

\* And only one does: Met is the walk along the nodes of the list.
LEMMA MetIs ==
  ASSUME NEW ns, Chain(ns)
  PROVE  \A i \in 0..Cardinality(Cell) : Met[i] = Along(ns)[i]
<1> DEFINE S == {i \in Nat : i =< Cardinality(Cell) => Met[i] = Along(ns)[i]}
<1>0. Cardinality(Cell) \in Nat
  BY MostNat
<1>1. Met = [i \in 0..Cardinality(Cell) |->
        IF i = 0 THEN HeadCell ELSE IF Met[i - 1] = Null THEN Null ELSE next[Met[i - 1]]]
  BY AlongMet, MetEquation
<1>2. Along(ns) = [i \in 0..Cardinality(Cell) |->
        IF i = 0 THEN HeadCell ELSE IF Along(ns)[i - 1] = Null THEN Null ELSE next[Along(ns)[i - 1]]]
  BY AlongMet
<1>3. 0 \in S
  <2>1. Met[0] = HeadCell
    BY <1>0, <1>1
  <2>2. Along(ns)[0] = HeadCell
    BY <1>0 DEF Along
  <2>3. QED
    BY <2>1, <2>2
<1>4. ASSUME NEW n \in Nat, n \in S PROVE n + 1 \in S
  <2>1. CASE n + 1 =< Cardinality(Cell)
    <3>1. n + 1 \in 0..Cardinality(Cell) /\ n + 1 # 0 /\ (n + 1) - 1 = n /\ n =< Cardinality(Cell)
      BY <1>0, <2>1
    <3>2. Met[n] = Along(ns)[n]
      BY <1>4, <3>1
    <3>3. Met[n + 1] = IF Met[n] = Null THEN Null ELSE next[Met[n]]
      BY <1>1, <3>1
    <3>4. Along(ns)[n + 1] = IF Along(ns)[n] = Null THEN Null ELSE next[Along(ns)[n]]
      BY <1>2, <3>1
    <3>5. QED
      BY <3>2, <3>3, <3>4
  <2>2. CASE ~ (n + 1 =< Cardinality(Cell))
    BY <2>2
  <2>3. QED
    BY <2>1, <2>2
<1>5. Nat \subseteq S
  <2> HIDE DEF S
  <2> QED
    BY <1>3, <1>4, Ind
<1>6. QED
  BY <1>0, <1>5

\* A list has no more nodes than there are, and as many as are allocated.
LEMMA ChainLength ==
  ASSUME NEW ns, Chain(ns)
  PROVE  Len(ns) =< Cardinality(Cell) /\ Cardinality(heap) = Len(ns)
<1>1. /\ ns \in Seq(Cell) /\ IsInjective(ns) /\ heap = Range(ns)
      /\ Len(ns) \in Nat /\ DOMAIN ns = 1..Len(ns) /\ ns \in [1..Len(ns) -> Cell]
  BY LenProperties DEF Chain
<1>2. heap \subseteq Cell
  BY <1>1 DEF Range
<1>3. ns \in Bijection(1..Len(ns), heap)
  <2>1. ns \in [1..Len(ns) -> heap]
    BY <1>1 DEF Range
  <2>2. ns \in Injection(1..Len(ns), heap)
    BY <1>1, <2>1 DEF Injection, IsInjective
  <2>3. ns \in Surjection(1..Len(ns), heap)
    BY <1>1, <2>1 DEF Surjection, Range
  <2>4. QED
    BY <2>2, <2>3 DEF Bijection
<1>4. Cardinality(heap) = Len(ns)
  BY <1>1, <1>3, FS_CountingElements DEF ExistsBijection
<1>5. Cardinality(heap) =< Cardinality(Cell)
  BY <1>2, FS_Subset, QueueAssumption
<1>6. QED
  BY <1>4, <1>5

\* What a walk along the links finds.
LEMMA NodesAre ==
  ASSUME NEW ns, Chain(ns)
  PROVE  Nodes = ns
<1>1. /\ ns \in Seq(Cell) /\ Len(ns) \in Nat /\ ns = [i \in 1..Len(ns) |-> ns[i]]
      /\ Cardinality(Cell) \in Nat /\ Len(ns) =< Cardinality(Cell)
      /\ \A i \in 1..Len(ns) : ns[i] \in Cell
  BY MostNat, ChainLength, LenProperties DEF Chain
<1>2. \A i \in 1..Cardinality(Cell) : Met[i] = IF i =< Len(ns) THEN ns[i] ELSE Null
  <2>1. ASSUME NEW i \in 1..Cardinality(Cell)
        PROVE  Met[i] = IF i =< Len(ns) THEN ns[i] ELSE Null
    <3>1. i \in 0..Cardinality(Cell) /\ i # 0
      BY <1>1
    <3>2. QED
      BY <3>1, MetIs DEF Along
  <2>2. QED
    BY <2>1
<1>3. {i \in 1..Cardinality(Cell) : Met[i] # Null} = 1..Len(ns)
  BY <1>1, <1>2, QueueAssumption DEF Node
<1>4. Cardinality(1..Len(ns)) = Len(ns)
  <2>1. Cardinality(1..Len(ns)) = IF 1 > Len(ns) THEN 0 ELSE Len(ns) - 1 + 1
    BY <1>1, FS_Interval
  <2>2. QED
    BY <1>1, <2>1
<1>5. Nodes = [i \in 1..Len(ns) |-> Met[i]]
  BY <1>3, <1>4 DEF Nodes
<1>6. QED
  BY <1>1, <1>2, <1>5

-----------------------------------------------------------------------------
\* The inductive invariant.
ListInv == QueueTypeOK /\ \E ns : Chain(ns)

\* queue_push appends a node, whichever free one malloc returns.
LEMMA PushChain ==
  ASSUME QueueTypeOK, NEW ns, Chain(ns), NEW v \in Value, NEW n \in Cell \ heap,
         heap' = heap \cup {n}, Link(n, v), tail' = n, size' = size + 1
  PROVE  Chain(Append(ns, n))'
<1> DEFINE ms == Append(ns, n)
<1>1. /\ ns \in Seq(Cell) /\ IsInjective(ns) /\ heap = Range(ns)
      /\ Len(ns) \in Nat /\ DOMAIN ns = 1..Len(ns)
      /\ \A i \in 1..Len(ns) : ns[i] \in Cell /\ ns[i] \in heap /\ ns[i] # n
  BY LenProperties DEF Chain, Range
<1>2. /\ ms \in Seq(Cell) /\ ms # <<>> /\ Len(ms) = Len(ns) + 1 /\ DOMAIN ms = 1..(Len(ns) + 1)
      /\ \A i \in 1..Len(ns) : ms[i] = ns[i]
      /\ ms[Len(ns) + 1] = n
  BY <1>1, AppendProperties, LenProperties
<1> HIDE DEF ms
<1>3. IsInjective(ms) /\ heap' = Range(ms)
  BY <1>1, <1>2 DEF IsInjective, Range
<1>4. /\ tail \in Node /\ tail # n /\ n # HeadCell /\ n \in Node /\ HeadCell \in Node /\ Cell \subseteq Node
      /\ next' = [next EXCEPT ![n] = Null, ![tail] = n] /\ next \in [Node -> Node \cup {Null}]
      /\ data' = [data EXCEPT ![n] = v] /\ data \in [Node -> Value \cup {NoValue}]
  BY <1>1, QueueAssumption DEF QueueTypeOK, Node, Chain, Link
<1>5. next'[n] = Null /\ next'[tail] = n /\ \A m \in Node : m # n /\ m # tail => next'[m] = next[m]
  BY <1>4
<1>6. next'[HeadCell] = ms[1]
  BY <1>1, <1>2, <1>4, <1>5, QueueAssumption DEF Chain
<1>7. ASSUME NEW i \in 1..(Len(ms) - 1) PROVE next'[ms[i]] = ms[i + 1]
  <2>1. i \in 1..Len(ns) /\ ns # <<>>
    BY <1>1, <1>2
  <2>2. CASE i = Len(ns)
    BY <1>2, <1>5, <2>1, <2>2 DEF Chain
  <2>3. CASE i < Len(ns)
    <3>1. i \in 1..(Len(ns) - 1) /\ i + 1 \in 1..Len(ns) /\ Len(ns) \in 1..Len(ns)
      BY <1>1, <2>1, <2>3
    <3>2. ns[i] # tail
      BY <1>1, <2>1, <2>3, <3>1 DEF Chain, IsInjective
    <3>3. next'[ns[i]] = ns[i + 1]
      BY <1>1, <1>4, <1>5, <2>1, <3>1, <3>2 DEF Chain
    <3>4. QED
      BY <1>2, <2>1, <3>1, <3>3
  <2>4. i = Len(ns) \/ i < Len(ns)
    <3>1. Len(ns) \in Nat /\ i \in 1..Len(ns)
      BY <1>1, <2>1
    <3>2. \A k \in Nat : i \in 1..k => i = k \/ i < k
      OBVIOUS
    <3>3. QED
      BY <3>1, <3>2
  <2>5. QED
    BY <2>2, <2>3, <2>4
<1>8. \A i \in 1..Len(ms) : data'[ms[i]] \in Value
  BY <1>1, <1>2, <1>4 DEF Chain
<1>9. QED
  <2>1. size' = Len(ms) /\ tail' = ms[Len(ms)] /\ next'[tail'] = Null
    BY <1>2, <1>5 DEF Chain
  <2>2. Chain(ms)'
    BY <1>2, <1>3, <1>6, <1>7, <1>8, <2>1 DEF Chain
  <2>3. QED
    BY <2>2 DEF ms

\* queue_pop takes away the first node; the tail follows when it was the last.
LEMMA RemoveChain ==
  ASSUME QueueTypeOK, NEW ns, Chain(ns), ns # <<>>, Remove(next[HeadCell])
  PROVE  next[HeadCell] = ns[1] /\ Chain(Tail(ns))'
<1> DEFINE ms == Tail(ns)
<1>1. /\ ns \in Seq(Cell) /\ IsInjective(ns) /\ heap = Range(ns)
      /\ Len(ns) \in Nat \ {0} /\ DOMAIN ns = 1..Len(ns)
      /\ \A i \in 1..Len(ns) : ns[i] \in Cell
  BY LenProperties, EmptySeq DEF Chain
<1>2. /\ ms \in Seq(Cell) /\ Len(ms) = Len(ns) - 1 /\ DOMAIN ms = 1..(Len(ns) - 1)
      /\ \A i \in 1..(Len(ns) - 1) : ms[i] = ns[i + 1]
      /\ ms = <<>> <=> Len(ns) = 1
  <2>1. /\ ms \in Seq(Cell) /\ Len(ms) = Len(ns) - 1
        /\ \A i \in 1..Len(ms) : ms[i] = ns[i + 1]
    BY <1>1, HeadTailProperties
  <2>2. DOMAIN ms = 1..Len(ms) /\ (ms = <<>> <=> Len(ms) = 0)
    <3> HIDE DEF ms
    <3> QED
      BY <2>1, LenProperties, EmptySeq
  <2>3. QED
    BY <1>1, <2>1, <2>2
<1> HIDE DEF ms
<1>3. next[HeadCell] = ns[1] /\ ns[1] \in Cell
  BY <1>1 DEF Chain
<1>4. /\ next' = [next EXCEPT ![HeadCell] = next[ns[1]]] /\ next \in [Node -> Node \cup {Null}]
      /\ tail' = IF tail = ns[1] THEN HeadCell ELSE tail
      /\ heap' = heap \ {ns[1]} /\ size' = size - 1 /\ data' = data
      /\ HeadCell \in Node /\ Cell \subseteq Node /\ HeadCell \notin Cell
  BY <1>3, QueueAssumption DEF Remove, Unlink, QueueTypeOK, Node
<1>5. next'[HeadCell] = next[ns[1]] /\ \A m \in Cell : next'[m] = next[m]
  BY <1>4
<1>6. IsInjective(ms) /\ heap' = Range(ms)
  <2>1. IsInjective(ms)
    <3>1. ASSUME NEW i \in 1..(Len(ns) - 1), NEW j \in 1..(Len(ns) - 1), ms[i] = ms[j]
          PROVE  i = j
      <4>1. i + 1 \in 1..Len(ns) /\ j + 1 \in 1..Len(ns) /\ ns[i + 1] = ns[j + 1]
        BY <1>1, <1>2, <3>1
      <4>2. i + 1 = j + 1
        BY <1>1, <4>1 DEF IsInjective
      <4>3. QED
        BY <4>2
    <3>2. QED
      BY <1>2, <3>1 DEF IsInjective
  <2>2. ASSUME NEW x \in heap' PROVE x \in Range(ms)
    <3>1. PICK i \in 1..Len(ns) : x = ns[i] /\ i # 1
      BY <1>1, <1>4 DEF Range
    <3>2. i - 1 \in 1..(Len(ns) - 1) /\ (i - 1) + 1 = i
      BY <1>1, <3>1
    <3>3. ms[i - 1] = x
      BY <1>2, <3>1, <3>2
    <3>4. QED
      BY <1>2, <3>2, <3>3 DEF Range
  <2>3. ASSUME NEW x \in Range(ms) PROVE x \in heap'
    <3>1. PICK i \in 1..(Len(ns) - 1) : x = ns[i + 1]
      BY <1>2 DEF Range
    <3>2. i + 1 \in 1..Len(ns) /\ i + 1 # 1 /\ 1 \in 1..Len(ns)
      BY <1>1
    <3>3. QED
      BY <1>1, <1>4, <3>1, <3>2 DEF Range, IsInjective
  <2>4. QED
    BY <2>1, <2>2, <2>3
<1>7. CASE Len(ns) = 1
  <2>1. tail = ns[1] /\ ms = <<>> /\ next[ns[1]] = Null
    BY <1>1, <1>2, <1>7 DEF Chain
  <2>2. tail' = HeadCell /\ next'[HeadCell] = Null
    BY <1>4, <1>5, <2>1
  <2>3. Len(ms) = 0 /\ size' = 0
    BY <1>1, <1>2, <1>4, <1>7 DEF Chain
  <2>4. 1..Len(ms) = {} /\ 1..(Len(ms) - 1) = {}
    BY <2>3
  <2>5. Chain(ms)'
    BY <1>2, <1>6, <2>1, <2>2, <2>3, <2>4 DEF Chain
  <2>6. QED
    BY <1>3, <2>5 DEF ms
<1>8. CASE Len(ns) > 1
  <2>1. 1 \in 1..(Len(ns) - 1) /\ Len(ns) - 1 \in 1..(Len(ns) - 1) /\ Len(ns) \in 1..Len(ns)
        /\ (Len(ns) - 1) + 1 = Len(ns) /\ 1 \in 1..Len(ns) /\ 1 + 1 \in 1..Len(ns)
    BY <1>1, <1>8
  <2>2. ms # <<>> /\ next'[HeadCell] = ms[1]
    BY <1>1, <1>2, <1>5, <1>8, <2>1 DEF Chain
  <2>3. tail = ns[Len(ns)] /\ tail # ns[1] /\ tail' = tail /\ tail' = ms[Len(ms)]
    BY <1>1, <1>2, <1>4, <1>8, <2>1 DEF Chain, IsInjective
  <2>4. next'[tail'] = Null
    BY <1>1, <1>5, <2>1, <2>3 DEF Chain
  <2>5. ASSUME NEW i \in 1..(Len(ms) - 1) PROVE next'[ms[i]] = ms[i + 1]
    <3>1. /\ i \in 1..(Len(ns) - 1) /\ i + 1 \in 1..(Len(ns) - 1) /\ i + 1 \in 1..Len(ns)
      BY <1>1, <1>2
    <3>2. ms[i] = ns[i + 1] /\ ms[i + 1] = ns[(i + 1) + 1]
      BY <1>2, <3>1
    <3>3. next[ns[i + 1]] = ns[(i + 1) + 1]
      BY <3>1 DEF Chain
    <3>4. QED
      BY <1>1, <1>5, <3>1, <3>2, <3>3
  <2>6. \A i \in 1..Len(ms) : data'[ms[i]] \in Value
    BY <1>1, <1>2, <1>4 DEF Chain
  <2>7. size' = Len(ms)
    BY <1>2, <1>4 DEF Chain
  <2>8. Chain(ms)'
    BY <1>2, <1>6, <2>2, <2>3, <2>4, <2>5, <2>6, <2>7 DEF Chain
  <2>9. QED
    BY <1>3, <2>8 DEF ms
<1>9. QED
  BY <1>1, <1>7, <1>8

\* The next pointers, the tail and the counter of a list say the same of it.
LEMMA ChainWellLinked ==
  ASSUME NEW ns, Chain(ns)
  PROVE  WellLinked
<1>1. ns \in Seq(Cell) /\ Len(ns) \in Nat /\ DOMAIN ns = 1..Len(ns)
      /\ (ns = <<>> <=> Len(ns) = 0) /\ \A i \in 1..Len(ns) : ns[i] \in Cell
  BY LenProperties, EmptySeq DEF Chain
<1>2. Nodes = ns /\ Cardinality(heap) = Len(ns)
  BY NodesAre, ChainLength
<1>3. heap = {ns[i] : i \in DOMAIN ns}
  BY DEF Chain, Range
<1>4. IsEmpty <=> Peek = NoValue
  <2>1. CASE ns = <<>>
    BY <2>1 DEF Chain, IsEmpty, Peek
  <2>2. CASE ns # <<>>
    <3>1. 1 \in 1..Len(ns) /\ Len(ns) \in 1..Len(ns)
      BY <1>1, <2>2
    <3>2. tail = ns[Len(ns)] /\ tail # HeadCell
      BY <1>1, <2>2, <3>1, QueueAssumption DEF Chain
    <3>3. next[HeadCell] = ns[1] /\ ns[1] # Null /\ data[ns[1]] # NoValue
      BY <1>1, <2>2, <3>1, QueueAssumption DEF Chain, Node
    <3>4. QED
      BY <3>2, <3>3 DEF IsEmpty, Peek
  <2>3. QED
    BY <2>1, <2>2
<1>5. QED
  BY <1>2, <1>3, <1>4 DEF WellLinked, Chain

-----------------------------------------------------------------------------
\* What a step makes of the list: it appends a node that was not in it, takes
\* the first one, or leaves it alone.
Moves(ns, ms) ==
  \/ \E v \in Value, n \in Cell :
       /\ n \notin Range(ns) /\ ms = Append(ns, n)
       /\ data' = [data EXCEPT ![n] = v] /\ taken' = taken
  \/ ns # <<>> /\ ms = Tail(ns) /\ taken' = data[ns[1]] /\ data' = data
  \/ ms = ns /\ data' = data /\ taken' = taken

\* Every step of the queue is such a move, to a list that is again a chain.
LEMMA StepMoves ==
  ASSUME QueueTypeOK, NEW ns, Chain(ns), [QueueNext]_queueVars
  PROVE  QueueTypeOK' /\ \E ms : Chain(ms)' /\ Moves(ns, ms)
<1>1. HeadCell \in Node /\ Cell \subseteq Node /\ Null \notin Node
  BY QueueAssumption DEF Node
<1>2. ASSUME NEW v \in Value, QueuePush(v)
      PROVE  QueueTypeOK' /\ \E ms : Chain(ms)' /\ Moves(ns, ms)
  <2>1. PICK n \in Cell \ heap : heap' = heap \cup {n} /\ Link(n, v) /\ tail' = n
    BY <1>2 DEF QueuePush
  <2>2. size' = size + 1 /\ taken' = taken /\ clearing' = clearing
    BY <1>2 DEF QueuePush
  <2>3. Chain(Append(ns, n))'
    BY <2>1, <2>2, PushChain
  <2>4. Moves(ns, Append(ns, n))
    BY <2>1, <2>2 DEF Moves, Link, Chain
  <2>5. QueueTypeOK'
    BY <1>1, <2>1, <2>2 DEF QueueTypeOK, Link
  <2>6. QED
    BY <2>3, <2>4, <2>5
<1>3. ASSUME next[HeadCell] # Null, Remove(next[HeadCell]), clearing' = clearing
      PROVE  QueueTypeOK' /\ \E ms : Chain(ms)' /\ Moves(ns, ms)
  <2>1. ns # <<>>
    BY <1>3 DEF Chain
  <2>2. next[HeadCell] = ns[1] /\ Chain(Tail(ns))'
    BY <1>3, <2>1, RemoveChain
  <2>3. Moves(ns, Tail(ns))
    BY <1>3, <2>1, <2>2 DEF Moves, Remove
  <2>4. QueueTypeOK'
    <3>1. ns[1] \in Cell /\ 1 \in 1..Len(ns) /\ size = Len(ns) /\ Len(ns) \in Nat
      BY <2>1, LenProperties, EmptySeq DEF Chain
    <3>2. size - 1 \in Nat
      BY <3>1
    <3>3. QED
      BY <1>1, <1>3, <2>2, <3>1, <3>2 DEF QueueTypeOK, Remove, Unlink
  <2>5. QED
    BY <2>2, <2>3, <2>4
<1>4. ASSUME UNCHANGED <<next, data, tail, size, heap, taken>>, clearing' \in BOOLEAN
      PROVE  QueueTypeOK' /\ \E ms : Chain(ms)' /\ Moves(ns, ms)
  <2>1. Chain(ns)' /\ Moves(ns, ns)
    BY <1>4 DEF Chain, Moves
  <2>2. QueueTypeOK'
    BY <1>4 DEF QueueTypeOK
  <2>3. QED
    BY <2>1, <2>2
<1>5. CASE QueuePop
  BY <1>3, <1>5 DEF QueuePop
<1>6. CASE QueueClear
  BY <1>4, <1>6 DEF QueueClear
<1>7. CASE ClearNext
  BY <1>3, <1>4, <1>7 DEF ClearNext
<1>8. CASE UNCHANGED queueVars
  BY <1>4, <1>8 DEF queueVars, QueueTypeOK
<1>9. QED
  BY <1>2, <1>5, <1>6, <1>7, <1>8 DEF QueueNext

\* queue_init makes the empty list.
LEMMA QueueInitInv ==
  ASSUME QueueInit
  PROVE  QueueTypeOK /\ Chain(<<>>)
<1>1. HeadCell \in Node
  BY DEF Node
<1>2. QueueTypeOK
  BY <1>1 DEF QueueInit, QueueTypeOK
<1>3. <<>> \in Seq(Cell) /\ Len(<<>>) = 0 /\ DOMAIN <<>> = {}
  BY EmptySeq, LenProperties
<1>4. IsInjective(<<>>) /\ Range(<<>>) = {}
  BY <1>3 DEF IsInjective, Range
<1>5. 1..Len(<<>>) = {} /\ 1..(Len(<<>>) - 1) = {}
  BY <1>3
<1>6. Chain(<<>>)
  BY <1>1, <1>3, <1>4, <1>5 DEF QueueInit, Chain
<1>7. QED
  BY <1>2, <1>6

\* The list is a chain of allocated nodes in every reachable state, for every
\* finite number of nodes and however malloc reuses the ones queue_pop frees.
THEOREM Chained == QueueSpec => []ListInv
<1>1. QueueInit => ListInv
  BY QueueInitInv DEF ListInv
<1>2. ListInv /\ [QueueNext]_queueVars => ListInv'
  <2> SUFFICES ASSUME ListInv, [QueueNext]_queueVars PROVE ListInv'
    OBVIOUS
  <2>1. PICK ns : Chain(ns)
    BY DEF ListInv
  <2>2. QueueTypeOK' /\ \E ms : Chain(ms)'
    BY <2>1, StepMoves DEF ListInv
  <2>3. QED
    BY <2>2 DEF ListInv
<1>3. QED
  BY <1>1, <1>2, PTL DEF QueueSpec

\* The links, the tail and the counter agree, no node is lost, and none is used
\* after it was freed: WellLinked, which the run checks for four nodes.
THEOREM Linked == QueueSpec => []WellLinked
<1>1. ListInv => WellLinked
  BY ChainWellLinked DEF ListInv
<1>2. QED
  BY <1>1, Chained, PTL

-----------------------------------------------------------------------------
\* The lemma on Nodes for the state after a step.
LEMMA NodesAreNext ==
  ASSUME NEW ns
  PROVE  (Chain(ns) => Nodes = ns)'
<1>1. Chain(ns) => Nodes = ns
  BY NodesAre
<1>2. QED
  BY <1>1, PTL

\* A move of the list is a step of the FIFO queue of the values in its nodes.
LEMMA MovesFifo ==
  ASSUME QueueTypeOK, NEW ns, Chain(ns), NEW ms, Moves(ns, ms), Nodes = ns, Nodes' = ms
  PROVE  [Abstract!Next]_(Abstract!vars)
<1> DEFINE old == [i \in DOMAIN ns |-> data[ns[i]]]
           new == [i \in DOMAIN ms |-> data'[ms[i]]]
<1>1. /\ ns \in Seq(Cell) /\ Len(ns) \in Nat /\ DOMAIN ns = 1..Len(ns)
      /\ \A i \in 1..Len(ns) : ns[i] \in Cell /\ ns[i] \in Node /\ data[ns[i]] \in Value
      /\ (ns = <<>> <=> Len(ns) = 0)
  BY LenProperties, EmptySeq DEF Chain, Node
<1>2. old \in Seq(Value) /\ Len(old) = Len(ns) /\ \A i \in 1..Len(ns) : old[i] = data[ns[i]]
  <2>1. old \in [1..Len(ns) -> Value]
    BY <1>1
  <2>2. QED
    BY <1>1, <2>1, SeqDef, LenProperties
<1>3. ASSUME NEW v \in Value, NEW n \in Cell, n \notin Range(ns), ms = Append(ns, n),
             data' = [data EXCEPT ![n] = v]
      PROVE  new = Append(old, v)
  <2>1. /\ ms \in Seq(Cell) /\ DOMAIN ms = 1..(Len(ns) + 1) /\ ms[Len(ns) + 1] = n
        /\ \A i \in 1..Len(ns) : ms[i] = ns[i]
    BY <1>1, <1>3, AppendProperties, LenProperties
  <2>2. n \in Node /\ \A i \in 1..Len(ns) : ns[i] # n
    BY <1>1, <1>3 DEF Node, Range
  <2>3. data'[n] = v /\ \A i \in 1..Len(ns) : data'[ns[i]] = data[ns[i]]
    BY <1>1, <1>3, <2>2 DEF QueueTypeOK
  <2>4. \A i \in 1..(Len(ns) + 1) : data'[ms[i]] = IF i = Len(ns) + 1 THEN v ELSE old[i]
    BY <1>1, <1>2, <2>1, <2>3
  <2> HIDE DEF old
  <2>5. Append(old, v) = [i \in 1..(Len(ns) + 1) |-> IF i = Len(ns) + 1 THEN v ELSE old[i]]
    <3>1. PICK app : app = Append(old, v)
      OBVIOUS
    <3>2. /\ app \in Seq(Value) /\ Len(app) = Len(ns) + 1
          /\ \A i \in 1..Len(ns) : app[i] = old[i]
          /\ app[Len(ns) + 1] = v
      BY <1>2, <3>1, AppendProperties
    <3>3. app = [i \in 1..(Len(ns) + 1) |-> app[i]]
      BY <3>2, LenProperties
    <3>4. \A i \in 1..(Len(ns) + 1) : app[i] = IF i = Len(ns) + 1 THEN v ELSE old[i]
      BY <1>1, <3>2
    <3>5. QED
      BY <3>1, <3>3, <3>4
  <2>6. QED
    BY <2>1, <2>4, <2>5
<1>4. ASSUME ns # <<>>, ms = Tail(ns), data' = data
      PROVE  old # <<>> /\ old[1] = data[ns[1]] /\ new = Tail(old)
  <2>1. ms \in Seq(Cell) /\ DOMAIN ms = 1..(Len(ns) - 1) /\ \A i \in 1..(Len(ns) - 1) : ms[i] = ns[i + 1]
    BY <1>1, <1>4, HeadTailProperties, LenProperties
  <2>2. 1 \in 1..Len(ns) /\ \A i \in 1..(Len(ns) - 1) : i + 1 \in 1..Len(ns)
    BY <1>1, <1>4
  <2>3. \A i \in 1..(Len(ns) - 1) : data'[ms[i]] = old[i + 1]
    BY <1>2, <1>4, <2>1, <2>2
  <2>4. old[1] = data[ns[1]]
    BY <1>2, <2>2
  <2> HIDE DEF old
  <2>5. old # <<>>
    BY <1>1, <1>2, <1>4, EmptySeq
  <2>6. Tail(old) = [i \in 1..(Len(ns) - 1) |-> old[i + 1]]
    <3>1. PICK rest : rest = Tail(old)
      OBVIOUS
    <3>2. /\ rest \in Seq(Value) /\ Len(rest) = Len(ns) - 1
          /\ \A i \in 1..(Len(ns) - 1) : rest[i] = old[i + 1]
      BY <1>2, <2>5, <3>1, HeadTailProperties
    <3>3. rest = [i \in 1..(Len(ns) - 1) |-> rest[i]]
      BY <3>2, LenProperties
    <3>4. QED
      BY <3>1, <3>2, <3>3
  <2>7. QED
    BY <2>1, <2>3, <2>4, <2>5, <2>6
<1>5. CASE \E v \in Value, n \in Cell :
             /\ n \notin Range(ns) /\ ms = Append(ns, n)
             /\ data' = [data EXCEPT ![n] = v] /\ taken' = taken
  <2>1. PICK v \in Value : new = Append(old, v) /\ taken' = taken
    BY <1>3, <1>5
  <2>2. Abstract!Put(v)
    BY <2>1 DEF Abstract!Put
  <2>3. QED
    BY <2>2 DEF Abstract!Next
<1>6. CASE ns # <<>> /\ ms = Tail(ns) /\ taken' = data[ns[1]] /\ data' = data
  <2>1. Abstract!Take
    BY <1>4, <1>6 DEF Abstract!Take
  <2>2. QED
    BY <2>1 DEF Abstract!Next
<1>7. CASE ms = ns /\ data' = data /\ taken' = taken
  BY <1>7 DEF Abstract!vars
<1>8. QED
  BY <1>5, <1>6, <1>7 DEF Moves

\* queue.c implements the FIFO queue: elements leave in the order in which they
\* were pushed, each of them once, through queue_pop or through queue_clear.
THEOREM ImplementsFifo == QueueSpec => FifoSpec
<1>1. QueueInit => Abstract!Init
  <2> SUFFICES ASSUME QueueInit PROVE Abstract!Init
    OBVIOUS
  <2>1. Nodes = <<>> /\ taken = NoValue
    BY QueueInitInv, NodesAre DEF QueueInit
  <2>2. QED
    BY <2>1 DEF Abstract!Init
<1>2. ListInv /\ [QueueNext]_queueVars => [Abstract!Next]_(Abstract!vars)
  <2> SUFFICES ASSUME ListInv, [QueueNext]_queueVars PROVE [Abstract!Next]_(Abstract!vars)
    OBVIOUS
  <2>1. PICK ns : Chain(ns)
    BY DEF ListInv
  <2>2. PICK ms : Chain(ms)' /\ Moves(ns, ms)
    BY <2>1, StepMoves DEF ListInv
  <2>3. Nodes = ns /\ Nodes' = ms
    BY <2>1, <2>2, NodesAre, NodesAreNext
  <2>4. QED
    BY <2>1, <2>2, <2>3, MovesFifo DEF ListInv
<1>3. QED
  BY <1>1, <1>2, Chained, PTL DEF QueueSpec, FifoSpec, Abstract!Spec

=============================================================================

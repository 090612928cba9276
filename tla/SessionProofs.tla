--------------------------- MODULE SessionProofs ----------------------------
(***************************************************************************)
(* Proofs about Session, for any sessions, threads and jobs.  What depends *)
(* on the references holds until the first call of close: close followed   *)
(* by the collection of the handle drops one reference twice.              *)
(***************************************************************************)
EXTENDS Session, FiniteSetTheorems, TLAPS

\* What the frames of a thread hold in each phase.
Frames ==
  /\ \A w \in Worker :
       /\ pc[w] \in {"idle", "hung"} <=> on[w] = NoSession
       /\ pc[w] = "task" <=> job[w] # NoJob
  /\ \A t \in Thread :
       /\ cpc[t] \in {"idle", "hung"} <=> con[t] = NoSession
       /\ cpc[t] = "push" => cjob[t] # NoJob /\ SidOf[cjob[t]] = con[t]

\* A session in the registry has a reference.
Referenced == \A s \in Session : s \in sessions => ref[s] > 0

Shape == TypeOK /\ Frames /\ Referenced

\* session_free keeps the registry well formed.
LEMMA DropShape ==
  ASSUME Shape, NEW s \in Session, Drop(s)
  PROVE  /\ sessions' \in SUBSET Session /\ ref' \in [Session -> Nat]
         /\ locked' \in BOOLEAN /\ tasks' \in [Session -> Seq(Job)]
         /\ Referenced'
<1>1. /\ sessions \in SUBSET Session /\ ref \in [Session -> Nat]
      /\ tasks \in [Session -> Seq(Job)] /\ Referenced
  BY DEF Shape, TypeOK
<1>2. locked' \in BOOLEAN
  BY DEF Drop, Hangs
<1>3. CASE s \in sessions /\ ref[s] =< 1
  BY <1>1, <1>2, <1>3 DEF Drop, LastRef, Referenced
<1>4. CASE s \in sessions /\ ref[s] > 1
  BY <1>1, <1>2, <1>4 DEF Drop, LastRef, Referenced
<1>5. CASE s \notin sessions
  BY <1>1, <1>2, <1>5 DEF Drop, LastRef, Referenced
<1>6. QED
  BY <1>1, <1>3, <1>4, <1>5

\* session_ref keeps the registry well formed.
LEMMA RefShape ==
  ASSUME Shape, NEW s \in Session, Ref(s)
  PROVE  /\ ref' \in [Session -> Nat] /\ Referenced'
         /\ UNCHANGED <<sessions, handle, closes, locked>>
  BY DEF Shape, TypeOK, Referenced, Ref

\* Every step of every thread keeps the types, the contents of the frames and
\* a positive count in the registry.
LEMMA StepShape == Shape /\ [Next]_vars => Shape'
<1> SUFFICES ASSUME Shape, [Next]_vars PROVE Shape'
  OBVIOUS
<1> USE SessionAssumption DEF Shape, RunPhase, CallPhase, Thread
<1>1. ASSUME NEW t \in Thread, NEW s \in Session, Create(t, s) PROVE Shape'
  <2> USE <1>1 DEF Create, queues, runs, calls
  <2>1. TypeOK'
    BY DEF TypeOK, Frames
  <2>2. Frames'
    BY DEF TypeOK, Frames
  <2>3. Referenced'
    BY DEF TypeOK, Referenced
  <2>4. QED
    BY <2>1, <2>2, <2>3
<1>2. ASSUME NEW t \in Thread, NEW s \in Session, Collect(t, s) PROVE Shape'
  <2>1. s \in Session /\ Drop(s)
    BY <1>2 DEF Collect
  <2>2. /\ sessions' \in SUBSET Session /\ ref' \in [Session -> Nat]
        /\ locked' \in BOOLEAN /\ tasks' \in [Session -> Seq(Job)]
        /\ Referenced' /\ UNCHANGED <<status, sem, pool>>
    BY <2>1, DropShape DEF Drop
  <2>3. PICK p \in {"hung", "idle"} : cpc' = [cpc EXCEPT ![t] = p]
    BY <1>2 DEF Collect, CallAfter
  <2>4. TypeOK'
    BY <1>2, <2>2, <2>3 DEF Collect, TypeOK, runs
  <2>5. Frames'
    BY <1>2, <2>3 DEF Collect, Owns, InLua, TypeOK, Frames, runs
  <2>6. QED
    BY <2>2, <2>4, <2>5
<1>3. ASSUME NEW t \in Thread, NEW s \in Session, Close(t, s) PROVE Shape'
  <2>1. s \in Session /\ Drop(s)
    BY <1>3 DEF Close
  <2>2. /\ sessions' \in SUBSET Session /\ ref' \in [Session -> Nat]
        /\ locked' \in BOOLEAN /\ tasks' \in [Session -> Seq(Job)]
        /\ Referenced' /\ UNCHANGED <<status, sem, pool>>
    BY <2>1, DropShape DEF Drop
  <2>3. PICK p \in {"hung", "idle"} : cpc' = [cpc EXCEPT ![t] = p]
    BY <1>3 DEF Close, CallAfter
  <2>a. closes' \in [Session -> 0..MaxCloses]
    BY <1>3 DEF Close, TypeOK
  <2>4. TypeOK'
    BY <1>3, <2>a, <2>2, <2>3 DEF Close, TypeOK, runs
  <2>5. Frames'
    BY <1>3, <2>3 DEF Close, Owns, InLua, TypeOK, Frames, runs
  <2>6. QED
    BY <2>2, <2>4, <2>5
<1>4. ASSUME NEW t \in Thread, NEW k \in Job, QueueRef(t, k) PROVE Shape'
  <2>1. SidOf[k] \in Session
    OBVIOUS
  <2>2. CASE SidOf[k] \in sessions
    <3>1. /\ Ref(SidOf[k])
          /\ cpc' = [cpc EXCEPT ![t] = "push"]
          /\ con' = [con EXCEPT ![t] = SidOf[k]]
          /\ cjob' = [cjob EXCEPT ![t] = k]
      BY <1>4, <2>2 DEF QueueRef
    <3>2. /\ ref' \in [Session -> Nat] /\ Referenced'
          /\ UNCHANGED <<sessions, handle, closes, locked>>
      BY <2>1, <3>1, RefShape
    <3>3. TypeOK'
      BY <1>4, <2>1, <3>1, <3>2 DEF QueueRef, TypeOK, queues, runs
    <3>4. Frames'
      BY <1>4, <2>1, <3>1 DEF QueueRef, TypeOK, Frames, runs
    <3>5. QED
      BY <3>2, <3>3, <3>4
  <2>3. CASE SidOf[k] \notin sessions
    <3>1. UNCHANGED <<registry, queues, runs, cpc, con, cjob, fault>> /\ todo' = todo \ {k}
      BY <1>4, <2>3 DEF QueueRef
    <3>2. TypeOK'
      BY <3>1 DEF TypeOK, registry, queues, runs
    <3>3. Frames' /\ Referenced'
      BY <3>1 DEF Frames, Referenced, registry, runs
    <3>4. QED
      BY <3>2, <3>3
  <2>4. QED
    BY <2>2, <2>3
<1>5. ASSUME NEW t \in Thread, NEW s \in Session, WaitRef(t, s) PROVE Shape'
  <2>1. CASE s \in sessions
    <3>1. /\ Ref(s)
          /\ cpc' = [cpc EXCEPT ![t] = "wait"]
          /\ con' = [con EXCEPT ![t] = s]
          /\ UNCHANGED fault
      BY <1>5, <2>1 DEF WaitRef
    <3>2. /\ ref' \in [Session -> Nat] /\ Referenced'
          /\ UNCHANGED <<sessions, handle, closes, locked>>
      BY <3>1, RefShape
    <3>3. TypeOK'
      BY <1>5, <3>1, <3>2 DEF WaitRef, TypeOK, queues, runs
    <3>4. Frames'
      BY <1>5, <3>1 DEF WaitRef, TypeOK, Frames, runs
    <3>5. QED
      BY <3>2, <3>3, <3>4
  <2>2. CASE s \notin sessions
    <3>1. UNCHANGED <<registry, queues, runs, cpc, con, cjob, todo>> /\ fault' = "null"
      BY <1>5, <2>2 DEF WaitRef
    <3>2. TypeOK'
      BY <3>1 DEF TypeOK, registry, queues, runs
    <3>3. Frames' /\ Referenced'
      BY <3>1 DEF Frames, Referenced, registry, runs
    <3>4. QED
      BY <3>2, <3>3
  <2>3. QED
    BY <2>1, <2>2
<1>6. ASSUME NEW t \in Thread, QueuePush(t) PROVE Shape'
  <2>1. con[t] \in Session /\ cjob[t] \in Job
    BY <1>6 DEF QueuePush, TypeOK, Frames
  <2>2. /\ tasks' \in [Session -> Seq(Job)] /\ pool' \in Seq(Session)
        /\ fault' \in {"none", "freed", "null"}
    <3>1. tasks' \in [Session -> Seq(Job)]
      BY <1>6, <2>1 DEF QueuePush, TypeOK
    <3>2. pool' \in Seq(Session)
      BY <1>6, <2>1 DEF QueuePush, TypeOK
    <3>3. fault' \in {"none", "freed", "null"}
      BY <1>6 DEF QueuePush, Touch, TypeOK
    <3>4. QED
      BY <3>1, <3>2, <3>3
  <2>3. TypeOK'
    BY <1>6, <2>2 DEF QueuePush, TypeOK, registry, runs
  <2>4. Frames'
    BY <1>6 DEF QueuePush, TypeOK, Frames, runs
  <2>5. Referenced'
    BY <1>6 DEF QueuePush, Referenced, registry
  <2>6. QED
    BY <2>3, <2>4, <2>5
<1>7. ASSUME NEW t \in Thread, WaitDone(t) PROVE Shape'
  <2> USE <1>7 DEF WaitDone, Touch, registry, runs
  <2>1. TypeOK'
    <3>1. con[t] \in Session /\ sem' \in [Session -> Nat]
      BY DEF TypeOK, Frames
    <3>2. QED
      BY <3>1 DEF TypeOK
  <2>2. Frames'
    BY DEF TypeOK, Frames
  <2>3. Referenced'
    BY DEF TypeOK, Referenced
  <2>4. QED
    BY <2>1, <2>2, <2>3
<1>8. ASSUME NEW t \in Thread, CallFree(t) PROVE Shape'
  <2>1. con[t] \in Session /\ Drop(con[t])
    BY <1>8 DEF CallFree, TypeOK, Frames
  <2>2. /\ sessions' \in SUBSET Session /\ ref' \in [Session -> Nat]
        /\ locked' \in BOOLEAN /\ tasks' \in [Session -> Seq(Job)]
        /\ Referenced' /\ UNCHANGED <<status, sem, pool>>
    BY <2>1, DropShape DEF Drop
  <2>3. PICK p \in {"hung", "idle"} : cpc' = [cpc EXCEPT ![t] = p]
    BY <1>8 DEF CallFree, CallAfter
  <2>4. TypeOK'
    BY <1>8, <2>2, <2>3 DEF CallFree, TypeOK, runs
  <2>5. Frames'
    BY <1>8, <2>3 DEF CallFree, Owns, InLua, TypeOK, Frames, runs
  <2>6. QED
    BY <2>2, <2>4, <2>5
<1>9. ASSUME NEW w \in Worker, Take(w) PROVE Shape'
  <2> USE <1>9 DEF Take, registry, calls
  <2>1. TypeOK'
    <3>1. Head(pool) \in Session /\ pool' \in Seq(Session)
      BY DEF TypeOK
    <3>2. QED
      BY <3>1 DEF TypeOK
  <2>2. Frames'
    BY DEF TypeOK, Frames
  <2>3. Referenced'
    BY DEF TypeOK, Referenced
  <2>4. QED
    BY <2>1, <2>2, <2>3
<1>10. ASSUME NEW w \in Worker, RunRef(w) PROVE Shape'
  <2>1. on[w] \in Session
    BY <1>10 DEF RunRef, TypeOK, Frames
  <2>2. CASE on[w] \in sessions
    <3>1. Ref(on[w]) /\ pc' = [pc EXCEPT ![w] = "lock"] /\ UNCHANGED on
      BY <1>10, <2>2 DEF RunRef
    <3>2. /\ ref' \in [Session -> Nat] /\ Referenced'
          /\ UNCHANGED <<sessions, handle, closes, locked>>
      BY <2>1, <3>1, RefShape
    <3>3. TypeOK'
      BY <1>10, <3>1, <3>2 DEF RunRef, TypeOK, queues, calls
    <3>4. Frames'
      BY <1>10, <3>1 DEF RunRef, TypeOK, Frames, calls
    <3>5. QED
      BY <3>2, <3>3, <3>4
  <2>3. CASE on[w] \notin sessions
    <3>1. /\ pc' = [pc EXCEPT ![w] = "idle"] /\ on' = [on EXCEPT ![w] = NoSession]
          /\ UNCHANGED <<registry, queues, job, calls, fault>>
      BY <1>10, <2>3 DEF RunRef
    <3>2. TypeOK'
      BY <3>1 DEF TypeOK, registry, queues, calls
    <3>3. Frames'
      BY <1>10, <3>1 DEF RunRef, TypeOK, Frames, calls
    <3>4. Referenced'
      BY <3>1 DEF Referenced, registry
    <3>5. QED
      BY <3>2, <3>3, <3>4
  <2>4. QED
    BY <2>2, <2>3
<1>11. ASSUME NEW w \in Worker, RunLock(w) PROVE Shape'
  <2>1. on[w] \in Session /\ fault' \in {"none", "freed", "null"}
    BY <1>11 DEF RunLock, Touch, TypeOK, Frames
  <2>2. Referenced'
    BY <1>11 DEF RunLock, Referenced, registry
  <2>3. CASE status[on[w]] = "running"
    <3>1. /\ pc' = [pc EXCEPT ![w] = "free"] /\ UNCHANGED <<status, tasks, job>>
          /\ UNCHANGED <<registry, sem, pool, on, calls>>
      BY <1>11, <2>3 DEF RunLock, Running
    <3>2. TypeOK'
      BY <2>1, <3>1 DEF TypeOK, registry, calls
    <3>3. Frames'
      BY <1>11, <3>1 DEF RunLock, TypeOK, Frames, calls
    <3>4. QED
      BY <2>2, <3>2, <3>3
  <2>4. CASE status[on[w]] # "running" /\ tasks[on[w]] = <<>>
    <3>1. /\ pc' = [pc EXCEPT ![w] = "end"] /\ UNCHANGED <<tasks, job>>
          /\ status' = [status EXCEPT ![on[w]] = "running"]
          /\ UNCHANGED <<registry, sem, pool, on, calls>>
      BY <1>11, <2>4 DEF RunLock, Running
    <3>2. TypeOK'
      BY <2>1, <3>1 DEF TypeOK, registry, calls
    <3>3. Frames'
      BY <1>11, <3>1 DEF RunLock, TypeOK, Frames, calls
    <3>4. QED
      BY <2>2, <3>2, <3>3
  <2>5. CASE status[on[w]] # "running" /\ tasks[on[w]] # <<>>
    <3>1. /\ pc' = [pc EXCEPT ![w] = "task"]
          /\ job' = [job EXCEPT ![w] = Head(tasks[on[w]])]
          /\ tasks' = [tasks EXCEPT ![on[w]] = Tail(@)]
          /\ status' = [status EXCEPT ![on[w]] = "running"]
          /\ UNCHANGED <<registry, sem, pool, on, calls>>
      BY <1>11, <2>5 DEF RunLock, Running
    <3>2. Head(tasks[on[w]]) \in Job /\ tasks' \in [Session -> Seq(Job)]
      <4>1. tasks \in [Session -> Seq(Job)] /\ on[w] \in Session
        BY <2>1 DEF TypeOK
      <4>2. tasks[on[w]] \in Seq(Job) /\ tasks[on[w]] # <<>>
        BY <2>5, <4>1
      <4>3. Head(tasks[on[w]]) \in Job /\ Tail(tasks[on[w]]) \in Seq(Job)
        BY <4>2
      <4>4. QED
        BY <3>1, <4>1, <4>3
    <3>3. TypeOK'
      BY <2>1, <3>1, <3>2 DEF TypeOK, registry, calls
    <3>4. Frames'
      <4>1. /\ pc \in [Worker -> RunPhase] /\ job \in [Worker -> Job \cup {NoJob}]
            /\ pc[w] = "lock"
        BY <1>11 DEF RunLock, TypeOK
      <4>2. /\ pc'[w] = "task" /\ job'[w] \in Job
            /\ \A y \in Worker : y # w => pc'[y] = pc[y] /\ job'[y] = job[y]
        BY <3>1, <3>2, <4>1
      <4>3. UNCHANGED <<on, cpc, con, cjob>>
        BY <3>1 DEF calls
      <4>4. NoJob \notin Job
        BY SessionAssumption
      <4>5. QED
        BY <4>1, <4>2, <4>3, <4>4 DEF Frames
    <3>5. QED
      BY <2>2, <3>3, <3>4
  <2>6. QED
    BY <2>3, <2>4, <2>5
<1>12. ASSUME NEW w \in Worker, TaskDone(w) PROVE Shape'
  <2> USE <1>12 DEF TaskDone, registry, queues, calls
  <2>1. TypeOK'
    BY DEF TypeOK, Frames
  <2>2. Frames'
    BY DEF TypeOK, Frames
  <2>3. Referenced'
    BY DEF TypeOK, Referenced
  <2>4. QED
    BY <2>1, <2>2, <2>3
<1>13. ASSUME NEW w \in Worker, RunEnd(w) PROVE Shape'
  <2>1. on[w] \in Session /\ fault' \in {"none", "freed", "null"}
    BY <1>13 DEF RunEnd, Touch, TypeOK, Frames
  <2>2. sem' \in [Session -> Nat] /\ pool' \in Seq(Session)
    <3>1. CASE tasks[on[w]] = <<>>
      <4>1. sem' = [sem EXCEPT ![on[w]] = @ + 1] /\ UNCHANGED pool
        BY <1>13, <3>1 DEF RunEnd
      <4>2. QED
        BY <2>1, <4>1 DEF TypeOK
    <3>2. CASE tasks[on[w]] # <<>>
      <4>1. pool' = Append(pool, on[w]) /\ UNCHANGED sem
        BY <1>13, <3>2 DEF RunEnd
      <4>2. QED
        BY <2>1, <4>1 DEF TypeOK
    <3>3. QED
      BY <3>1, <3>2
  <2>3. TypeOK'
    BY <1>13, <2>1, <2>2 DEF RunEnd, TypeOK, registry, calls
  <2>4. Frames'
    BY <1>13 DEF RunEnd, TypeOK, Frames, calls
  <2>5. Referenced'
    BY <1>13 DEF RunEnd, Referenced, registry
  <2>6. QED
    BY <2>3, <2>4, <2>5
<1>14. ASSUME NEW w \in Worker, RunFree(w) PROVE Shape'
  <2>1. on[w] \in Session /\ Drop(on[w])
    BY <1>14 DEF RunFree, TypeOK, Frames
  <2>2. /\ sessions' \in SUBSET Session /\ ref' \in [Session -> Nat]
        /\ locked' \in BOOLEAN /\ tasks' \in [Session -> Seq(Job)]
        /\ Referenced' /\ UNCHANGED <<status, sem, pool>>
    BY <2>1, DropShape DEF Drop
  <2>3. PICK p \in {"hung", "idle"} : pc' = [pc EXCEPT ![w] = p]
    BY <1>14 DEF RunFree
  <2>4. TypeOK'
    BY <1>14, <2>2, <2>3 DEF RunFree, TypeOK, calls
  <2>5. Frames'
    BY <1>14, <2>3 DEF RunFree, TypeOK, Frames, calls
  <2>6. QED
    BY <2>2, <2>4, <2>5
<1>15. CASE UNCHANGED vars
  BY <1>15 DEF vars, TypeOK, Frames, Referenced, registry, queues, runs, calls
<1>16. QED
  BY <1>1, <1>2, <1>3, <1>4, <1>5, <1>6, <1>7, <1>8, <1>9, <1>10, <1>11, <1>12, <1>13,
     <1>14, <1>15 DEF Next, Begin, CallStep, RunStep

-----------------------------------------------------------------------------
\* The critical sections of session_run let one thread at a time into a
\* session: status is set before the lock is given back, and only the thread
\* that set it takes it back.
LEMMA StepOneRunner == Shape /\ OneRunner /\ [Next]_vars => OneRunner'
<1> SUFFICES ASSUME Shape, OneRunner, [Next]_vars PROVE OneRunner'
  OBVIOUS
<1> USE DEF Shape
<1>1. ASSUME UNCHANGED <<pc, on, status>> PROVE OneRunner'
  BY <1>1 DEF OneRunner, Runners, Runner
<1>2. ASSUME NEW t \in Thread, Begin(t) \/ CallStep(t) PROVE OneRunner'
  <2>1. UNCHANGED <<pc, on, status>>
    BY <1>2 DEF Begin, Create, Collect, Close, QueueRef, WaitRef, CallStep, QueuePush,
                WaitDone, CallFree, Drop, runs, queues
  <2>2. QED
    BY <1>1, <2>1
<1>3. ASSUME NEW w \in Worker, Take(w) \/ RunRef(w) \/ RunFree(w) PROVE OneRunner'
  <2>1. \A s \in Session : Runners(s)' = Runners(s)
    BY <1>3 DEF Take, RunRef, RunFree, Runners, Runner, TypeOK
  <2>2. UNCHANGED status
    BY <1>3 DEF Take, RunRef, RunFree, Drop, queues
  <2>3. QED
    BY <2>1, <2>2 DEF OneRunner
<1>4. ASSUME NEW w \in Worker, RunLock(w) PROVE OneRunner'
  <2>1. CASE status[on[w]] = "running"
    <3>1. pc' = [pc EXCEPT ![w] = "free"] /\ UNCHANGED <<status, on>>
      BY <1>4, <2>1 DEF RunLock
    <3>2. \A s \in Session : Runners(s)' = Runners(s)
      BY <1>4, <3>1 DEF RunLock, Runners, Runner, TypeOK
    <3>3. QED
      BY <3>1, <3>2 DEF OneRunner
  <2>2. CASE status[on[w]] # "running"
    <3>1. PICK p \in {"task", "end"} : pc' = [pc EXCEPT ![w] = p]
      BY <1>4, <2>2 DEF RunLock, Running
    <3>2. /\ status' = [status EXCEPT ![on[w]] = "running"] /\ UNCHANGED on
          /\ on[w] \in Session
      <4>1. status' = [status EXCEPT ![on[w]] = "running"] /\ UNCHANGED on
        BY <1>4, <2>2 DEF RunLock, Running
      <4>2. on[w] \in Session
        BY <1>4 DEF RunLock, Frames, TypeOK
      <4>3. QED
        BY <4>1, <4>2
    <3>3. Runners(on[w]) = {}
      BY <2>2, <3>2 DEF OneRunner
    <3>4. Runners(on[w])' = {w}
      BY <3>1, <3>2, <3>3 DEF Runners, Runner, TypeOK
    <3>5. \A s \in Session : s # on[w] => Runners(s)' = Runners(s)
      BY <3>1, <3>2 DEF Runners, Runner, TypeOK
    <3>6. \A s \in Session : s # on[w] => status'[s] = status[s]
      BY <3>2 DEF TypeOK
    <3>7. status'[on[w]] = "running"
      BY <3>2 DEF TypeOK
    <3>8. QED
      BY <3>2, <3>4, <3>5, <3>6, <3>7 DEF OneRunner
  <2>3. QED
    BY <2>1, <2>2
<1>5. ASSUME NEW w \in Worker, TaskDone(w) PROVE OneRunner'
  <2>1. \A s \in Session : Runners(s)' = Runners(s)
    BY <1>5 DEF TaskDone, Runners, Runner, TypeOK
  <2>2. QED
    BY <1>5, <2>1 DEF TaskDone, OneRunner, queues
<1>6. ASSUME NEW w \in Worker, RunEnd(w) PROVE OneRunner'
  <2>1. /\ pc' = [pc EXCEPT ![w] = "free"] /\ UNCHANGED on
        /\ status' = [status EXCEPT ![on[w]] = "ready"]
        /\ on[w] \in Session
    BY <1>6 DEF RunEnd, Frames, TypeOK
  <2>2. w \in Runners(on[w])
    BY <1>6 DEF RunEnd, Runners, Runner
  <2>3. Runners(on[w])' = {}
    BY <2>1, <2>2 DEF OneRunner, Runners, Runner, TypeOK
  <2>4. \A s \in Session : s # on[w] => Runners(s)' = Runners(s)
    BY <2>1 DEF Runners, Runner, TypeOK
  <2>5. /\ \A s \in Session : s # on[w] => status'[s] = status[s]
        /\ status'[on[w]] = "ready"
    BY <2>1 DEF TypeOK
  <2>6. QED
    BY <2>1, <2>3, <2>4, <2>5 DEF OneRunner
<1>7. CASE UNCHANGED vars
  BY <1>1, <1>7 DEF vars, runs, queues
<1>8. QED
  BY <1>2, <1>3, <1>4, <1>5, <1>6, <1>7 DEF Next, RunStep

-----------------------------------------------------------------------------
\* What holds of a session until it is closed: its count is that of its holders,
\* an id that was never given out is not in the registry, a destroyed session
\* has an empty queue.
Sound(s) ==
  /\ ref[s] = HandleRefs(s) + Cardinality(RunRefs(s)) + Cardinality(CallRefs(s))
  /\ s \in sessions <=> ref[s] > 0
  /\ handle[s] = "none" => s \notin sessions
  /\ s \notin sessions => tasks[s] = <<>>

\* The holders of references on a session are finitely many.
LEMMA FiniteHolders ==
  ASSUME NEW s \in Session
  PROVE  /\ IsFiniteSet(RunRefs(s)) /\ IsFiniteSet(CallRefs(s))
         /\ Cardinality(RunRefs(s)) \in Nat /\ Cardinality(CallRefs(s)) \in Nat
<1>1. IsFiniteSet(Thread)
  BY FS_Union, SessionAssumption DEF Thread
<1>2. RunRefs(s) \in SUBSET Worker /\ CallRefs(s) \in SUBSET Thread
  BY DEF RunRefs, CallRefs
<1>3. QED
  BY <1>1, <1>2, FS_Subset, FS_CardinalityType, SessionAssumption

\* A thread that holds a reference holds it on a session of the registry.
LEMMA HolderAlive ==
  ASSUME NEW s \in Session, Sound(s),
         handle[s] = "held" \/ RunRefs(s) # {} \/ CallRefs(s) # {}
  PROVE  s \in sessions
<1>1. Cardinality(RunRefs(s)) \in Nat /\ Cardinality(CallRefs(s)) \in Nat
  BY FiniteHolders
<1>2. RunRefs(s) # {} => Cardinality(RunRefs(s)) # 0
  BY FiniteHolders, FS_EmptySet
<1>3. CallRefs(s) # {} => Cardinality(CallRefs(s)) # 0
  BY FiniteHolders, FS_EmptySet
<1>4. ref[s] > 0
  BY <1>1, <1>2, <1>3 DEF Sound, HandleRefs
<1>5. QED
  BY <1>4 DEF Sound

\* When the holders of a session stay as many and so does its count, Sound is
\* kept.
LEMMA SameHolders ==
  ASSUME NEW s \in Session, Sound(s),
         ref'[s] = ref[s], s \in sessions' <=> s \in sessions, handle'[s] = handle[s],
         s \in sessions \/ tasks'[s] = tasks[s],
         Cardinality(RunRefs(s))' = Cardinality(RunRefs(s)),
         Cardinality(CallRefs(s))' = Cardinality(CallRefs(s))
  PROVE  Sound(s)'
  BY DEF Sound, HandleRefs

\* One more thread holds session s, and session_ref has counted it.
LEMMA OneMore ==
  ASSUME Shape, NEW s \in Session, Sound(s), Ref(s),
         Cardinality(RunRefs(s))' + Cardinality(CallRefs(s))'
           = Cardinality(RunRefs(s)) + Cardinality(CallRefs(s)) + 1,
         Cardinality(RunRefs(s))' \in Nat, Cardinality(CallRefs(s))' \in Nat
  PROVE  Sound(s)'
<1> DEFINE r == Cardinality(RunRefs(s))
           c == Cardinality(CallRefs(s))
           h == HandleRefs(s)
           rr == Cardinality(RunRefs(s))'
           cc == Cardinality(CallRefs(s))'
           hh == HandleRefs(s)'
<1>1. UNCHANGED <<sessions, handle>> /\ s \in sessions /\ ref'[s] = ref[s] + 1 /\ ref[s] \in Nat
  BY DEF Ref, Shape, TypeOK
<1>2. hh = h /\ h \in Nat
  BY <1>1 DEF HandleRefs
<1>3. /\ ref[s] = h + r + c
      /\ r \in Nat /\ c \in Nat /\ rr \in Nat /\ cc \in Nat /\ rr + cc = r + c + 1
  BY FiniteHolders DEF Sound
<1>4. ref'[s] = hh + rr + cc /\ ref'[s] > 0
  <2> HIDE DEF r, c, h, rr, cc, hh
  <2>1. QED
    BY <1>1, <1>2, <1>3
<1>5. QED
  BY <1>1, <1>4 DEF Sound

\* A holder of session s has let go of it, and session_free has counted that:
\* the session is destroyed exactly when nobody is left.
LEMMA OneLess ==
  ASSUME Shape, NEW s \in Session, Sound(s), s \in sessions, Drop(s),
         handle'[s] = "none" <=> handle[s] = "none",
         HandleRefs(s)' + Cardinality(RunRefs(s))' + Cardinality(CallRefs(s))' + 1
           = HandleRefs(s) + Cardinality(RunRefs(s)) + Cardinality(CallRefs(s)),
         Cardinality(RunRefs(s))' \in Nat, Cardinality(CallRefs(s))' \in Nat
  PROVE  Sound(s)'
<1> DEFINE r == Cardinality(RunRefs(s))
           c == Cardinality(CallRefs(s))
           h == HandleRefs(s)
           rr == Cardinality(RunRefs(s))'
           cc == Cardinality(CallRefs(s))'
           hh == HandleRefs(s)'
<1>1. /\ ref'[s] = ref[s] - 1 /\ ref[s] \in Nat
      /\ s \in sessions' <=> ref[s] > 1
      /\ s \notin sessions' => tasks'[s] = <<>>
  BY DEF Drop, LastRef, Shape, TypeOK
<1>2. h \in Nat /\ hh \in Nat
  BY DEF HandleRefs
<1>3. /\ ref[s] = h + r + c /\ hh + rr + cc + 1 = h + r + c
      /\ r \in Nat /\ c \in Nat /\ rr \in Nat /\ cc \in Nat
  BY FiniteHolders DEF Sound
<1>4. ref'[s] = hh + rr + cc
  <2> HIDE DEF r, c, h, rr, cc, hh
  <2>1. QED
    BY <1>1, <1>2, <1>3
<1>5. ref'[s] > 0 <=> s \in sessions'
  BY <1>1
<1>6. handle'[s] # "none"
  BY DEF Sound
<1>7. QED
  BY <1>1, <1>4, <1>5, <1>6 DEF Sound

\* The number of call frames that hold session s grows by the thread that
\* enters one, and shrinks by the thread that leaves it.
LEMMA CallEnter ==
  ASSUME Shape, NEW t \in Thread, NEW s \in Session, NEW p \in {"push", "wait"},
         cpc[t] = "idle", cpc' = [cpc EXCEPT ![t] = p], con' = [con EXCEPT ![t] = s]
  PROVE  \A u \in Session :
           /\ Cardinality(CallRefs(u))' = Cardinality(CallRefs(u)) + (IF u = s THEN 1 ELSE 0)
           /\ Cardinality(CallRefs(u))' \in Nat
<1>1. con[t] = NoSession
  BY DEF Shape, Frames
<1>2. t \notin CallRefs(s) /\ CallRefs(s)' = CallRefs(s) \cup {t}
  BY <1>1, SessionAssumption DEF CallRefs, Shape, TypeOK
<1>3. \A u \in Session : u # s => CallRefs(u)' = CallRefs(u)
  BY <1>1, SessionAssumption DEF CallRefs, Shape, TypeOK
<1>4. Cardinality(CallRefs(s))' = Cardinality(CallRefs(s)) + 1
  BY <1>2, FiniteHolders, FS_AddElement
<1>5. QED
  BY <1>3, <1>4, FiniteHolders

\* See CallEnter.
LEMMA CallLeave ==
  ASSUME Shape, NEW t \in Thread, NEW s \in Session, NEW p \in {"idle", "hung"},
         con[t] = s, cpc' = [cpc EXCEPT ![t] = p], con' = [con EXCEPT ![t] = NoSession]
  PROVE  \A u \in Session :
           /\ Cardinality(CallRefs(u))' + (IF u = s THEN 1 ELSE 0) = Cardinality(CallRefs(u))
           /\ Cardinality(CallRefs(u))' \in Nat
<1>1. cpc[t] \notin {"idle", "hung"}
  BY SessionAssumption DEF Shape, Frames
<1>2. t \in CallRefs(s) /\ CallRefs(s)' = CallRefs(s) \ {t}
  BY <1>1, SessionAssumption DEF CallRefs, Shape, TypeOK
<1>3. \A u \in Session : u # s => CallRefs(u)' = CallRefs(u)
  BY SessionAssumption DEF CallRefs, Shape, TypeOK
<1>4. /\ Cardinality(CallRefs(s))' = Cardinality(CallRefs(s)) - 1
      /\ Cardinality(CallRefs(s))' \in Nat
  <2>1. IsFiniteSet(CallRefs(s)) /\ IsFiniteSet(CallRefs(s)')
    BY <1>2, FiniteHolders, FS_RemoveElement
  <2>2. QED
    BY <1>2, <2>1, FS_RemoveElement, FS_CardinalityType
<1>5. QED
  BY <1>3, <1>4, FiniteHolders

\* The frames of session_run that hold session s, likewise.
LEMMA RunEnter ==
  ASSUME Shape, NEW w \in Worker, NEW s \in Session, pc[w] = "ref", on[w] = s,
         pc' = [pc EXCEPT ![w] = "lock"], UNCHANGED on
  PROVE  \A u \in Session :
           /\ Cardinality(RunRefs(u))' = Cardinality(RunRefs(u)) + (IF u = s THEN 1 ELSE 0)
           /\ Cardinality(RunRefs(u))' \in Nat
<1>1. w \notin RunRefs(s) /\ RunRefs(s)' = RunRefs(s) \cup {w}
  BY DEF RunRefs, Shape, TypeOK
<1>2. \A u \in Session : u # s => RunRefs(u)' = RunRefs(u)
  BY DEF RunRefs, Shape, TypeOK
<1>3. Cardinality(RunRefs(s))' = Cardinality(RunRefs(s)) + 1
  BY <1>1, FiniteHolders, FS_AddElement
<1>4. QED
  BY <1>2, <1>3, FiniteHolders

\* See RunEnter.
LEMMA RunLeave ==
  ASSUME Shape, NEW w \in Worker, NEW s \in Session, pc[w] = "free", on[w] = s,
         NEW p \in {"idle", "hung"},
         pc' = [pc EXCEPT ![w] = p], on' = [on EXCEPT ![w] = NoSession]
  PROVE  \A u \in Session :
           /\ Cardinality(RunRefs(u))' + (IF u = s THEN 1 ELSE 0) = Cardinality(RunRefs(u))
           /\ Cardinality(RunRefs(u))' \in Nat
<1>1. w \in RunRefs(s) /\ RunRefs(s)' = RunRefs(s) \ {w}
  BY SessionAssumption DEF RunRefs, Shape, TypeOK
<1>2. \A u \in Session : u # s => RunRefs(u)' = RunRefs(u)
  BY SessionAssumption DEF RunRefs, Shape, TypeOK
<1>3. /\ Cardinality(RunRefs(s))' = Cardinality(RunRefs(s)) - 1
      /\ Cardinality(RunRefs(s))' \in Nat
  <2>1. IsFiniteSet(RunRefs(s)) /\ IsFiniteSet(RunRefs(s)')
    BY <1>1, FiniteHolders, FS_RemoveElement
  <2>2. QED
    BY <1>1, <2>1, FS_RemoveElement, FS_CardinalityType
<1>4. QED
  BY <1>2, <1>3, FiniteHolders

\* What was closed stays closed.
LEMMA StepUnclosed ==
  ASSUME Shape, [Next]_vars, NEW s \in Unclosed'
  PROVE  s \in Unclosed
<1>1. CASE UNCHANGED closes
  BY <1>1 DEF Unclosed
<1>2. ASSUME NEW t \in Thread, NEW u \in Session, Close(t, u) PROVE s \in Unclosed
  BY <1>2 DEF Close, Unclosed, Shape, TypeOK
<1>3. ASSUME NEW t \in Thread, NEW u \in Session, Create(t, u) \/ Collect(t, u) \/ WaitRef(t, u)
      PROVE  s \in Unclosed
  BY <1>1, <1>3 DEF Create, Collect, WaitRef, Ref, registry
<1>4. ASSUME NEW t \in Thread, (\E k \in Job : QueueRef(t, k)) \/ CallStep(t)
      PROVE  s \in Unclosed
  BY <1>1, <1>4 DEF QueueRef, CallStep, QueuePush, WaitDone, CallFree, Ref, registry
<1>5. ASSUME NEW w \in Worker, RunStep(w) PROVE s \in Unclosed
  BY <1>1, <1>5 DEF RunStep, Take, RunRef, RunLock, TaskDone, RunEnd, RunFree, Ref, registry
<1>6. CASE UNCHANGED vars
  BY <1>1, <1>6 DEF vars, registry
<1>7. QED
  BY <1>2, <1>3, <1>4, <1>5, <1>6 DEF Next, Begin

\* session_free of another session leaves this one alone.
LEMMA DropOther ==
  ASSUME Shape, NEW s \in Session, NEW u \in Session, u # s, Drop(u)
  PROVE  ref'[s] = ref[s] /\ (s \in sessions' <=> s \in sessions) /\ tasks'[s] = tasks[s]
  BY DEF Drop, Shape, TypeOK

\* session_ref of another session does.
LEMMA RefOther ==
  ASSUME Shape, NEW s \in Session, NEW u \in Session, u # s, Ref(u)
  PROVE  ref'[s] = ref[s] /\ UNCHANGED <<sessions, handle>>
  BY DEF Ref, Shape, TypeOK

\* Every step keeps a session sound that is not closed.  Taking a reference and
\* counting it is one critical section, letting one go and counting that is
\* another, and between the two the holder keeps the session alive.
LEMMA StepSound ==
  ASSUME Shape, [Next]_vars, NEW s \in Session, s \in Unclosed', Sound(s)
  PROVE  Sound(s)'
<1>0. ASSUME UNCHANGED <<sessions, ref, handle, tasks>>,
             RunRefs(s)' = RunRefs(s), CallRefs(s)' = CallRefs(s)
      PROVE  Sound(s)'
  BY <1>0, SameHolders
<1>a. UNCHANGED <<pc, on>> => RunRefs(s)' = RunRefs(s)
  BY DEF RunRefs
<1>b. UNCHANGED <<cpc, con>> => CallRefs(s)' = CallRefs(s)
  BY DEF CallRefs
<1>1. ASSUME NEW t \in Thread, NEW u \in Session, Create(t, u) PROVE Sound(s)'
  <2>1. /\ sessions' = sessions \cup {u} /\ ref' = [ref EXCEPT ![u] = 1]
        /\ handle[u] = "none" /\ handle' = [handle EXCEPT ![u] = "held"]
        /\ UNCHANGED <<tasks, pc, on, cpc, con>>
    BY <1>1 DEF Create, queues, runs, calls
  <2>2. RunRefs(s)' = RunRefs(s) /\ CallRefs(s)' = CallRefs(s)
    BY <2>1 DEF RunRefs, CallRefs
  <2>3. CASE u = s
    <3>1. s \notin sessions /\ ref[s] = 0
      BY <2>1, <2>3 DEF Sound, Shape, TypeOK
    <3>2. Cardinality(RunRefs(s)) = 0 /\ Cardinality(CallRefs(s)) = 0
      BY <2>1, <2>3, <3>1, FiniteHolders DEF Sound, HandleRefs
    <3>3. HandleRefs(s)' = 1 /\ handle'[s] = "held" /\ ref'[s] = 1 /\ s \in sessions'
      BY <2>1, <2>3 DEF HandleRefs, Shape, TypeOK
    <3>4. QED
      BY <2>2, <3>2, <3>3 DEF Sound
  <2>4. CASE u # s
    <3>1. handle'[s] = handle[s] /\ ref'[s] = ref[s] /\ (s \in sessions' <=> s \in sessions)
      BY <2>1, <2>4 DEF Shape, TypeOK
    <3>2. QED
      BY <2>1, <2>2, <3>1, SameHolders
  <2>5. QED
    BY <2>3, <2>4
<1>2. ASSUME NEW t \in Thread, NEW u \in Session, Collect(t, u) PROVE Sound(s)'
  <2>1. /\ handle[u] = "held" /\ handle' = [handle EXCEPT ![u] = "collected"]
        /\ Drop(u) /\ cpc[t] = "idle" /\ con' = con /\ UNCHANGED <<pc, on>>
    BY <1>2 DEF Collect, Owns, InLua, runs
  <2>2. PICK p \in {"hung", "idle"} : cpc' = [cpc EXCEPT ![t] = p]
    BY <1>2 DEF Collect, CallAfter
  <2>3. con[t] = NoSession
    BY <2>1 DEF Shape, Frames
  <2>4. RunRefs(s)' = RunRefs(s) /\ CallRefs(s)' = CallRefs(s)
    BY <2>1, <2>2, <2>3, SessionAssumption DEF RunRefs, CallRefs, Shape, TypeOK
  <2>5. CASE u = s
    <3>1. s \in sessions
      BY <2>1, <2>5, HolderAlive
    <3>2. HandleRefs(s)' = 0 /\ HandleRefs(s) = 1 /\ handle'[s] = "collected"
      BY <2>1, <2>5 DEF HandleRefs, Shape, TypeOK
    <3>3. /\ HandleRefs(s)' + Cardinality(RunRefs(s))' + Cardinality(CallRefs(s))' + 1
               = HandleRefs(s) + Cardinality(RunRefs(s)) + Cardinality(CallRefs(s))
          /\ Cardinality(RunRefs(s))' \in Nat /\ Cardinality(CallRefs(s))' \in Nat
      BY <2>4, <3>2, FiniteHolders
    <3>4. QED
      BY <2>1, <2>5, <3>1, <3>2, <3>3, OneLess
  <2>6. CASE u # s
    <3>1. handle'[s] = handle[s]
      BY <2>1, <2>6 DEF Shape, TypeOK
    <3>2. QED
      BY <2>1, <2>4, <2>6, <3>1, DropOther, SameHolders
  <2>7. QED
    BY <2>5, <2>6
<1>3. ASSUME NEW t \in Thread, NEW u \in Session, Close(t, u) PROVE Sound(s)'
  <2>1. u # s
    BY <1>3 DEF Close, Unclosed, Shape, TypeOK
  <2>2. /\ Drop(u) /\ cpc[t] = "idle" /\ con' = con /\ UNCHANGED <<handle, pc, on>>
    BY <1>3 DEF Close, Owns, InLua, runs
  <2>3. PICK p \in {"hung", "idle"} : cpc' = [cpc EXCEPT ![t] = p]
    BY <1>3 DEF Close, CallAfter
  <2>4. con[t] = NoSession
    BY <2>2 DEF Shape, Frames
  <2>5. RunRefs(s)' = RunRefs(s) /\ CallRefs(s)' = CallRefs(s)
    BY <2>2, <2>3, <2>4, SessionAssumption DEF RunRefs, CallRefs, Shape, TypeOK
  <2>6. QED
    BY <2>1, <2>2, <2>5, DropOther, SameHolders
<1>4. ASSUME NEW t \in Thread, NEW u \in Session, NEW p \in {"push", "wait"},
             Ref(u), cpc[t] = "idle", cpc' = [cpc EXCEPT ![t] = p],
             con' = [con EXCEPT ![t] = u], UNCHANGED <<pc, on, tasks>>
      PROVE  Sound(s)'
  <2>1. /\ Cardinality(CallRefs(s))' = Cardinality(CallRefs(s)) + (IF u = s THEN 1 ELSE 0)
        /\ Cardinality(CallRefs(s))' \in Nat
    BY <1>4, CallEnter
  <2>2. RunRefs(s)' = RunRefs(s)
    BY <1>4 DEF RunRefs
  <2>3. CASE u = s
    <3>1. /\ Cardinality(RunRefs(s))' + Cardinality(CallRefs(s))'
               = Cardinality(RunRefs(s)) + Cardinality(CallRefs(s)) + 1
          /\ Cardinality(RunRefs(s))' \in Nat
      BY <2>1, <2>2, <2>3, FiniteHolders
    <3>2. QED
      BY <1>4, <2>1, <2>3, <3>1, OneMore
  <2>4. CASE u # s
    <3>1. Cardinality(CallRefs(s))' = Cardinality(CallRefs(s))
      BY <2>1, <2>4, FiniteHolders
    <3>2. QED
      BY <1>4, <2>2, <2>4, <3>1, RefOther, SameHolders
  <2>5. QED
    BY <2>3, <2>4
<1>5. ASSUME NEW t \in Thread, NEW k \in Job, QueueRef(t, k) PROVE Sound(s)'
  <2>1. CASE SidOf[k] \in sessions
    <3>1. /\ Ref(SidOf[k]) /\ SidOf[k] \in Session /\ cpc[t] = "idle"
          /\ cpc' = [cpc EXCEPT ![t] = "push"] /\ con' = [con EXCEPT ![t] = SidOf[k]]
          /\ UNCHANGED <<pc, on, tasks>>
      BY <1>5, <2>1, SessionAssumption DEF QueueRef, InLua, runs, queues
    <3>2. QED
      BY <1>4, <3>1
  <2>2. CASE SidOf[k] \notin sessions
    <3>1. UNCHANGED <<sessions, ref, handle, tasks, pc, on, cpc, con>>
      BY <1>5, <2>2 DEF QueueRef, registry, queues, runs
    <3>2. QED
      BY <1>0, <1>a, <1>b, <3>1
  <2>3. QED
    BY <2>1, <2>2
<1>6. ASSUME NEW t \in Thread, NEW u \in Session, WaitRef(t, u) PROVE Sound(s)'
  <2>1. CASE u \in sessions
    <3>1. /\ Ref(u) /\ cpc[t] = "idle"
          /\ cpc' = [cpc EXCEPT ![t] = "wait"] /\ con' = [con EXCEPT ![t] = u]
          /\ UNCHANGED <<pc, on, tasks>>
      BY <1>6, <2>1 DEF WaitRef, Owns, InLua, runs, queues
    <3>2. QED
      BY <1>4, <3>1
  <2>2. CASE u \notin sessions
    <3>1. UNCHANGED <<sessions, ref, handle, tasks, pc, on, cpc, con>>
      BY <1>6, <2>2 DEF WaitRef, registry, queues, runs
    <3>2. QED
      BY <1>0, <1>a, <1>b, <3>1
  <2>3. QED
    BY <2>1, <2>2
<1>7. ASSUME NEW t \in Thread, QueuePush(t) \/ WaitDone(t) PROVE Sound(s)'
  <2>1. con[t] \in Session /\ t \in CallRefs(con[t])
    BY <1>7 DEF QueuePush, WaitDone, CallRefs, Shape, TypeOK, Frames
  <2>2. s \in sessions \/ tasks'[s] = tasks[s]
    <3>1. CASE con[t] = s
      BY <2>1, <3>1, HolderAlive
    <3>2. CASE con[t] # s
      BY <1>7, <2>1, <3>2 DEF QueuePush, WaitDone, Shape, TypeOK
    <3>3. QED
      BY <3>1, <3>2
  <2>3. UNCHANGED <<sessions, ref, handle, pc, on, con>>
    BY <1>7 DEF QueuePush, WaitDone, registry, runs
  <2>4. PICK p \in {"queued", "waited"} : cpc' = [cpc EXCEPT ![t] = p] /\ cpc[t] # "idle"
    BY <1>7 DEF QueuePush, WaitDone
  <2>5. RunRefs(s)' = RunRefs(s) /\ CallRefs(s)' = CallRefs(s)
    BY <2>3, <2>4 DEF RunRefs, CallRefs, Shape, TypeOK
  <2>6. QED
    BY <2>2, <2>3, <2>5, SameHolders
<1>8. ASSUME NEW t \in Thread, CallFree(t) PROVE Sound(s)'
  <2>1. /\ con[t] \in Session /\ t \in CallRefs(con[t]) /\ Drop(con[t])
        /\ con' = [con EXCEPT ![t] = NoSession] /\ UNCHANGED <<handle, pc, on>>
    BY <1>8 DEF CallFree, CallRefs, Shape, TypeOK, Frames, runs
  <2>2. PICK p \in {"hung", "idle"} : cpc' = [cpc EXCEPT ![t] = p]
    BY <1>8 DEF CallFree, CallAfter
  <2>3. /\ Cardinality(CallRefs(s))' + (IF s = con[t] THEN 1 ELSE 0) = Cardinality(CallRefs(s))
        /\ Cardinality(CallRefs(s))' \in Nat
    BY <2>1, <2>2, CallLeave
  <2>4. RunRefs(s)' = RunRefs(s) /\ HandleRefs(s)' = HandleRefs(s) /\ HandleRefs(s) \in Nat
    BY <2>1 DEF RunRefs, HandleRefs
  <2>5. CASE con[t] = s
    <3>1. s \in sessions
      BY <2>1, <2>5, HolderAlive
    <3>2. /\ HandleRefs(s)' + Cardinality(RunRefs(s))' + Cardinality(CallRefs(s))' + 1
               = HandleRefs(s) + Cardinality(RunRefs(s)) + Cardinality(CallRefs(s))
          /\ Cardinality(RunRefs(s))' \in Nat
      BY <2>3, <2>4, <2>5, FiniteHolders
    <3>3. QED
      BY <2>1, <2>3, <2>5, <3>1, <3>2, OneLess
  <2>6. CASE con[t] # s
    <3>1. Cardinality(CallRefs(s))' = Cardinality(CallRefs(s))
      BY <2>3, <2>6
    <3>2. QED
      BY <2>1, <2>4, <2>6, <3>1, DropOther, SameHolders
  <2>7. QED
    BY <2>5, <2>6
<1>9. ASSUME NEW w \in Worker, Take(w) PROVE Sound(s)'
  <2>1. RunRefs(s)' = RunRefs(s) /\ CallRefs(s)' = CallRefs(s)
    BY <1>9 DEF Take, RunRefs, CallRefs, calls, Shape, TypeOK, Frames
  <2>2. QED
    BY <1>0, <1>9, <2>1 DEF Take, registry
<1>10. ASSUME NEW w \in Worker, RunRef(w) PROVE Sound(s)'
  <2>1. CASE on[w] \in sessions
    <3>1. /\ on[w] \in Session /\ Ref(on[w]) /\ pc[w] = "ref"
          /\ pc' = [pc EXCEPT ![w] = "lock"] /\ UNCHANGED <<on, cpc, con, tasks>>
      BY <1>10, <2>1 DEF RunRef, queues, calls, Shape, TypeOK
    <3>2. /\ Cardinality(RunRefs(s))' = Cardinality(RunRefs(s)) + (IF s = on[w] THEN 1 ELSE 0)
          /\ Cardinality(RunRefs(s))' \in Nat
      BY <3>1, RunEnter
    <3>3. CallRefs(s)' = CallRefs(s)
      BY <3>1 DEF CallRefs
    <3>4. CASE on[w] = s
      <4>1. /\ Cardinality(RunRefs(s))' + Cardinality(CallRefs(s))'
                 = Cardinality(RunRefs(s)) + Cardinality(CallRefs(s)) + 1
            /\ Cardinality(CallRefs(s))' \in Nat
        BY <3>2, <3>3, <3>4, FiniteHolders
      <4>2. QED
        BY <3>1, <3>2, <3>4, <4>1, OneMore
    <3>5. CASE on[w] # s
      <4>1. Cardinality(RunRefs(s))' = Cardinality(RunRefs(s))
        BY <3>2, <3>5, FiniteHolders
      <4>2. QED
        BY <3>1, <3>3, <3>5, <4>1, RefOther, SameHolders
    <3>6. QED
      BY <3>4, <3>5
  <2>2. CASE on[w] \notin sessions
    <3>1. /\ pc[w] = "ref" /\ pc' = [pc EXCEPT ![w] = "idle"] /\ on' = [on EXCEPT ![w] = NoSession]
          /\ UNCHANGED <<sessions, ref, handle, tasks, cpc, con>>
      BY <1>10, <2>2 DEF RunRef, registry, queues, calls
    <3>2. RunRefs(s)' = RunRefs(s) /\ CallRefs(s)' = CallRefs(s)
      BY <3>1, SessionAssumption DEF RunRefs, CallRefs, Shape, TypeOK
    <3>3. QED
      BY <1>0, <3>1, <3>2
  <2>3. QED
    BY <2>1, <2>2
<1>11. ASSUME NEW w \in Worker, RunLock(w) \/ TaskDone(w) \/ RunEnd(w) PROVE Sound(s)'
  <2>1. on[w] \in Session /\ w \in RunRefs(on[w])
    <3>1. pc[w] \in {"lock", "task", "end"}
      BY <1>11 DEF RunLock, TaskDone, RunEnd
    <3>2. on[w] \in Session
      BY <3>1 DEF Shape, TypeOK, Frames
    <3>3. QED
      BY <3>1, <3>2 DEF RunRefs
  <2>2. s \in sessions \/ tasks'[s] = tasks[s]
    <3>1. CASE on[w] = s
      BY <2>1, <3>1, HolderAlive
    <3>2. CASE on[w] # s
      BY <1>11, <2>1, <3>2 DEF RunLock, Running, TaskDone, RunEnd, queues, Shape, TypeOK
    <3>3. QED
      BY <3>1, <3>2
  <2>3. UNCHANGED <<sessions, ref, handle, on, cpc, con>>
    BY <1>11 DEF RunLock, TaskDone, RunEnd, registry, calls
  <2>4. PICK p \in {"task", "end", "free"} : pc' = [pc EXCEPT ![w] = p]
    BY <1>11 DEF RunLock, Running, TaskDone, RunEnd
  <2>5. RunRefs(s)' = RunRefs(s) /\ CallRefs(s)' = CallRefs(s)
    BY <2>1, <2>3, <2>4 DEF RunRefs, CallRefs, Shape, TypeOK
  <2>6. QED
    BY <2>2, <2>3, <2>5, SameHolders
<1>12. ASSUME NEW w \in Worker, RunFree(w) PROVE Sound(s)'
  <2>1. /\ on[w] \in Session /\ w \in RunRefs(on[w]) /\ Drop(on[w]) /\ pc[w] = "free"
        /\ on' = [on EXCEPT ![w] = NoSession] /\ UNCHANGED <<handle, cpc, con>>
    BY <1>12 DEF RunFree, RunRefs, Shape, TypeOK, Frames, calls
  <2>2. PICK p \in {"hung", "idle"} : pc' = [pc EXCEPT ![w] = p]
    BY <1>12 DEF RunFree
  <2>3. /\ Cardinality(RunRefs(s))' + (IF s = on[w] THEN 1 ELSE 0) = Cardinality(RunRefs(s))
        /\ Cardinality(RunRefs(s))' \in Nat
    BY <2>1, <2>2, RunLeave
  <2>4. CallRefs(s)' = CallRefs(s) /\ HandleRefs(s)' = HandleRefs(s) /\ HandleRefs(s) \in Nat
    BY <2>1 DEF CallRefs, HandleRefs
  <2>5. CASE on[w] = s
    <3>1. s \in sessions
      BY <2>1, <2>5, HolderAlive
    <3>2. /\ HandleRefs(s)' + Cardinality(RunRefs(s))' + Cardinality(CallRefs(s))' + 1
               = HandleRefs(s) + Cardinality(RunRefs(s)) + Cardinality(CallRefs(s))
          /\ Cardinality(CallRefs(s))' \in Nat
      BY <2>3, <2>4, <2>5, FiniteHolders
    <3>3. QED
      BY <2>1, <2>3, <2>5, <3>1, <3>2, OneLess
  <2>6. CASE on[w] # s
    <3>1. Cardinality(RunRefs(s))' = Cardinality(RunRefs(s))
      BY <2>3, <2>6
    <3>2. QED
      BY <2>1, <2>4, <2>6, <3>1, DropOther, SameHolders
  <2>7. QED
    BY <2>5, <2>6
<1>13. CASE UNCHANGED vars
  BY <1>0, <1>a, <1>b, <1>13 DEF vars, registry, queues, runs, calls
<1>14. QED
  BY <1>1, <1>2, <1>3, <1>5, <1>6, <1>7, <1>8, <1>9, <1>10, <1>11, <1>12, <1>13
     DEF Next, Begin, CallStep, RunStep

\* As long as nothing was closed, what a thread touches it holds.
Untouched == Unclosed = Session => fault = "none"

LEMMA StepUntouched ==
  ASSUME Shape, [Next]_vars, \A s \in Unclosed : Sound(s), Untouched
  PROVE  Untouched'
<1> SUFFICES ASSUME Unclosed' = Session PROVE fault' = "none"
  BY DEF Untouched
<1>1. fault = "none" /\ \A s \in Session : Sound(s)
  BY StepUnclosed DEF Untouched, Unclosed
<1>2. ASSUME NEW t \in Thread, QueuePush(t) \/ WaitDone(t) PROVE fault' = "none"
  <2>1. con[t] \in Session /\ t \in CallRefs(con[t])
    BY <1>2 DEF QueuePush, WaitDone, CallRefs, Shape, TypeOK, Frames
  <2>2. con[t] \in sessions
    BY <1>1, <2>1, HolderAlive
  <2>3. QED
    BY <1>1, <1>2, <2>2 DEF QueuePush, WaitDone, Touch
<1>3. ASSUME NEW w \in Worker, RunLock(w) \/ RunEnd(w) PROVE fault' = "none"
  <2>1. pc[w] \in {"lock", "end"}
    BY <1>3 DEF RunLock, RunEnd
  <2>2. on[w] \in Session
    BY <2>1 DEF Shape, TypeOK, Frames
  <2>3. w \in RunRefs(on[w])
    BY <2>1, <2>2 DEF RunRefs
  <2>4. on[w] \in sessions
    BY <1>1, <2>2, <2>3, HolderAlive
  <2>5. QED
    BY <1>1, <1>3, <2>4 DEF RunLock, RunEnd, Touch
<1>4. ASSUME NEW t \in Thread, NEW s \in Session, WaitRef(t, s) PROVE fault' = "none"
  <2>1. s \in sessions
    BY <1>1, <1>4, HolderAlive DEF WaitRef, Owns
  <2>2. QED
    BY <1>1, <1>4, <2>1 DEF WaitRef
<1>5. ASSUME NEW t \in Thread, NEW s \in Session, Create(t, s) \/ Collect(t, s) \/ Close(t, s)
      PROVE  fault' = "none"
  BY <1>1, <1>5 DEF Create, Collect, Close
<1>6. ASSUME NEW t \in Thread, (\E k \in Job : QueueRef(t, k)) \/ CallFree(t) PROVE fault' = "none"
  BY <1>1, <1>6 DEF QueueRef, CallFree
<1>7. ASSUME NEW w \in Worker, Take(w) \/ RunRef(w) \/ TaskDone(w) \/ RunFree(w)
      PROVE  fault' = "none"
  BY <1>1, <1>7 DEF Take, RunRef, TaskDone, RunFree
<1>8. CASE UNCHANGED vars
  BY <1>1, <1>8 DEF vars
<1>9. QED
  BY <1>2, <1>3, <1>4, <1>5, <1>6, <1>7, <1>8 DEF Next, Begin, CallStep, RunStep

-----------------------------------------------------------------------------
\* No push on session s has gone unnoticed.
Heard(s) == tasks[s] # <<>> /\ status[s] = "ready" => Alerted(s)

\* A push is noticed whenever it comes: in a ready session it submits the
\* session, in a running one the runner finds it in its second critical
\* section; and a thread that has been handed the session looks at the queue
\* unless the session is gone, and its queue with it, or is being run again.
LEMMA StepWakeup ==
  ASSUME Shape, OneRunner, [Next]_vars, NEW s \in Session, Sound(s), Heard(s)
  PROVE  Heard(s)'
<1> SUFFICES ASSUME tasks'[s] # <<>>, status'[s] = "ready"
             PROVE  Alerted(s)'
  BY DEF Heard
<1> USE DEF Shape
<1>1. ASSUME UNCHANGED <<pool, pc, on>>, tasks[s] # <<>>, status[s] = "ready"
      PROVE  Alerted(s)'
  BY <1>1 DEF Heard, Alerted
<1>2. ASSUME NEW u \in Session, Drop(u) PROVE tasks[s] # <<>> /\ status[s] = "ready"
  <2>1. tasks' = tasks \/ tasks' = [tasks EXCEPT ![u] = <<>>]
    BY <1>2 DEF Drop
  <2>2. QED
    BY <1>2, <2>1 DEF Drop, TypeOK
<1>3. ASSUME NEW t \in Thread, NEW k \in Job, QueueRef(t, k) PROVE Alerted(s)'
  BY <1>1, <1>3 DEF QueueRef, queues, runs
<1>4. ASSUME NEW t \in Thread, NEW u \in Session, Create(t, u) \/ WaitRef(t, u) PROVE Alerted(s)'
  BY <1>1, <1>4 DEF Create, WaitRef, queues, runs
<1>5. ASSUME NEW t \in Thread, NEW u \in Session, Collect(t, u) \/ Close(t, u) PROVE Alerted(s)'
  <2>1. Drop(u) /\ UNCHANGED <<pool, pc, on>>
    BY <1>5 DEF Collect, Close, Drop, runs
  <2>2. QED
    BY <1>1, <1>2, <2>1
<1>6. ASSUME NEW t \in Thread, CallFree(t) PROVE Alerted(s)'
  <2>1. con[t] \in Session /\ Drop(con[t]) /\ UNCHANGED <<pool, pc, on>>
    BY <1>6 DEF CallFree, Drop, runs, TypeOK, Frames
  <2>2. QED
    BY <1>1, <1>2, <2>1
<1>7. ASSUME NEW t \in Thread, QueuePush(t) PROVE Alerted(s)'
  <2>1. /\ con[t] \in Session /\ UNCHANGED <<pc, on, status>>
        /\ tasks' = [tasks EXCEPT ![con[t]] = Append(@, cjob[t])]
        /\ pool' = IF status[con[t]] = "ready" THEN Append(pool, con[t]) ELSE pool
    BY <1>7 DEF QueuePush, runs, TypeOK, Frames
  <2>2. CASE s = con[t]
    <3>1. pool' = Append(pool, s) /\ pool \in Seq(Session)
      BY <2>1, <2>2 DEF TypeOK
    <3>2. Len(pool) + 1 \in DOMAIN pool' /\ pool'[Len(pool) + 1] = s
      BY <3>1
    <3>3. QED
      BY <3>2 DEF Alerted
  <2>3. CASE s # con[t]
    <3>1. tasks[s] # <<>> /\ status[s] = "ready"
      BY <2>1, <2>3 DEF TypeOK
    <3>2. Alerted(s)
      BY <3>1 DEF Heard
    <3>3. \A i \in DOMAIN pool : i \in DOMAIN pool' /\ pool'[i] = pool[i]
      <4>1. pool \in Seq(Session) /\ (pool' = pool \/ pool' = Append(pool, con[t]))
        BY <2>1 DEF TypeOK
      <4>2. CASE pool' = pool
        BY <4>2
      <4>3. CASE pool' = Append(pool, con[t])
        BY <2>1, <4>1, <4>3
      <4>4. QED
        BY <4>1, <4>2, <4>3
    <3>4. QED
      BY <2>1, <3>2, <3>3 DEF Alerted
  <2>4. QED
    BY <2>2, <2>3
<1>8. ASSUME NEW t \in Thread, WaitDone(t) PROVE Alerted(s)'
  BY <1>1, <1>8 DEF WaitDone, runs
<1>9. ASSUME NEW w \in Worker, Take(w) PROVE Alerted(s)'
  <2>1. /\ pc[w] = "idle" /\ pool # <<>> /\ pool \in Seq(Session) /\ pool' = Tail(pool)
        /\ on' = [on EXCEPT ![w] = Head(pool)] /\ pc' = [pc EXCEPT ![w] = "ref"]
        /\ UNCHANGED <<tasks, status>>
    BY <1>9 DEF Take, TypeOK
  <2>2. Alerted(s)
    BY <2>1 DEF Heard
  <2>3. CASE \E v \in Worker : on[v] = s /\ pc[v] \in {"ref", "lock"}
    BY <2>1, <2>3 DEF Alerted, TypeOK
  <2>4. CASE \E i \in DOMAIN pool : pool[i] = s
    <3>1. PICK i \in DOMAIN pool : pool[i] = s
      BY <2>4
    <3>2. CASE i = 1
      <4>1. on'[w] = s /\ pc'[w] = "ref"
        BY <2>1, <3>1, <3>2 DEF TypeOK
      <4>2. QED
        BY <4>1 DEF Alerted
    <3>3. CASE i # 1
      <4>1. i - 1 \in DOMAIN pool' /\ pool'[i - 1] = s
        BY <2>1, <3>1, <3>3
      <4>2. QED
        BY <4>1 DEF Alerted
    <3>4. QED
      BY <3>2, <3>3
  <2>5. QED
    BY <2>2, <2>3, <2>4 DEF Alerted
<1>10. ASSUME NEW w \in Worker, RunRef(w) PROVE Alerted(s)'
  <2>1. UNCHANGED <<tasks, status, pool>> /\ pc[w] = "ref"
    BY <1>10 DEF RunRef, queues
  <2>2. s \in sessions /\ Alerted(s)
    BY <2>1 DEF Heard, Sound
  <2>3. CASE on[w] \in sessions
    BY <1>10, <2>1, <2>2, <2>3 DEF RunRef, Alerted, TypeOK
  <2>4. CASE on[w] \notin sessions
    <3>1. on[w] # s /\ pc' = [pc EXCEPT ![w] = "idle"] /\ on' = [on EXCEPT ![w] = NoSession]
      BY <1>10, <2>2, <2>4 DEF RunRef
    <3>2. QED
      BY <2>1, <2>2, <3>1 DEF Alerted, TypeOK
  <2>5. QED
    BY <2>3, <2>4
<1>11. ASSUME NEW w \in Worker, RunLock(w) PROVE Alerted(s)'
  <2>1. UNCHANGED <<pool, on>> /\ pc[w] = "lock" /\ on[w] \in Session
    BY <1>11 DEF RunLock, TypeOK, Frames
  <2>2. PICK p \in RunPhase : pc' = [pc EXCEPT ![w] = p]
    BY <1>11 DEF RunLock, Running, RunPhase
  <2>3. status'[on[w]] = "running"
    <3>1. CASE status[on[w]] = "running"
      BY <1>11, <3>1 DEF RunLock
    <3>2. CASE status[on[w]] # "running"
      <4>1. status' = [status EXCEPT ![on[w]] = "running"]
        BY <1>11, <3>2 DEF RunLock, Running
      <4>2. QED
        BY <2>1, <4>1 DEF TypeOK
    <3>3. QED
      BY <3>1, <3>2
  <2>4. on[w] # s
    BY <2>3
  <2>5. tasks[s] # <<>> /\ status[s] = "ready"
    <3>1. /\ status' = status \/ status' = [status EXCEPT ![on[w]] = "running"]
          /\ tasks' = tasks \/ tasks' = [tasks EXCEPT ![on[w]] = Tail(@)]
      BY <1>11 DEF RunLock, Running
    <3>2. QED
      BY <2>1, <2>4, <3>1 DEF TypeOK
  <2>6. QED
    BY <2>1, <2>2, <2>4, <2>5 DEF Heard, Alerted, TypeOK
<1>12. ASSUME NEW w \in Worker, TaskDone(w) PROVE Alerted(s)'
  BY <1>12 DEF TaskDone, queues, Heard, Alerted, TypeOK
<1>13. ASSUME NEW w \in Worker, RunEnd(w) PROVE Alerted(s)'
  <2>1. /\ on[w] \in Session /\ pc[w] = "end" /\ pc' = [pc EXCEPT ![w] = "free"]
        /\ UNCHANGED <<on, tasks>> /\ status' = [status EXCEPT ![on[w]] = "ready"]
        /\ pool \in Seq(Session)
        /\ pool' = IF tasks[on[w]] = <<>> THEN pool ELSE Append(pool, on[w])
    BY <1>13 DEF RunEnd, TypeOK, Frames
  <2>2. CASE s = on[w]
    <3>1. pool' = Append(pool, s)
      BY <2>1, <2>2
    <3>2. Len(pool) + 1 \in DOMAIN pool' /\ pool'[Len(pool) + 1] = s
      BY <2>1, <3>1
    <3>3. QED
      BY <3>2 DEF Alerted
  <2>3. CASE s # on[w]
    <3>1. Alerted(s)
      BY <2>1, <2>3 DEF Heard, TypeOK
    <3>2. \A i \in DOMAIN pool : i \in DOMAIN pool' /\ pool'[i] = pool[i]
      BY <2>1
    <3>3. QED
      BY <2>1, <3>1, <3>2 DEF Alerted, TypeOK
  <2>4. QED
    BY <2>2, <2>3
<1>14. ASSUME NEW w \in Worker, RunFree(w) PROVE Alerted(s)'
  <2>1. /\ on[w] \in Session /\ Drop(on[w]) /\ pc[w] = "free"
        /\ on' = [on EXCEPT ![w] = NoSession] /\ UNCHANGED pool
    BY <1>14 DEF RunFree, Drop, TypeOK, Frames
  <2>2. PICK p \in {"hung", "idle"} : pc' = [pc EXCEPT ![w] = p]
    BY <1>14 DEF RunFree
  <2>3. Alerted(s)
    BY <1>2, <2>1 DEF Heard
  <2>4. QED
    BY <2>1, <2>2, <2>3 DEF Alerted, TypeOK
<1>15. CASE UNCHANGED vars
  BY <1>1, <1>15 DEF vars, queues, runs
<1>16. QED
  BY <1>3, <1>4, <1>5, <1>6, <1>7, <1>8, <1>9, <1>10, <1>11, <1>12, <1>13, <1>14, <1>15
     DEF Next, Begin, CallStep, RunStep

-----------------------------------------------------------------------------
\* What holds of the sessions that were not closed.
Trusted == Untouched /\ \A s \in Unclosed : Sound(s) /\ Heard(s)

Inv == Shape /\ OneRunner /\ Trusted

\* Every step keeps it.
LEMMA StepTrusted == Inv /\ [Next]_vars => Trusted'
<1> SUFFICES ASSUME Inv, [Next]_vars PROVE Trusted'
  OBVIOUS
<1>1. Untouched'
  BY StepUntouched DEF Inv, Trusted
<1>2. ASSUME NEW s \in Unclosed' PROVE Sound(s)' /\ Heard(s)'
  <2>1. s \in Session /\ s \in Unclosed
    BY StepUnclosed DEF Inv, Unclosed
  <2>2. Sound(s) /\ Heard(s)
    BY <2>1 DEF Inv, Trusted
  <2>3. QED
    BY <2>1, <2>2, StepSound, StepWakeup DEF Inv
<1>3. QED
  BY <1>1, <1>2 DEF Trusted

LEMMA StepInv == Inv /\ [Next]_vars => Inv'
  BY StepShape, StepOneRunner, StepTrusted DEF Inv

-----------------------------------------------------------------------------
\* The program starts without sessions, jobs and frames.
LEMMA InitInv == Init => Inv
<1> SUFFICES ASSUME Init PROVE Inv
  OBVIOUS
<1> USE SessionAssumption DEF Init
<1>1. TypeOK
  <2>1. <<>> \in Seq(Job) /\ <<>> \in Seq(Session) /\ 0 \in 0..MaxCloses
    OBVIOUS
  <2>2. /\ tasks \in [Session -> Seq(Job)] /\ pool \in Seq(Session)
        /\ closes \in [Session -> 0..MaxCloses]
    BY <2>1
  <2>3. /\ pc \in [Worker -> RunPhase] /\ on \in [Worker -> Session \cup {NoSession}]
        /\ job \in [Worker -> Job \cup {NoJob}]
    BY DEF RunPhase
  <2>4. /\ cpc \in [Thread -> CallPhase] /\ con \in [Thread -> Session \cup {NoSession}]
        /\ cjob \in [Thread -> Job \cup {NoJob}]
    BY DEF CallPhase
  <2>5. /\ sessions \subseteq Session /\ ref \in [Session -> Nat]
        /\ handle \in [Session -> {"none", "held", "collected"}]
        /\ locked \in BOOLEAN /\ status \in [Session -> {"ready", "running"}]
        /\ sem \in [Session -> Nat] /\ todo \subseteq Job
        /\ fault \in {"none", "freed", "null"}
    OBVIOUS
  <2>6. QED
    BY <2>2, <2>3, <2>4, <2>5 DEF TypeOK
<1>2. Frames /\ Referenced
  BY DEF Frames, Referenced
<1>3. OneRunner
  BY DEF OneRunner, Runners, Runner
<1>4. \A s \in Session : RunRefs(s) = {} /\ CallRefs(s) = {}
  BY DEF RunRefs, CallRefs
<1>5. Trusted
  <2>1. \A s \in Session : Cardinality(RunRefs(s)) = 0 /\ Cardinality(CallRefs(s)) = 0
    BY <1>4, FS_EmptySet
  <2>2. QED
    BY <2>1 DEF Trusted, Untouched, Unclosed, Sound, Heard, HandleRefs
<1>6. QED
  BY <1>1, <1>2, <1>3, <1>5 DEF Inv, Shape

LEMMA Invariance == Spec => []Inv
  BY InitInv, StepInv, PTL DEF Spec

\* The variables of the session module keep their types, close or no close.
THEOREM TypeCorrect == Spec => []TypeOK
<1>1. Inv => TypeOK
  BY DEF Inv, Shape
<1>2. QED
  BY <1>1, Invariance, PTL

\* The Lua state of a session is used by one thread at a time, even when close
\* and __gc drop the reference of the handle twice.
THEOREM MutualExclusion == Spec => []OneRunner
<1>1. Inv => OneRunner
  BY DEF Inv
<1>2. QED
  BY <1>1, Invariance, PTL

\* Until its handle is closed, every reference on a session is counted and
\* dropped once, whatever is closed besides.
THEOREM CountedReferences == Spec => []RefsAccounted
<1>1. Inv => RefsAccounted
  BY DEF Inv, Trusted, Sound, RefsAccounted
<1>2. QED
  BY <1>1, Invariance, PTL

\* Until code calls close, no thread touches a session that is destroyed:
\* neither session_run nor session_queue_task nor session_wait.
THEOREM MemorySafety == Spec => []NoUseAfterFree
<1>1. Inv => NoUseAfterFree
  BY DEF Inv, Trusted, Untouched, NoUseAfterFree, NothingFreedTouched
<1>2. QED
  BY <1>1, Invariance, PTL

\* Until its handle is closed, a session that has jobs and is not running is in
\* the pool or with a pool thread.
THEOREM Wakeup == Spec => []NoLostWakeup
<1>1. Inv => NoLostWakeup
  BY DEF Inv, Trusted, Heard, NoLostWakeup
<1>2. QED
  BY <1>1, Invariance, PTL

-----------------------------------------------------------------------------
(* Session implements Serial. *)

\* Pool thread w executes a job of session s.
Executes(w, s) == on[w] = s /\ pc[w] = "task"

\* What Serial takes for the job of a session is the one in the frame of the
\* thread that executes it, and a session with a holder is in the registry.
Mapped ==
  /\ \A s \in Unclosed, w \in Worker : Executes(w, s) => CurrentOf(s) = job[w]
  /\ \A s \in Session :
       s \notin Unclosed \/ (\A w \in Worker : ~ Executes(w, s)) => CurrentOf(s) = NoJob
  /\ \A s \in Unclosed : RunRefs(s) # {} => s \in sessions

LEMMA MappedHolds == Inv => Mapped
<1> SUFFICES ASSUME Inv PROVE Mapped
  OBVIOUS
<1>1. ASSUME NEW s \in Unclosed, NEW w \in Worker, Executes(w, s) PROVE CurrentOf(s) = job[w]
  <2>1. s \in Session /\ closes[s] = 0
    BY DEF Unclosed
  <2> DEFINE x == CHOOSE v \in Worker : on[v] = s /\ pc[v] = "task"
  <2>2. x \in Worker /\ on[x] = s /\ pc[x] = "task"
    BY <1>1 DEF Executes
  <2>3. x \in Runners(s) /\ w \in Runners(s)
    BY <1>1, <2>2 DEF Executes, Runners, Runner
  <2>4. x = w
    BY <2>1, <2>3 DEF Inv, OneRunner
  <2>5. CurrentOf(s) = job[x]
    BY <1>1, <2>1 DEF CurrentOf, Executes
  <2>6. QED
    BY <2>4, <2>5
<1>2. ASSUME NEW s \in Session, s \notin Unclosed \/ \A w \in Worker : ~ Executes(w, s)
      PROVE  CurrentOf(s) = NoJob
  BY <1>2 DEF CurrentOf, Executes, Unclosed
<1>3. ASSUME NEW s \in Unclosed, RunRefs(s) # {} PROVE s \in sessions
  BY <1>3, HolderAlive DEF Inv, Trusted, Unclosed
<1>4. QED
  BY <1>1, <1>2, <1>3 DEF Mapped

\* For Serial nothing happens to session s in a step that leaves its queue, its
\* closes and the frames that execute its jobs alone.
LEMMA SameOrder ==
  ASSUME Mapped, Mapped', NEW s \in Session,
         tasks'[s] = tasks[s] \/ s \notin Unclosed, closes'[s] = closes[s],
         \A w \in Worker : /\ Executes(w, s)' <=> Executes(w, s)
                           /\ Executes(w, s) => job'[w] = job[w]
  PROVE  PendingOf(s)' = PendingOf(s) /\ CurrentOf(s)' = CurrentOf(s)
<1>1. PendingOf(s)' = PendingOf(s)
  BY DEF PendingOf, Unclosed
<1>2. s \in Unclosed' <=> s \in Unclosed
  BY DEF Unclosed
<1>3. CASE s \in Unclosed /\ \E w \in Worker : Executes(w, s)
  <2>1. PICK w \in Worker : Executes(w, s)
    BY <1>3
  <2>2. CurrentOf(s) = job[w] /\ CurrentOf(s)' = job'[w]
    BY <1>2, <1>3, <2>1 DEF Mapped
  <2>3. QED
    BY <1>1, <2>1, <2>2
<1>4. CASE s \notin Unclosed \/ \A w \in Worker : ~ Executes(w, s)
  <2>1. CurrentOf(s) = NoJob /\ CurrentOf(s)' = NoJob
    BY <1>2, <1>4 DEF Mapped
  <2>2. QED
    BY <1>1, <2>1
<1>5. QED
  BY <1>3, <1>4

\* Sessions to which nothing happens, one by one, are a stuttering step.
LEMMA Stutter ==
  ASSUME UNCHANGED closes,
         \A s \in Session : PendingOf(s)' = PendingOf(s) /\ CurrentOf(s)' = CurrentOf(s)
  PROVE  UNCHANGED Order!vars
  BY DEF Order!vars

\* session_free throws the jobs of a session away only when nobody executes one.
LEMMA DropOrder ==
  ASSUME Inv, Mapped, Mapped', NEW u \in Session, Drop(u), UNCHANGED <<closes, job>>,
         \A w \in Worker, s \in Session : Executes(w, s)' <=> Executes(w, s)
  PROVE  Order!Discard(u) \/ UNCHANGED Order!vars
<1>1. \A s \in Session :
        tasks'[s] = tasks[s] => PendingOf(s)' = PendingOf(s) /\ CurrentOf(s)' = CurrentOf(s)
  BY SameOrder
<1>2. CASE u \notin Unclosed \/ ~ LastRef(u)
  <2>1. \A s \in Session : tasks'[s] = tasks[s] \/ s \notin Unclosed
    BY <1>2 DEF Drop, Inv, Shape, TypeOK
  <2>2. \A s \in Session : PendingOf(s)' = PendingOf(s) /\ CurrentOf(s)' = CurrentOf(s)
    BY <2>1, SameOrder
  <2>3. QED
    BY <2>2, Stutter
<1>3. CASE u \in Unclosed /\ LastRef(u)
  <2>1. u \in Unclosed' /\ u \notin sessions' /\ tasks' = [tasks EXCEPT ![u] = <<>>]
    BY <1>3 DEF Drop, Unclosed
  <2>2. RunRefs(u)' = {}
    BY <2>1 DEF Mapped
  <2>3. \A w \in Worker : ~ Executes(w, u)'
    BY <2>2 DEF RunRefs, Executes
  <2>4. CurrentOf(u) = NoJob /\ CurrentOf(u)' = NoJob
    BY <2>3 DEF Mapped
  <2>5. PendingOf(u)' = <<>>
    BY <2>1 DEF PendingOf, Inv, Shape, TypeOK
  <2>6. \A s \in Session : s # u => PendingOf(s)' = PendingOf(s) /\ CurrentOf(s)' = CurrentOf(s)
    BY <1>1, <2>1 DEF Inv, Shape, TypeOK
  <2>7. QED
    BY <2>4, <2>5, <2>6 DEF Order!Discard
<1>4. QED
  BY <1>2, <1>3

\* What closed sessions are promised is nothing.
LEMMA CloseOrder ==
  ASSUME Inv, Mapped, Mapped', NEW t \in Thread, NEW u \in Session, Close(t, u)
  PROVE  Order!Close(u)
<1>1. /\ closes' = [closes EXCEPT ![u] = @ + 1] /\ closes \in [Session -> Nat]
      /\ UNCHANGED <<pc, on, job>>
      /\ \A s \in Session : s # u => tasks'[s] = tasks[s]
  BY DEF Close, Drop, runs, Inv, Shape, TypeOK
<1>2. {s \in Session : closes[s] > 0}' = {s \in Session : closes[s] > 0} \cup {u}
  BY <1>1
<1>3. PendingOf(u)' = <<>> /\ CurrentOf(u)' = NoJob
  BY <1>1 DEF PendingOf, CurrentOf
<1>4. \A s \in Session : s # u => PendingOf(s)' = PendingOf(s) /\ CurrentOf(s)' = CurrentOf(s)
  BY <1>1, SameOrder DEF Executes
<1>5. QED
  BY <1>2, <1>3, <1>4 DEF Order!Close

\* A push is an acceptance at the end of the queue.
LEMMA PushOrder ==
  ASSUME Inv, Mapped, Mapped', NEW t \in Thread, QueuePush(t)
  PROVE  (\E k \in Job : Order!Accept(k)) \/ UNCHANGED Order!vars
<1>1. PICK u \in Session, k \in Job : u = con[t] /\ k = cjob[t] /\ SidOf[k] = u
  BY SessionAssumption DEF QueuePush, Inv, Shape, Frames, TypeOK
<1>2. /\ tasks' = [tasks EXCEPT ![u] = Append(@, k)]
      /\ UNCHANGED <<closes, pc, on, job>>
  BY <1>1 DEF QueuePush, registry, runs
<1>3. \A s \in Session :
        s # u \/ s \notin Unclosed => PendingOf(s)' = PendingOf(s) /\ CurrentOf(s)' = CurrentOf(s)
  <2>1. \A s \in Session : s # u => tasks'[s] = tasks[s]
    BY <1>2 DEF Inv, Shape, TypeOK
  <2>2. QED
    BY <1>2, <2>1, SameOrder DEF Executes
<1>4. CASE u \in Unclosed
  <2>1. PendingOf(u)' = Append(PendingOf(u), k)
    BY <1>1, <1>2, <1>4 DEF PendingOf, Unclosed, Inv, Shape, TypeOK
  <2>2. CurrentOf(u)' = CurrentOf(u)
    BY <1>2 DEF CurrentOf
  <2>3. u \notin {s \in Session : closes[s] > 0}
    BY <1>4 DEF Unclosed
  <2>4. Order!Accept(k)
    BY <1>1, <1>2, <1>3, <2>1, <2>2, <2>3 DEF Order!Accept
  <2>5. QED
    BY <1>1, <2>4
<1>5. CASE u \notin Unclosed
  BY <1>2, <1>3, <1>5, Stutter
<1>6. QED
  BY <1>4, <1>5

\* The first critical section of session_run begins the oldest job.
LEMMA LockOrder ==
  ASSUME Inv, Mapped, Mapped', NEW w \in Worker, RunLock(w)
  PROVE  (\E s \in Session : Order!Begin(s)) \/ UNCHANGED Order!vars
<1>1. PICK u \in Session : u = on[w] /\ pc[w] = "lock" /\ UNCHANGED <<closes, on>>
  BY DEF RunLock, registry, Inv, Shape, Frames, TypeOK
<1>2. ASSUME NEW p \in {"free", "end"}, pc' = [pc EXCEPT ![w] = p], UNCHANGED <<tasks, job>>
      PROVE  UNCHANGED Order!vars
  <2>1. \A v \in Worker, s \in Session : Executes(v, s)' <=> Executes(v, s)
    BY <1>1, <1>2 DEF Executes, Inv, Shape, TypeOK
  <2>2. QED
    BY <1>1, <1>2, <2>1, SameOrder, Stutter
<1>3. CASE status[u] = "running"
  BY <1>1, <1>2, <1>3 DEF RunLock
<1>4. CASE status[u] # "running" /\ tasks[u] = <<>>
  BY <1>1, <1>2, <1>4 DEF RunLock, Running
<1>5. CASE status[u] # "running" /\ tasks[u] # <<>>
  <2>1. /\ pc' = [pc EXCEPT ![w] = "task"]
        /\ job' = [job EXCEPT ![w] = Head(tasks[u])]
        /\ tasks' = [tasks EXCEPT ![u] = Tail(@)]
    BY <1>1, <1>5 DEF RunLock, Running
  <2>2. \A v \in Worker : ~ Executes(v, u)
    BY <1>1, <1>5 DEF Executes, Inv, OneRunner, Runners, Runner
  <2>3. Executes(w, u)' /\ job'[w] = Head(tasks[u])
    BY <1>1, <2>1 DEF Executes, Inv, Shape, TypeOK
  <2>4. \A v \in Worker, s \in Session :
          s # u => /\ Executes(v, s)' <=> Executes(v, s)
                   /\ Executes(v, s) => job'[v] = job[v]
    BY <1>1, <2>1 DEF Executes, Inv, Shape, TypeOK
  <2>5. tasks'[u] = Tail(tasks[u]) /\ \A s \in Session : s # u => tasks'[s] = tasks[s]
    BY <1>1, <2>1 DEF Inv, Shape, TypeOK
  <2>6. \A s \in Session : s # u => PendingOf(s)' = PendingOf(s) /\ CurrentOf(s)' = CurrentOf(s)
    BY <1>1, <2>4, <2>5, SameOrder
  <2>7. CASE u \in Unclosed
    <3>1. u \in Unclosed'
      BY <1>1, <2>7 DEF Unclosed
    <3>2. CurrentOf(u) = NoJob /\ CurrentOf(u)' = Head(tasks[u])
      BY <1>1, <2>2, <2>3, <3>1 DEF Mapped
    <3>3. PendingOf(u) = tasks[u] /\ PendingOf(u)' = Tail(tasks[u])
      BY <1>1, <2>5, <2>7 DEF PendingOf, Unclosed
    <3>4. Order!Begin(u)
      BY <1>1, <1>5, <2>6, <3>2, <3>3 DEF Order!Begin
    <3>5. QED
      BY <1>1, <3>4
  <2>8. CASE u \notin Unclosed
    <3>1. u \notin Unclosed'
      BY <1>1, <2>8 DEF Unclosed
    <3>2. CurrentOf(u) = NoJob /\ CurrentOf(u)' = NoJob
      BY <1>1, <2>8, <3>1 DEF Mapped
    <3>3. PendingOf(u)' = PendingOf(u)
      BY <1>1, <2>8 DEF PendingOf, Unclosed
    <3>4. QED
      BY <1>1, <2>6, <3>2, <3>3, Stutter
  <2>9. QED
    BY <2>7, <2>8
<1>6. QED
  BY <1>3, <1>4, <1>5

\* The return of task_run ends the job.
LEMMA DoneOrder ==
  ASSUME Inv, Mapped, Mapped', NEW w \in Worker, TaskDone(w)
  PROVE  (\E s \in Session : Order!End(s)) \/ UNCHANGED Order!vars
<1>1. PICK u \in Session :
      /\ u = on[w] /\ pc[w] = "task" /\ job[w] # NoJob
      /\ pc' = [pc EXCEPT ![w] = "end"] /\ job' = [job EXCEPT ![w] = NoJob]
      /\ UNCHANGED <<closes, on, tasks>>
  BY DEF TaskDone, registry, queues, Inv, Shape, Frames, TypeOK
<1>2. Executes(w, u)
  BY <1>1 DEF Executes
<1>3. \A v \in Worker : ~ Executes(v, u)'
  <2>1. \A v \in Worker : Executes(v, u) => v = w
    BY <1>1 DEF Executes, Inv, OneRunner, Runners, Runner
  <2>2. QED
    BY <1>1, <2>1 DEF Executes, Inv, Shape, TypeOK
<1>4. \A v \in Worker, s \in Session :
        s # u => /\ Executes(v, s)' <=> Executes(v, s)
                 /\ Executes(v, s) => job'[v] = job[v]
  BY <1>1 DEF Executes, Inv, Shape, TypeOK
<1>5. \A s \in Session : s # u => PendingOf(s)' = PendingOf(s) /\ CurrentOf(s)' = CurrentOf(s)
  BY <1>1, <1>4, SameOrder
<1>6. PendingOf(u)' = PendingOf(u) /\ CurrentOf(u)' = NoJob
  BY <1>1, <1>3 DEF PendingOf, Mapped
<1>7. CASE u \in Unclosed
  <2>1. CurrentOf(u) # NoJob
    BY <1>1, <1>2, <1>7 DEF Mapped
  <2>2. Order!End(u)
    BY <1>1, <1>5, <1>6, <2>1 DEF Order!End
  <2>3. QED
    BY <1>1, <2>2
<1>8. CASE u \notin Unclosed
  <2>1. CurrentOf(u) = NoJob
    BY <1>1, <1>8 DEF Mapped
  <2>2. QED
    BY <1>1, <1>5, <1>6, <2>1, Stutter
<1>9. QED
  BY <1>7, <1>8

\* Every step of Session is one of Serial, or none.
LEMMA StepOrder == Inv /\ Mapped /\ Mapped' /\ [Next]_vars => [Order!Next]_(Order!vars)
<1> SUFFICES ASSUME Inv, Mapped, Mapped', [Next]_vars
             PROVE  Order!Next \/ UNCHANGED Order!vars
  OBVIOUS
<1>0. ASSUME UNCHANGED <<closes, tasks, job>>,
             \A w \in Worker, s \in Session : Executes(w, s)' <=> Executes(w, s)
      PROVE  UNCHANGED Order!vars
  BY <1>0, SameOrder, Stutter
<1>1. ASSUME NEW t \in Thread, NEW s \in Session, Create(t, s) \/ WaitRef(t, s)
      PROVE  UNCHANGED Order!vars
  BY <1>0, <1>1 DEF Create, WaitRef, Ref, registry, queues, runs, Executes
<1>2. ASSUME NEW t \in Thread, (\E k \in Job : QueueRef(t, k)) \/ WaitDone(t)
      PROVE  UNCHANGED Order!vars
  BY <1>0, <1>2 DEF QueueRef, WaitDone, Ref, registry, queues, runs, Executes
<1>3. ASSUME NEW t \in Thread, NEW s \in Session, Collect(t, s)
      PROVE  Order!Discard(s) \/ UNCHANGED Order!vars
  BY <1>3, DropOrder DEF Collect, runs, Executes
<1>4. ASSUME NEW t \in Thread, CallFree(t)
      PROVE  (\E s \in Session : Order!Discard(s)) \/ UNCHANGED Order!vars
  <2>1. con[t] \in Session
    BY <1>4 DEF CallFree, Inv, Shape, TypeOK, Frames
  <2>2. QED
    BY <1>4, <2>1, DropOrder DEF CallFree, runs, Executes
<1>5. ASSUME NEW w \in Worker, Take(w) \/ RunRef(w) \/ RunEnd(w)
      PROVE  UNCHANGED Order!vars
  <2>1. UNCHANGED <<closes, tasks, job>>
    BY <1>5 DEF Take, RunRef, RunEnd, Ref, registry, queues
  <2>2. /\ pc[w] \in {"idle", "ref", "end"}
        /\ pc'[w] \in {"ref", "lock", "idle", "free"}
        /\ \A v \in Worker \ {w} : pc'[v] = pc[v] /\ on'[v] = on[v]
    BY <1>5 DEF Take, RunRef, RunEnd, Inv, Shape, TypeOK
  <2>3. \A v \in Worker, s \in Session : Executes(v, s)' <=> Executes(v, s)
    BY <2>2 DEF Executes
  <2>4. QED
    BY <1>0, <2>1, <2>3
<1>6. ASSUME NEW w \in Worker, RunFree(w)
      PROVE  (\E s \in Session : Order!Discard(s)) \/ UNCHANGED Order!vars
  <2>1. on[w] \in Session /\ pc[w] = "free" /\ Drop(on[w]) /\ UNCHANGED <<closes, job>>
    BY <1>6 DEF RunFree, Inv, Shape, TypeOK, Frames
  <2>2. PICK p \in {"hung", "idle"} : pc' = [pc EXCEPT ![w] = p]
    BY <1>6 DEF RunFree
  <2>3. \A v \in Worker, s \in Session : Executes(v, s)' <=> Executes(v, s)
    BY <1>6, <2>1, <2>2 DEF RunFree, Executes, Inv, Shape, TypeOK
  <2>4. QED
    BY <2>1, <2>3, DropOrder
<1>7. CASE UNCHANGED vars
  BY <1>0, <1>7 DEF vars, registry, queues, runs, Executes
<1>8. QED
  BY <1>1, <1>2, <1>3, <1>4, <1>5, <1>6, <1>7, CloseOrder, PushOrder, LockOrder, DoneOrder
     DEF Next, Begin, CallStep, RunStep, Order!Next

\* The jobs of a session that is not closed are executed one at a time, in the
\* order in which they were queued, by whatever threads, and are thrown away
\* only between two of them.
THEOREM Refinement == Spec => SerialSpec
<1>1. Init => Order!Init
  BY DEF Init, Order!Init, PendingOf, CurrentOf
<1>2. Inv => Mapped
  BY MappedHolds
<1>3. Inv /\ Mapped /\ Mapped' /\ [Next]_vars => [Order!Next]_(Order!vars)
  BY StepOrder
<1>4. QED
  BY <1>1, <1>2, <1>3, Invariance, PTL DEF Spec, SerialSpec, Order!Spec

=============================================================================

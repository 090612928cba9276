------------------------------ MODULE Session -------------------------------
(***************************************************************************)
(* Sessions (lc_session.c): the registry of sessions and their reference   *)
(* counts, session_queue_task, session_run, session_wait, session_close    *)
(* and the __gc of a session handle.                                       *)
(*                                                                         *)
(* What happens between lc_spin_lock and lc_spin_unlock of one lock is one *)
(* action.  The global lock guards the registry and every ref_count, the   *)
(* lock of a session guards its status and its queue.  The pool is the     *)
(* FIFO of module Executor, which ThreadPool implements: a payload is the  *)
(* id of a session whose session_run is to be called.                      *)
(*                                                                         *)
(* A thread has two frames: its session_run, if it is a pool thread        *)
(* (pc, on, job), and the call it makes into this file from Lua code       *)
(* (cpc, con, cjob).  A pool thread runs Lua code only during task_run.    *)
(***************************************************************************)
EXTENDS Integers, Sequences, FiniteSets

CONSTANTS
  Session,    \* session ids; session_new never gives one out twice
  Worker,     \* pool threads
  Client,     \* threads of the host program that run Lua states of their own
  Job,        \* (task id, message) pairs, each queued at most once
  SidOf,      \* SidOf[k]: t->sid of the task of job k
  OwnerOf,    \* OwnerOf[s]: the Lua state holding the handle of s, that is
              \* the client or the session whose code created s
  MaxCloses,  \* bound of the model: calls of close on one handle
  NoSession, NoJob

Thread == Worker \cup Client

ASSUME SessionAssumption ==
  /\ IsFiniteSet(Worker) /\ IsFiniteSet(Client) /\ Worker \cap Client = {}
  /\ SidOf \in [Job -> Session]
  /\ OwnerOf \in [Session -> Client \cup Session]
  /\ MaxCloses \in Nat
  /\ NoSession \notin Session /\ NoJob \notin Job

VARIABLES
  sessions,  \* the keys of the map sessions
  ref,       \* ref[s]: ref_count
  handle,    \* handle[s]: the lua_Session userdata
  closes,    \* closes[s]: how often close was called on the handle
  locked,    \* the global lock is held for ever by a thread in lua_close
  status,    \* status[s]: "ready" or "running"
  tasks,     \* tasks[s]: the queue s->tasks
  sem,       \* sem[s]: the value of s->sem
  pool,      \* payloads submitted to the pool
  todo,      \* jobs nobody has queued yet
  pc, on, job,      \* the frame of session_run on a pool thread
  cpc, con, cjob,   \* the frame of a call on any thread
  fault      \* undefined behaviour the program has run into

registry == <<sessions, ref, handle, closes, locked>>
queues   == <<status, tasks, sem, pool>>
runs     == <<pc, on, job>>
calls    == <<cpc, con, cjob, todo>>
vars     == <<registry, queues, runs, calls, fault>>

RunPhase == {"idle", "ref", "lock", "task", "end", "free", "hung"}
CallPhase == {"idle", "push", "queued", "wait", "waited", "hung"}

TypeOK ==
  /\ sessions \subseteq Session
  /\ ref \in [Session -> Nat]
  /\ handle \in [Session -> {"none", "held", "collected"}]
  /\ closes \in [Session -> 0..MaxCloses]
  /\ locked \in BOOLEAN
  /\ status \in [Session -> {"ready", "running"}]
  /\ tasks \in [Session -> Seq(Job)]
  /\ sem \in [Session -> Nat]
  /\ pool \in Seq(Session)
  /\ todo \subseteq Job
  /\ pc \in [Worker -> RunPhase]
  /\ on \in [Worker -> Session \cup {NoSession}]
  /\ job \in [Worker -> Job \cup {NoJob}]
  /\ cpc \in [Thread -> CallPhase]
  /\ con \in [Thread -> Session \cup {NoSession}]
  /\ cjob \in [Thread -> Job \cup {NoJob}]
  /\ fault \in {"none", "freed", "null"}

Init ==
  /\ sessions = {}
  /\ ref = [s \in Session |-> 0]
  /\ handle = [s \in Session |-> "none"]
  /\ closes = [s \in Session |-> 0]
  /\ locked = FALSE
  /\ status = [s \in Session |-> "ready"]
  /\ tasks = [s \in Session |-> <<>>]
  /\ sem = [s \in Session |-> 0]
  /\ pool = <<>>
  /\ todo = Job
  /\ pc = [w \in Worker |-> "idle"]
  /\ on = [w \in Worker |-> NoSession]
  /\ job = [w \in Worker |-> NoJob]
  /\ cpc = [t \in Thread |-> "idle"]
  /\ con = [t \in Thread |-> NoSession]
  /\ cjob = [t \in Thread |-> NoJob]
  /\ fault = "none"

-----------------------------------------------------------------------------
(* The registry. *)

\* session_ref of a session that is found.
Ref(s) == /\ s \in sessions
          /\ ref' = [ref EXCEPT ![s] = @ + 1]
          /\ UNCHANGED <<sessions, handle, closes, locked>>

\* The last reference is about to go.
LastRef(s) == s \in sessions /\ ref[s] =< 1

\* lua_close runs __gc of the handles the state of s still holds, which calls
\* session_free, which locks the lock its caller holds.
Hangs(s) == LastRef(s) /\ \E c \in Session : OwnerOf[c] = s /\ handle[c] = "held"

\* session_free.  The status and the semaphore of a destroyed session are
\* left as they are: whoever touches them afterwards is recorded in fault.
Drop(s) ==
  /\ ~ locked
  /\ locked' = Hangs(s)
  /\ ref' = IF s \in sessions THEN [ref EXCEPT ![s] = @ - 1] ELSE ref
  /\ sessions' = IF LastRef(s) THEN sessions \ {s} ELSE sessions
  /\ tasks' = IF LastRef(s) THEN [tasks EXCEPT ![s] = <<>>] ELSE tasks
  /\ UNCHANGED <<status, sem, pool>>

\* Lua code runs on thread t: in a client, or in the task of a pool thread.
InLua(t) == cpc[t] = "idle" /\ (t \in Worker => pc[t] = "task")

\* The Lua state running on t holds the handle of s.
Owns(t, s) ==
  /\ handle[s] = "held"
  /\ InLua(t)
  /\ OwnerOf[s] = t \/ (t \in Worker /\ OwnerOf[s] = on[t])

\* lc_createsession and session_new.
Create(t, s) ==
  /\ handle[s] = "none"
  /\ InLua(t)
  /\ OwnerOf[s] = t \/ (t \in Worker /\ OwnerOf[s] = on[t])
  /\ ~ locked
  /\ sessions' = sessions \cup {s}
  /\ ref' = [ref EXCEPT ![s] = 1]
  /\ handle' = [handle EXCEPT ![s] = "held"]
  /\ UNCHANGED <<closes, locked, queues, runs, calls, fault>>

\* What the thread is left with when session_free does not return.
CallAfter(t, s) == cpc' = [cpc EXCEPT ![t] = IF Hangs(s) THEN "hung" ELSE "idle"]

\* luas_destroy, run by the collector of the state that holds the handle.
Collect(t, s) ==
  /\ Owns(t, s)
  /\ Drop(s)
  /\ handle' = [handle EXCEPT ![s] = "collected"]
  /\ CallAfter(t, s)
  /\ UNCHANGED <<closes, runs, con, cjob, todo, fault>>

\* luaS_close and session_close.  session_free returns SUCCESS, which is NULL,
\* so the part of session_close that would lock and destroy is never executed.
Close(t, s) ==
  /\ Owns(t, s)
  /\ closes[s] < MaxCloses
  /\ Drop(s)
  /\ closes' = [closes EXCEPT ![s] = @ + 1]
  /\ CallAfter(t, s)
  /\ UNCHANGED <<handle, runs, con, cjob, todo, fault>>

-----------------------------------------------------------------------------
(* session_queue_task, by any thread that runs Lua code: the owner of the  *)
(* session creates a task, or a channel callback resumes one.              *)

QueueRef(t, k) ==
  /\ InLua(t)
  /\ ~ locked
  /\ k \in todo
  /\ handle[SidOf[k]] # "none"
  /\ todo' = todo \ {k}
  /\ IF SidOf[k] \in sessions
       THEN /\ Ref(SidOf[k])
            /\ cpc' = [cpc EXCEPT ![t] = "push"]
            /\ con' = [con EXCEPT ![t] = SidOf[k]]
            /\ cjob' = [cjob EXCEPT ![t] = k]
       ELSE UNCHANGED <<registry, cpc, con, cjob>>   \* ERR_INVAL
  /\ UNCHANGED <<queues, runs, fault>>

\* Every access to a session in a critical section of its own lock.
Touch(s) == IF s \in sessions THEN fault' = fault ELSE fault' = "freed"

\* A mutant of QueuePush: the queue is a stack.
QueuePushFront(t) ==
  /\ cpc[t] = "push"
  /\ Touch(con[t])
  /\ tasks' = [tasks EXCEPT ![con[t]] = <<cjob[t]>> \o @]
  /\ pool' = IF status[con[t]] = "ready" THEN Append(pool, con[t]) ELSE pool
  /\ cpc' = [cpc EXCEPT ![t] = "queued"]
  /\ UNCHANGED <<registry, status, sem, runs, con, cjob, todo>>

QueuePush(t) ==
  /\ cpc[t] = "push"
  /\ Touch(con[t])
  /\ tasks' = [tasks EXCEPT ![con[t]] = Append(@, cjob[t])]
  /\ pool' = IF status[con[t]] = "ready" THEN Append(pool, con[t]) ELSE pool
  /\ cpc' = [cpc EXCEPT ![t] = "queued"]
  /\ UNCHANGED <<registry, status, sem, runs, con, cjob, todo>>

(* session_wait, by the state that holds the handle. *)

WaitRef(t, s) ==
  /\ Owns(t, s)
  /\ ~ locked
  /\ IF s \in sessions
       THEN /\ Ref(s)
            /\ cpc' = [cpc EXCEPT ![t] = "wait"]
            /\ con' = [con EXCEPT ![t] = s]
            /\ UNCHANGED fault
       ELSE /\ fault' = "null"     \* s->sem with s == NULL
            /\ UNCHANGED <<registry, cpc, con>>
  /\ UNCHANGED <<queues, runs, cjob, todo>>

\* A mutant of WaitDone: the wait returns at once.
WaitDoneAtOnce(t) ==
  /\ cpc[t] = "wait"
  /\ Touch(con[t])
  /\ sem' = [sem EXCEPT ![con[t]] = @ - 1]
  /\ cpc' = [cpc EXCEPT ![t] = "waited"]
  /\ UNCHANGED <<registry, status, tasks, pool, runs, con, cjob, todo>>

WaitDone(t) ==
  /\ cpc[t] = "wait"
  /\ sem[con[t]] > 0
  /\ Touch(con[t])
  /\ sem' = [sem EXCEPT ![con[t]] = @ - 1]
  /\ cpc' = [cpc EXCEPT ![t] = "waited"]
  /\ UNCHANGED <<registry, status, tasks, pool, runs, con, cjob, todo>>

\* The session_free at the end of session_queue_task and of session_wait.
CallFree(t) ==
  /\ cpc[t] \in {"queued", "waited"}
  /\ Drop(con[t])
  /\ CallAfter(t, con[t])
  /\ con' = [con EXCEPT ![t] = NoSession]
  /\ cjob' = [cjob EXCEPT ![t] = NoJob]
  /\ UNCHANGED <<handle, closes, runs, todo, fault>>

-----------------------------------------------------------------------------
(* session_run, called by the pool through session_thread. *)

\* The pool hands the oldest payload to a free thread (Executor!Start).
Take(w) ==
  /\ pc[w] = "idle"
  /\ pool # <<>>
  /\ pool' = Tail(pool)
  /\ on' = [on EXCEPT ![w] = Head(pool)]
  /\ pc' = [pc EXCEPT ![w] = "ref"]
  /\ UNCHANGED <<registry, status, tasks, sem, job, calls, fault>>

\* A mutant of RunRef: the session is looked up but not referenced.
RunRefBorrowed(w) ==
  /\ pc[w] = "ref"
  /\ ~ locked
  /\ pc' = [pc EXCEPT ![w] = IF on[w] \in sessions THEN "lock" ELSE "idle"]
  /\ on' = [on EXCEPT ![w] = IF on[w] \in sessions THEN @ ELSE NoSession]
  /\ UNCHANGED <<registry, queues, job, calls, fault>>

RunRef(w) ==
  /\ pc[w] = "ref"
  /\ ~ locked
  /\ IF on[w] \in sessions
       THEN /\ Ref(on[w])
            /\ pc' = [pc EXCEPT ![w] = "lock"]
            /\ UNCHANGED on
       ELSE /\ pc' = [pc EXCEPT ![w] = "idle"]     \* ERR_INVAL
            /\ on' = [on EXCEPT ![w] = NoSession]
            /\ UNCHANGED registry
  /\ UNCHANGED <<queues, job, calls, fault>>

\* The first critical section of session_run: leave if another thread runs the
\* session, else pop a job; there may be none.
Running(w) ==
  /\ status' = [status EXCEPT ![on[w]] = "running"]
  /\ IF tasks[on[w]] = <<>>
       THEN /\ pc' = [pc EXCEPT ![w] = "end"]
            /\ UNCHANGED <<tasks, job>>
       ELSE /\ pc' = [pc EXCEPT ![w] = "task"]
            /\ job' = [job EXCEPT ![w] = Head(tasks[on[w]])]
            /\ tasks' = [tasks EXCEPT ![on[w]] = Tail(@)]

\* Mutants of RunLock: the status is not looked at; the early return keeps the
\* reference.
RunLockUnchecked(w) ==
  /\ pc[w] = "lock"
  /\ Touch(on[w])
  /\ Running(w)
  /\ UNCHANGED <<registry, sem, pool, on, calls>>

RunLockKeepsRef(w) ==
  /\ pc[w] = "lock"
  /\ Touch(on[w])
  /\ IF status[on[w]] = "running"
       THEN /\ pc' = [pc EXCEPT ![w] = "idle"]
            /\ on' = [on EXCEPT ![w] = NoSession]
            /\ UNCHANGED <<status, tasks, job>>
       ELSE Running(w) /\ UNCHANGED on
  /\ UNCHANGED <<registry, sem, pool, calls>>

RunLock(w) ==
  /\ pc[w] = "lock"
  /\ Touch(on[w])
  /\ IF status[on[w]] = "running"
       THEN /\ pc' = [pc EXCEPT ![w] = "free"]
            /\ UNCHANGED <<status, tasks, job>>
       ELSE Running(w)
  /\ UNCHANGED <<registry, sem, pool, on, calls>>

\* task_run returns; the Lua code has no call in progress.
TaskDone(w) ==
  /\ pc[w] = "task"
  /\ cpc[w] = "idle"
  /\ pc' = [pc EXCEPT ![w] = "end"]
  /\ job' = [job EXCEPT ![w] = NoJob]
  /\ UNCHANGED <<registry, queues, on, calls, fault>>

\* Mutants of RunEnd: the pool is told, the waiters are not; the reverse.
RunEndNoPost(w) ==
  /\ pc[w] = "end"
  /\ Touch(on[w])
  /\ status' = [status EXCEPT ![on[w]] = "ready"]
  /\ pool' = IF tasks[on[w]] = <<>> THEN pool ELSE Append(pool, on[w])
  /\ pc' = [pc EXCEPT ![w] = "free"]
  /\ UNCHANGED <<registry, tasks, sem, on, job, calls>>

RunEndNoResubmit(w) ==
  /\ pc[w] = "end"
  /\ Touch(on[w])
  /\ status' = [status EXCEPT ![on[w]] = "ready"]
  /\ sem' = [sem EXCEPT ![on[w]] = @ + 1]
  /\ pc' = [pc EXCEPT ![w] = "free"]
  /\ UNCHANGED <<registry, tasks, pool, on, job, calls>>

\* The second critical section of session_run.
RunEnd(w) ==
  /\ pc[w] = "end"
  /\ Touch(on[w])
  /\ status' = [status EXCEPT ![on[w]] = "ready"]
  /\ IF tasks[on[w]] = <<>>
       THEN sem' = [sem EXCEPT ![on[w]] = @ + 1] /\ UNCHANGED pool
       ELSE pool' = Append(pool, on[w]) /\ UNCHANGED sem
  /\ pc' = [pc EXCEPT ![w] = "free"]
  /\ UNCHANGED <<registry, tasks, on, job, calls>>

RunFree(w) ==
  /\ pc[w] = "free"
  /\ Drop(on[w])
  /\ pc' = [pc EXCEPT ![w] = IF Hangs(on[w]) THEN "hung" ELSE "idle"]
  /\ on' = [on EXCEPT ![w] = NoSession]
  /\ UNCHANGED <<handle, closes, job, calls, fault>>

-----------------------------------------------------------------------------
\* Calls Lua code decides to make.
Begin(t) ==
  \/ \E k \in Job : QueueRef(t, k)
  \/ \E s \in Session : Create(t, s) \/ Collect(t, s) \/ Close(t, s) \/ WaitRef(t, s)

\* What a thread does once it is inside a call, or a run.
CallStep(t) == QueuePush(t) \/ WaitDone(t) \/ CallFree(t)
RunStep(w) == Take(w) \/ RunRef(w) \/ RunLock(w) \/ TaskDone(w) \/ RunEnd(w) \/ RunFree(w)

\* That a fault occurs is recorded in fault; the steps that follow one mean
\* nothing, and no property looks at them.
Next ==
  \/ \E t \in Thread : Begin(t) \/ CallStep(t)
  \/ \E w \in Worker : RunStep(w)

Spec == Init /\ [][Next]_vars

\* Threads are scheduled, the pool serves its queue (ThreadPool, with limits
\* that keep it staffed) and tasks return.  Nothing forces Lua code to call.
FairSpec ==
  /\ Spec
  /\ \A t \in Thread : WF_vars(CallStep(t))
  /\ \A w \in Worker : WF_vars(RunStep(w))

-----------------------------------------------------------------------------
\* Threads that have set status to running and not back to ready.
Runner(w, s) == on[w] = s /\ pc[w] \in {"task", "end"}
Runners(s) == {w \in Worker : Runner(w, s)}

\* A session is running exactly while one thread is between the two critical
\* sections of session_run, and never two: its Lua state has one user.
OneRunner ==
  \A s \in Session :
    /\ \A v, w \in Runners(s) : v = w
    /\ status[s] = "running" <=> Runners(s) # {}

\* A thread will call session_run for s, or has begun to, and has not looked
\* at the queue yet.
Alerted(s) ==
  \/ \E i \in DOMAIN pool : pool[i] = s
  \/ \E w \in Worker : on[w] = s /\ pc[w] \in {"ref", "lock"}

\* The sessions on whose handle no code has called close.  close followed by
\* the collection of the handle drops one reference twice; the comment at
\* lc_session.c:173 has close wait for the tasks, which it does not.
Unclosed == {s \in Session : closes[s] = 0}

\* While a session that is not running has jobs, its id is in the pool or with
\* a pool thread: no push goes unnoticed, whether it came before, during or
\* after a run.  That is so until the session is closed, whatever is done to
\* other sessions.
NoLostWakeup ==
  \A s \in Unclosed : tasks[s] # <<>> /\ status[s] = "ready" => Alerted(s)

\* The references on s: its handle, the threads in a run or a call.
RunRefs(s) == {w \in Worker : on[w] = s /\ pc[w] \in {"lock", "task", "end", "free"}}
CallRefs(s) == {t \in Thread : con[t] = s /\ cpc[t] # "idle"}
HandleRefs(s) == IF handle[s] = "held" THEN 1 ELSE 0

\* Until it is closed, the ref_count of a session is the number of those who
\* hold a reference, on every path through the code, and it is in the registry
\* as long as there is one, whatever is done to other sessions.
RefsAccounted ==
  \A s \in Unclosed :
    /\ ref[s] = HandleRefs(s) + Cardinality(RunRefs(s)) + Cardinality(CallRefs(s))
    /\ s \in sessions <=> ref[s] > 0

\* Nothing of a destroyed session is touched.
NothingFreedTouched == fault # "freed"

\* That is so until somebody calls close.
NoUseAfterFree == Unclosed = Session => NothingFreedTouched

\* session_wait finds its session.
NoNullSession == fault # "null"

\* session_free always gives the global lock back.
LockReleased == ~ locked

\* Jobs are not thrown away: a session in which nobody is interested any more
\* is destroyed only when its queue is empty.
NothingDiscarded ==
  [][\A s \in Session : s \in sessions \ sessions' => tasks[s] = <<>>]_vars

\* What keeps a thread that is scheduled from getting on with jobs: the global
\* lock is lost in lua_close, or a pool thread other than t sits in session_wait,
\* which blocks its session and which nothing need ever end.
Obstructed(t) == locked \/ \E w \in Worker \ {t} : cpc[w] = "wait"

\* Queued jobs are begun, or their session closed or destroyed, unless the
\* program is obstructed for ever.
QueueDrains ==
  \A s \in Session :
    tasks[s] # <<>> ~> (tasks[s] = <<>> \/ closes[s] > 0 \/ Obstructed(NoSession))

\* A thread waiting for a session with jobs to execute is released, with the
\* same exceptions: that it waits itself is none.
WaiterReleased ==
  \A t \in Thread :
    (cpc[t] = "wait" /\ tasks[con[t]] # <<>>)
      ~> (cpc[t] # "wait" \/ closes[con[t]] > 0 \/ Obstructed(t))

\* Threads blocked in session_wait never occupy the whole pool while the
\* sessions they wait for have jobs queued or running: nobody would be left to
\* execute them.
PoolNotExhausted ==
  ~ \A w \in Worker : /\ cpc[w] = "wait" /\ sem[con[w]] = 0
                      /\ tasks[con[w]] # <<>> \/ Runners(con[w]) # {}

\* Jobs of a session that is not closed execute one at a time in the order in
\* which they were queued.
PendingOf(s) == IF closes[s] = 0 THEN tasks[s] ELSE <<>>
CurrentOf(s) ==
  IF closes[s] = 0 /\ \E w \in Worker : on[w] = s /\ pc[w] = "task"
    THEN job[CHOOSE w \in Worker : on[w] = s /\ pc[w] = "task"]
    ELSE NoJob
Order == INSTANCE Serial WITH pending <- [s \in Session |-> PendingOf(s)],
                              current <- [s \in Session |-> CurrentOf(s)],
                              closed <- {s \in Session : closes[s] > 0}
SerialSpec == Order!Spec

=============================================================================

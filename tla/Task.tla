-------------------------------- MODULE Task ---------------------------------
(***************************************************************************)
(* Tasks (lc_task.c): the registry of tasks and their reference counts,    *)
(* task_run, task_resume, task_yield, the __gc of a task handle and the    *)
(* thread-local current task that lc_channel.c asks for.                   *)
(*                                                                         *)
(* The critical sections of the lock of the registry are actions, and so   *)
(* are the accesses to task_t outside of it, which rely on the reference   *)
(* count.  A session executes its jobs as module Serial says and module    *)
(* Session does.  Every caller passes a message, so a job is a task id.    *)
(***************************************************************************)
EXTENDS Integers, Sequences, FiniteSets

CONSTANTS
  Task,        \* task ids; task_new never gives one out twice
  Session,     \* sessions, which outlive their tasks here
  Worker,      \* pool threads
  Client,      \* threads of the host program
  SidOf,       \* SidOf[k]: t->sid
  OwnerOf,     \* OwnerOf[k]: the client or session whose code creates k
  Blocking,    \* tasks that read or write channels
  Yielding,    \* tasks that call coroutine.yield
  MaxResumes,  \* bound of the model: calls of task:resume
  MaxBlocks,   \* bound of the model: reads and writes
  NoTask, NoSession

Thread == Worker \cup Client

ASSUME TaskAssumption ==
  /\ IsFiniteSet(Worker) /\ IsFiniteSet(Client) /\ Worker \cap Client = {}
  /\ SidOf \in [Task -> Session]
  /\ OwnerOf \in [Task -> Client \cup Session]
  /\ Blocking \subseteq Task /\ Yielding \subseteq Task
  /\ MaxResumes \in Nat /\ MaxBlocks \in Nat
  /\ NoTask \notin Task /\ NoSession \notin Session

VARIABLES
  tasks,    \* the keys of the map tasks
  ref,      \* ref[k]: ref_count
  handle,   \* handle[k]: the lua_Task userdata
  status,   \* status[k]: t->status
  co,       \* co[k]: what Lua knows of the coroutine t->L
  queue,    \* queue[s]: s->tasks, the jobs of session s
  owed,     \* owed[k]: channel callbacks registered for k and not made
  pc,       \* pc[w]: where pool thread w is in task_run
  job,      \* job[w]: the task it was called for
  rc,       \* rc[w]: the result of lua_resume
  current,  \* current[t]: what task_key holds for thread t
  cpc, con, \* the frame of task_resume on a thread, and its task
  resumes, blocks   \* calls made so far

registry == <<tasks, ref, handle>>
runs     == <<pc, job, rc, current>>
calls    == <<cpc, con>>
bounds   == <<resumes, blocks>>
vars     == <<registry, status, co, queue, owed, runs, calls, bounds>>

RunPhase == {"idle", "ref", "enter", "lua", "blocking", "left", "free"}
CallPhase == {"idle", "ref", "status", "queue", "unref", "push"}

TypeOK ==
  /\ tasks \subseteq Task
  /\ ref \in [Task -> Nat]
  /\ handle \in [Task -> {"none", "held", "collected"}]
  /\ status \in [Task -> {"ready", "running", "suspended", "finished", "error"}]
  /\ co \in [Task -> {"none", "running", "yielded", "dead"}]
  /\ queue \in [Session -> Seq(Task)]
  /\ owed \in [Task -> Nat]
  /\ pc \in [Worker -> RunPhase]
  /\ job \in [Worker -> Task \cup {NoTask}]
  /\ rc \in [Worker -> {"ok", "yield", "error", "other"}]
  /\ current \in [Thread -> Task \cup {NoTask}]
  /\ cpc \in [Thread -> CallPhase]
  /\ con \in [Thread -> Task \cup {NoTask}]
  /\ resumes \in 0..MaxResumes /\ blocks \in 0..MaxBlocks

Init ==
  /\ tasks = {}
  /\ ref = [k \in Task |-> 0]
  /\ handle = [k \in Task |-> "none"]
  /\ status = [k \in Task |-> "ready"]
  /\ co = [k \in Task |-> "none"]
  /\ queue = [s \in Session |-> <<>>]
  /\ owed = [k \in Task |-> 0]
  /\ pc = [w \in Worker |-> "idle"]
  /\ job = [w \in Worker |-> NoTask]
  /\ rc = [w \in Worker |-> "ok"]
  /\ current = [t \in Thread |-> NoTask]
  /\ cpc = [t \in Thread |-> "idle"]
  /\ con = [t \in Thread |-> NoTask]
  /\ resumes = 0 /\ blocks = 0

-----------------------------------------------------------------------------
(* The registry. *)

\* task_ref of a task that is found.
Ref(k) == k \in tasks /\ ref' = [ref EXCEPT ![k] = @ + 1] /\ UNCHANGED <<tasks, handle>>

\* task_free.
Drop(k) ==
  /\ ref' = IF k \in tasks THEN [ref EXCEPT ![k] = @ - 1] ELSE ref
  /\ tasks' = IF ref[k] =< 1 THEN tasks \ {k} ELSE tasks

\* Lua code runs on t: a client's own, a task, or a channel function that calls
\* the callbacks of other tasks before its own task yields.
InCall(t) == cpc[t] = "idle" /\ (t \in Worker => pc[t] \in {"lua", "blocking"})
InLua(t) == cpc[t] = "idle" /\ (t \in Worker => pc[t] = "lua")

\* The state that runs on t is the one that created k.
Creator(t, k) == InLua(t) /\ (OwnerOf[k] = t \/ (t \in Worker /\ OwnerOf[k] = SidOf[job[t]]))

Call(t, k) == cpc' = [cpc EXCEPT ![t] = "ref"] /\ con' = [con EXCEPT ![t] = k]
EndCall(t) == cpc' = [cpc EXCEPT ![t] = "idle"] /\ con' = [con EXCEPT ![t] = NoTask]
GoOn(t, p) == cpc' = [cpc EXCEPT ![t] = p] /\ UNCHANGED con

\* luaS_createtask: lc_createtask and task_new, then task_resume.
Create(t, k) ==
  /\ handle[k] = "none"
  /\ Creator(t, k)
  /\ tasks' = tasks \cup {k}
  /\ ref' = [ref EXCEPT ![k] = 1]
  /\ handle' = [handle EXCEPT ![k] = "held"]
  /\ Call(t, k)
  /\ UNCHANGED <<status, co, queue, owed, runs, bounds>>

\* luat_destroy, run by the collector of the state that holds the handle.
Collect(t, k) ==
  /\ handle[k] = "held"
  /\ Creator(t, k)
  /\ Drop(k)
  /\ handle' = [handle EXCEPT ![k] = "collected"]
  /\ UNCHANGED <<status, co, queue, owed, runs, calls, bounds>>

-----------------------------------------------------------------------------
(* task_resume and the part of session_queue_task that concerns the task. *)

\* luat_resume, on a handle.
Resume(t, k) ==
  /\ handle[k] = "held"
  /\ Creator(t, k)
  /\ resumes < MaxResumes
  /\ resumes' = resumes + 1
  /\ Call(t, k)
  /\ UNCHANGED <<registry, status, co, queue, owed, runs, blocks>>

\* task_callback, on whatever thread uses the other end of the channel.
Answer(t, k) ==
  /\ owed[k] > 0
  /\ InCall(t)
  /\ owed' = [owed EXCEPT ![k] = @ - 1]
  /\ Call(t, k)
  /\ UNCHANGED <<registry, status, co, queue, runs, bounds>>

CallRef(t) ==
  /\ cpc[t] \in {"ref", "queue"}
  /\ IF con[t] \in tasks
       THEN Ref(con[t]) /\ GoOn(t, IF cpc[t] = "ref" THEN "status" ELSE "unref")
       ELSE EndCall(t) /\ UNCHANGED registry     \* ERR_INVAL
  /\ UNCHANGED <<status, co, queue, owed, runs, bounds>>

\* A mutant of CallStatus: a task that is not suspended is refused.
CallStatusStrict(t) ==
  /\ cpc[t] = "status"
  /\ Drop(con[t])
  /\ IF status[con[t]] \notin {"ready", "suspended"}
       THEN EndCall(t) ELSE GoOn(t, "queue")
  /\ UNCHANGED <<handle, status, co, queue, owed, runs, bounds>>

\* The status is read without the lock; then the reference is given back.
CallStatus(t) ==
  /\ cpc[t] = "status"
  /\ Drop(con[t])
  /\ IF status[con[t]] \in {"finished", "error"}
       THEN EndCall(t)                            \* ERR_TASKSTATE
       ELSE GoOn(t, "queue")
  /\ UNCHANGED <<handle, status, co, queue, owed, runs, bounds>>

\* session_queue_task knows the session and gives the task back.
CallUnref(t) ==
  /\ cpc[t] = "unref"
  /\ Drop(con[t])
  /\ GoOn(t, "push")
  /\ UNCHANGED <<handle, status, co, queue, owed, runs, bounds>>

CallPush(t) ==
  /\ cpc[t] = "push"
  /\ queue' = [queue EXCEPT ![SidOf[con[t]]] = Append(@, con[t])]
  /\ EndCall(t)
  /\ UNCHANGED <<registry, status, co, owed, runs, bounds>>

-----------------------------------------------------------------------------
(* task_run, called by session_run. *)

\* The sessions whose jobs are being run, each by one thread.
Busy == {SidOf[job[w]] : w \in {v \in Worker : pc[v] # "idle"}}

\* A thread runs the oldest job of a session no other thread runs (Serial!Begin).
Start(w, s) ==
  /\ pc[w] = "idle"
  /\ s \notin Busy
  /\ queue[s] # <<>>
  /\ job' = [job EXCEPT ![w] = Head(queue[s])]
  /\ queue' = [queue EXCEPT ![s] = Tail(@)]
  /\ pc' = [pc EXCEPT ![w] = "ref"]
  /\ UNCHANGED <<registry, status, co, owed, rc, current, calls, bounds>>

\* A mutant of RunRef: the task is looked up, not referenced.
RunRefBorrowed(w) ==
  /\ pc[w] = "ref"
  /\ IF job[w] \in tasks
       THEN /\ pc' = [pc EXCEPT ![w] = "enter"]
            /\ current' = [current EXCEPT ![w] = IF @ = NoTask THEN job[w] ELSE @]
            /\ UNCHANGED job
       ELSE /\ pc' = [pc EXCEPT ![w] = "idle"]
            /\ job' = [job EXCEPT ![w] = NoTask]
            /\ UNCHANGED current
  /\ UNCHANGED <<registry, status, co, queue, owed, rc, calls, bounds>>

\* task_ref and task_set_current, which writes only once per thread.
RunRef(w) ==
  /\ pc[w] = "ref"
  /\ IF job[w] \in tasks
       THEN /\ Ref(job[w])
            /\ pc' = [pc EXCEPT ![w] = "enter"]
            /\ current' = [current EXCEPT ![w] = IF @ = NoTask THEN job[w] ELSE @]
            /\ UNCHANGED job
       ELSE /\ pc' = [pc EXCEPT ![w] = "idle"]     \* ERR_INVAL
            /\ job' = [job EXCEPT ![w] = NoTask]
            /\ UNCHANGED <<registry, current>>
  /\ UNCHANGED <<status, co, queue, owed, rc, calls, bounds>>

\* A mutant of Enter: every task that is not running is resumed.
EnterAny(w) ==
  /\ pc[w] = "enter"
  /\ status[job[w]] # "running"
  /\ status' = [status EXCEPT ![job[w]] = "running"]
  /\ co' = [co EXCEPT ![job[w]] = "running"]
  /\ pc' = [pc EXCEPT ![w] = "lua"]
  /\ UNCHANGED <<registry, queue, owed, job, rc, current, calls, bounds>>

\* Another: only the first start is known.
EnterReady(w) ==
  /\ pc[w] = "enter"
  /\ IF status[job[w]] = "ready"
       THEN /\ status' = [status EXCEPT ![job[w]] = "running"]
            /\ co' = [co EXCEPT ![job[w]] = "running"]
            /\ pc' = [pc EXCEPT ![w] = "lua"]
       ELSE /\ pc' = [pc EXCEPT ![w] = "left"]
            /\ UNCHANGED <<status, co>>
  /\ UNCHANGED <<registry, queue, owed, job, rc, current, calls, bounds>>

\* The switch of task_run, up to the start of lua_resume.  A task in any other
\* state than these two is not resumed, and rc keeps its initial 0.
Enter(w) ==
  /\ pc[w] = "enter"
  /\ IF status[job[w]] \in {"ready", "suspended"}
       THEN /\ status' = [status EXCEPT ![job[w]] = "running"]
            /\ co' = [co EXCEPT ![job[w]] = "running"]
            /\ pc' = [pc EXCEPT ![w] = "lua"]
       ELSE /\ pc' = [pc EXCEPT ![w] = "left"]
            /\ UNCHANGED <<status, co>>
  /\ UNCHANGED <<registry, queue, owed, job, rc, current, calls, bounds>>

\* lua_resume returns: the function has returned, has failed (LUA_ERRRUN, or
\* another error), or has called coroutine.yield.
Outcome(w, r) ==
  /\ InLua(w)
  /\ r = "yield" => job[w] \in Yielding
  /\ rc' = [rc EXCEPT ![w] = r]
  /\ co' = [co EXCEPT ![job[w]] = IF r = "yield" THEN "yielded" ELSE "dead"]
  /\ pc' = [pc EXCEPT ![w] = "left"]
  /\ UNCHANGED <<registry, status, queue, owed, job, current, calls, bounds>>

\* luac_read or luac_write registers a callback for task_current().
Block(w) ==
  /\ InLua(w)
  /\ job[w] \in Blocking
  /\ blocks < MaxBlocks
  /\ blocks' = blocks + 1
  /\ owed' = [owed EXCEPT ![current[w]] = @ + 1]
  /\ pc' = [pc EXCEPT ![w] = "blocking"]
  /\ UNCHANGED <<registry, status, co, queue, job, rc, current, calls, resumes>>

\* task_yield(task_current()).  lua_yield suspends the coroutine it is given; if
\* that is another one the coroutine that runs ends, and lua_resume returns 0.
Yield(w) ==
  /\ pc[w] = "blocking" /\ cpc[w] = "idle"
  /\ LET own == current[w] = job[w] IN
       /\ rc' = [rc EXCEPT ![w] = IF own THEN "yield" ELSE "ok"]
       /\ co' = [co EXCEPT ![job[w]] = IF own THEN "yielded" ELSE "dead"]
  /\ pc' = [pc EXCEPT ![w] = "left"]
  /\ UNCHANGED <<registry, status, queue, owed, job, current, calls, bounds>>

\* What task_run makes of rc.
Leave(w) ==
  /\ pc[w] = "left"
  /\ status' = [status EXCEPT ![job[w]] =
       CASE rc[w] = "error" -> "error"
         [] rc[w] = "yield" -> "suspended"
         [] rc[w] = "ok" -> "finished"
         [] OTHER -> @]
  /\ pc' = [pc EXCEPT ![w] = "free"]
  /\ UNCHANGED <<registry, co, queue, owed, job, rc, current, calls, bounds>>

\* task_set_current(0), which changes nothing, task_free, and the end of
\* the frame; the next task_run starts with an rc of 0.
RunFree(w) ==
  /\ pc[w] = "free"
  /\ Drop(job[w])
  /\ pc' = [pc EXCEPT ![w] = "idle"]
  /\ job' = [job EXCEPT ![w] = NoTask]
  /\ rc' = [rc EXCEPT ![w] = "ok"]
  /\ UNCHANGED <<handle, status, co, queue, owed, current, calls, bounds>>

-----------------------------------------------------------------------------
Begin(t) == \E k \in Task : Create(t, k) \/ Collect(t, k) \/ Resume(t, k) \/ Answer(t, k)
CallStep(t) == CallRef(t) \/ CallStatus(t) \/ CallUnref(t) \/ CallPush(t)
RunStep(w) ==
  \/ \E s \in Session : Start(w, s)
  \/ RunRef(w) \/ Enter(w) \/ Yield(w) \/ Leave(w) \/ RunFree(w)
Lua(w) == Block(w) \/ \E r \in {"ok", "yield", "error", "other"} : Outcome(w, r)

Next ==
  \/ \E t \in Thread : Begin(t) \/ CallStep(t)
  \/ \E w \in Worker : RunStep(w) \/ Lua(w)

Spec == Init /\ [][Next]_vars

\* Threads are scheduled, sessions serve their queues (Session) and the
\* functions of tasks come to an end or to a yield.
FairSpec ==
  /\ Spec
  /\ \A t \in Thread : WF_vars(CallStep(t))
  /\ \A w \in Worker : WF_vars(RunStep(w)) /\ WF_vars(Lua(w))

-----------------------------------------------------------------------------
\* Threads inside task_run, task_resume or session_queue_task that use the
\* task_t of k.
RunRefs(k) == {w \in Worker : job[w] = k /\ pc[w] \notin {"idle", "ref"}}
CallRefs(k) == {t \in Thread : con[t] = k /\ cpc[t] \in {"status", "unref"}}
HandleRefs(k) == IF handle[k] = "held" THEN 1 ELSE 0

\* ref_count is the number of those who hold a reference, on every path.
RefsAccounted ==
  \A k \in Task :
    /\ ref[k] = HandleRefs(k) + Cardinality(RunRefs(k)) + Cardinality(CallRefs(k))
    /\ k \in tasks <=> ref[k] > 0

\* lua_resume is called on coroutines that have not been started or have
\* yielded only, however many resumes of the task were queued at once.
ResumedWhenSuspended ==
  [][\A k \in Task : co'[k] = "running" /\ co[k] # "running" => co[k] \in {"none", "yielded"}]_vars

Queued(k) == \E s \in Session : k \in {queue[s][i] : i \in DOMAIN queue[s]}

\* A suspended task that was queued is resumed, unless its handle is collected.
QueuedTaskRuns ==
  \A k \in Task :
    (status[k] = "suspended" /\ Queued(k)) ~> (co[k] = "running" \/ k \notin tasks)

\* The thread-local current task is the task whose code is running.
CurrentIsOwn == \A w \in Worker : pc[w] \in {"lua", "blocking"} => current[w] = job[w]

\* A task that was created and queued is run.
QueuedTaskExists == \A w \in Worker : pc[w] = "ref" => job[w] \in tasks

=============================================================================

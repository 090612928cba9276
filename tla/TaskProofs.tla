----------------------------- MODULE TaskProofs ------------------------------
(***************************************************************************)
(* Proofs about Task, for any tasks, sessions, threads and bounds: the     *)
(* types, the reference counts, that only a coroutine that has not started *)
(* or has yielded is resumed, that the status of a task tells those who    *)
(* resume it the truth about its coroutine, and that what has ended stays  *)
(* so.                                                                     *)
(***************************************************************************)
EXTENDS Task, FiniteSetTheorems, TLAPS

\* A thread names a task exactly while it is in a frame.
Frames ==
  /\ \A w \in Worker : pc[w] = "idle" <=> job[w] = NoTask
  /\ \A t \in Thread : cpc[t] = "idle" <=> con[t] = NoTask

\* The tasks that have been created.  Only they are named anywhere, and a queue
\* holds tasks of its session only.
Known == {k \in Task : handle[k] # "none"}

Created ==
  /\ \A w \in Worker : job[w] # NoTask => job[w] \in Known
  /\ \A t \in Thread : con[t] # NoTask => con[t] \in Known
  /\ \A t \in Thread : current[t] # NoTask => current[t] \in Known
  /\ \A k \in Task : owed[k] > 0 => k \in Known
  /\ \A s \in Session : \A i \in 1..Len(queue[s]) : queue[s][i] \in Known /\ SidOf[queue[s][i]] = s

\* A session is run by one thread, so a task is.
Exclusive ==
  \A v, w \in Worker :
    v # w /\ pc[v] # "idle" /\ pc[w] # "idle" => SidOf[job[v]] # SidOf[job[w]]

\* t->status and what Lua knows of the coroutine, at rest and while the task runs.
Coroutines ==
  /\ \A k \in Task : status[k] = "ready" => co[k] = "none"
  /\ \A k \in Task : status[k] = "suspended" => co[k] = "yielded"
  /\ \A w \in Worker :
       /\ pc[w] \in {"idle", "ref", "enter"} => rc[w] = "ok"
       /\ pc[w] \in {"lua", "blocking", "left"} => status[job[w]] \notin {"ready", "suspended"}
       /\ pc[w] = "left" /\ rc[w] = "yield" => co[job[w]] = "yielded"

\* A task that is neither ready nor suspended has ended, or is on its thread
\* between lua_resume and the assignment of its next status.  task_run gets to
\* that assignment without lua_resume for tasks that have ended only.
Ended ==
  /\ \A k \in Task : status[k] \in {"finished", "error"} => co[k] = "dead"
  /\ \A k \in Task : status[k] = "running" =>
       co[k] = "dead" \/ \E w \in Worker : job[w] = k /\ pc[w] \in {"lua", "blocking", "left"}
  /\ \A w \in Worker :
       /\ pc[w] \in {"lua", "blocking"} => status[job[w]] = "running" /\ co[job[w]] = "running"
       /\ pc[w] = "left" /\ rc[w] # "yield" => co[job[w]] = "dead"

Shape == TypeOK /\ Frames /\ Created /\ Exclusive

IInv == Shape /\ RefsAccounted /\ Coroutines /\ Ended

-----------------------------------------------------------------------------
(* Counting the holders of a reference. *)

\* The holders of references are finite sets.
LEMMA FiniteHolders ==
  ASSUME NEW k \in Task
  PROVE  /\ IsFiniteSet(RunRefs(k)) /\ Cardinality(RunRefs(k)) \in Nat
         /\ IsFiniteSet(CallRefs(k)) /\ Cardinality(CallRefs(k)) \in Nat
         /\ HandleRefs(k) \in {0, 1}
<1>1. IsFiniteSet(Worker) /\ IsFiniteSet(Thread)
  BY TaskAssumption, FS_Union DEF Thread
<1>2. RunRefs(k) \subseteq Worker /\ CallRefs(k) \subseteq Thread
  BY DEF RunRefs, CallRefs
<1>3. QED
  BY <1>1, <1>2, FS_Subset, FS_CardinalityType DEF HandleRefs

\* Whoever holds a reference keeps the task in the registry.
LEMMA HolderAlive ==
  ASSUME TypeOK, RefsAccounted, NEW k \in Task
  PROVE  /\ handle[k] = "held" => k \in tasks
         /\ \A w \in Worker : job[w] = k /\ pc[w] \notin {"idle", "ref"} => k \in tasks
         /\ \A t \in Thread : con[t] = k /\ cpc[t] \in {"status", "unref"} => k \in tasks
<1>1. ref[k] = HandleRefs(k) + Cardinality(RunRefs(k)) + Cardinality(CallRefs(k))
      /\ (k \in tasks <=> ref[k] > 0)
  BY DEF RefsAccounted
<1>2. handle[k] = "held" => HandleRefs(k) = 1
  BY DEF HandleRefs
<1>3. ASSUME NEW w \in Worker, job[w] = k, pc[w] \notin {"idle", "ref"} PROVE k \in tasks
  <2>1. w \in RunRefs(k)
    BY <1>3 DEF RunRefs
  <2>2. Cardinality(RunRefs(k)) # 0
    BY <2>1, FiniteHolders, FS_EmptySet
  <2>3. QED
    BY <1>1, <2>2, FiniteHolders
<1>4. ASSUME NEW t \in Thread, con[t] = k, cpc[t] \in {"status", "unref"} PROVE k \in tasks
  <2>1. t \in CallRefs(k)
    BY <1>4 DEF CallRefs
  <2>2. Cardinality(CallRefs(k)) # 0
    BY <2>1, FiniteHolders, FS_EmptySet
  <2>3. QED
    BY <1>1, <2>2, FiniteHolders
<1>5. QED
  BY <1>1, <1>2, <1>3, <1>4, FiniteHolders

\* task_run has referenced its task.
LEMMA RunBegins ==
  ASSUME TypeOK, NEW w \in Worker, NEW c \in Task, NEW k \in Task,
         job[w] = c, pc[w] = "ref", pc' = [pc EXCEPT ![w] = "enter"], job' = job
  PROVE  Cardinality(RunRefs(k)') = Cardinality(RunRefs(k)) + IF k = c THEN 1 ELSE 0
<1>1. pc'[w] = "enter" /\ \A y \in Worker : y # w => pc'[y] = pc[y]
  BY DEF TypeOK
<1>2. CASE k = c
  <2>1. RunRefs(k)' = RunRefs(k) \cup {w} /\ w \notin RunRefs(k)
    BY <1>1, <1>2 DEF RunRefs
  <2>2. Cardinality(RunRefs(k) \cup {w}) = Cardinality(RunRefs(k)) + 1
    BY <2>1, FiniteHolders, FS_AddElement
  <2>3. QED
    BY <1>2, <2>1, <2>2
<1>3. CASE k # c
  <2>1. RunRefs(k)' = RunRefs(k)
    BY <1>1, <1>3 DEF RunRefs
  <2>2. QED
    BY <1>3, <2>1, FiniteHolders
<1>4. QED
  BY <1>2, <1>3

\* task_run gives its task back.
LEMMA RunEnds ==
  ASSUME TypeOK, NEW w \in Worker, NEW c \in Task, NEW k \in Task,
         job[w] = c, pc[w] = "free",
         pc' = [pc EXCEPT ![w] = "idle"], job' = [job EXCEPT ![w] = NoTask]
  PROVE  Cardinality(RunRefs(k)') = Cardinality(RunRefs(k)) - IF k = c THEN 1 ELSE 0
<1>1. pc'[w] = "idle" /\ \A y \in Worker : y # w => pc'[y] = pc[y] /\ job'[y] = job[y]
  BY DEF TypeOK
<1>2. CASE k = c
  <2>1. RunRefs(k)' = RunRefs(k) \ {w} /\ w \in RunRefs(k)
    BY <1>1, <1>2 DEF RunRefs
  <2>2. Cardinality(RunRefs(k) \ {w}) = Cardinality(RunRefs(k)) - 1
    BY <2>1, FiniteHolders, FS_RemoveElement
  <2>3. QED
    BY <1>2, <2>1, <2>2
<1>3. CASE k # c
  <2>1. RunRefs(k)' = RunRefs(k)
    BY <1>1, <1>3 DEF RunRefs
  <2>2. QED
    BY <1>3, <2>1, FiniteHolders
<1>4. QED
  BY <1>2, <1>3

\* task_resume or session_queue_task has referenced its task.
LEMMA CallBegins ==
  ASSUME TypeOK, NEW t \in Thread, NEW c \in Task, NEW k \in Task,
         NEW p \in {"status", "unref"},
         con[t] = c, cpc[t] \in {"ref", "queue"}, cpc' = [cpc EXCEPT ![t] = p], con' = con
  PROVE  Cardinality(CallRefs(k)') = Cardinality(CallRefs(k)) + IF k = c THEN 1 ELSE 0
<1>1. cpc'[t] = p /\ \A y \in Thread : y # t => cpc'[y] = cpc[y]
  BY DEF TypeOK
<1>2. CASE k = c
  <2>1. CallRefs(k)' = CallRefs(k) \cup {t} /\ t \notin CallRefs(k)
    BY <1>1, <1>2 DEF CallRefs
  <2>2. Cardinality(CallRefs(k) \cup {t}) = Cardinality(CallRefs(k)) + 1
    BY <2>1, FiniteHolders, FS_AddElement
  <2>3. QED
    BY <1>2, <2>1, <2>2
<1>3. CASE k # c
  <2>1. CallRefs(k)' = CallRefs(k)
    BY <1>1, <1>3 DEF CallRefs
  <2>2. QED
    BY <1>3, <2>1, FiniteHolders
<1>4. QED
  BY <1>2, <1>3

\* It gives the task back.
LEMMA CallEnds ==
  ASSUME TypeOK, NEW t \in Thread, NEW c \in Task, NEW k \in Task,
         con[t] = c, cpc[t] \in {"status", "unref"}, cpc'[t] \notin {"status", "unref"},
         \A y \in Thread : y # t => cpc'[y] = cpc[y] /\ con'[y] = con[y]
  PROVE  Cardinality(CallRefs(k)') = Cardinality(CallRefs(k)) - IF k = c THEN 1 ELSE 0
<1>1. CASE k = c
  <2>1. CallRefs(k)' = CallRefs(k) \ {t} /\ t \in CallRefs(k)
    BY <1>1 DEF CallRefs
  <2>2. Cardinality(CallRefs(k) \ {t}) = Cardinality(CallRefs(k)) - 1
    BY <2>1, FiniteHolders, FS_RemoveElement
  <2>3. QED
    BY <1>1, <2>1, <2>2
<1>2. CASE k # c
  <2>1. CallRefs(k)' = CallRefs(k)
    BY <1>2 DEF CallRefs
  <2>2. QED
    BY <1>2, <2>1, FiniteHolders
<1>3. QED
  BY <1>1, <1>2

\* task_ref and task_free keep a task registered while its count is positive.
LEMMA CountMoved ==
  ASSUME TypeOK, RefsAccounted, NEW c \in Task, NEW k \in Task
  PROVE  /\ Ref(c) => /\ ref'[k] = ref[k] + IF k = c THEN 1 ELSE 0
                      /\ k \in tasks' <=> ref'[k] > 0
         /\ c \in tasks /\ Drop(c) => /\ ref'[k] = ref[k] - IF k = c THEN 1 ELSE 0
                                      /\ k \in tasks' <=> ref'[k] > 0
<1>1. ref[k] \in Nat /\ (k \in tasks <=> ref[k] > 0) /\ (c \in tasks <=> ref[c] > 0)
  BY DEF TypeOK, RefsAccounted
<1>2. Ref(c) => ref'[k] = ref[k] + (IF k = c THEN 1 ELSE 0) /\ tasks' = tasks /\ c \in tasks
  BY DEF Ref, TypeOK
<1>3. c \in tasks /\ Drop(c) =>
        /\ ref'[k] = ref[k] - (IF k = c THEN 1 ELSE 0)
        /\ tasks' = IF ref[c] =< 1 THEN tasks \ {c} ELSE tasks
  BY DEF Drop, TypeOK
<1>4. QED
  BY <1>1, <1>2, <1>3

-----------------------------------------------------------------------------
(* Types and frames. *)

\* Every step keeps the types.  That a count stays positive is what the
\* references are for.
LEMMA StepTypes == Shape /\ RefsAccounted /\ [Next]_vars => TypeOK'
<1> SUFFICES ASSUME Shape, RefsAccounted, [Next]_vars PROVE TypeOK'
  OBVIOUS
<1> USE DEF RunPhase, CallPhase
<1>0. TypeOK /\ Frames /\ Created /\ NoTask \notin Task /\ Worker \subseteq Thread
  BY TaskAssumption DEF Shape, Thread
<1>a. ASSUME NEW c \in tasks, Drop(c) PROVE ref' \in [Task -> Nat] /\ tasks' \subseteq Task
  <2>1. ref[c] > 0 /\ c \in Task
    BY <1>0, <1>a DEF TypeOK, RefsAccounted
  <2>2. QED
    BY <1>0, <1>a, <2>1 DEF Drop, TypeOK
<1>b. ASSUME NEW c \in Task, Ref(c) PROVE ref' \in [Task -> Nat] /\ tasks' \subseteq Task
  BY <1>0, <1>b DEF Ref, TypeOK
<1>1. ASSUME NEW t \in Thread, NEW k \in Task, Create(t, k) PROVE TypeOK'
  BY <1>0, <1>1 DEF Create, Call, runs, bounds, TypeOK
<1>2. ASSUME NEW t \in Thread, NEW k \in Task, Collect(t, k) PROVE TypeOK'
  <2>1. k \in tasks
    BY <1>0, <1>2, HolderAlive DEF Collect
  <2>2. ref' \in [Task -> Nat] /\ tasks' \subseteq Task
    BY <1>2, <1>a, <2>1 DEF Collect
  <2>3. QED
    BY <1>0, <1>2, <2>2 DEF Collect, runs, calls, bounds, TypeOK
<1>3. ASSUME NEW t \in Thread, NEW k \in Task, Resume(t, k) PROVE TypeOK'
  BY <1>0, <1>3, TaskAssumption DEF Resume, Call, registry, runs, TypeOK
<1>4. ASSUME NEW t \in Thread, NEW k \in Task, Answer(t, k) PROVE TypeOK'
  BY <1>0, <1>4 DEF Answer, Call, registry, runs, bounds, TypeOK
<1>5. ASSUME NEW t \in Thread, CallRef(t) PROVE TypeOK'
  <2>1. ref' \in [Task -> Nat] /\ tasks' \subseteq Task /\ handle' = handle
    BY <1>0, <1>5, <1>b DEF CallRef, Ref, registry, TypeOK
  <2>2. cpc' \in [Thread -> CallPhase] /\ con' \in [Thread -> Task \cup {NoTask}]
    <3>1. cpc \in [Thread -> CallPhase] /\ con \in [Thread -> Task \cup {NoTask}]
      BY <1>0 DEF TypeOK
    <3>2. \E p \in {"idle", "status", "unref"} : cpc' = [cpc EXCEPT ![t] = p]
      BY <1>5 DEF CallRef, EndCall, GoOn
    <3>3. con' = con \/ con' = [con EXCEPT ![t] = NoTask]
      BY <1>5 DEF CallRef, EndCall, GoOn
    <3>4. QED
      BY <3>1, <3>2, <3>3
  <2>3. UNCHANGED <<status, co, queue, owed, runs, bounds>>
    BY <1>5 DEF CallRef
  <2>4. QED
    BY <1>0, <2>1, <2>2, <2>3 DEF runs, bounds, TypeOK
<1>6. ASSUME NEW t \in Thread, CallStatus(t) \/ CallUnref(t) PROVE TypeOK'
  <2>1. con[t] \in Task
    BY <1>0, <1>6 DEF CallStatus, CallUnref, TypeOK, Frames
  <2>2. con[t] \in tasks
    BY <1>0, <1>6, <2>1, HolderAlive DEF CallStatus, CallUnref
  <2>3. ref' \in [Task -> Nat] /\ tasks' \subseteq Task
    BY <1>6, <1>a, <2>2 DEF CallStatus, CallUnref
  <2>4. cpc' \in [Thread -> CallPhase] /\ con' \in [Thread -> Task \cup {NoTask}]
    <3>1. cpc \in [Thread -> CallPhase] /\ con \in [Thread -> Task \cup {NoTask}]
      BY <1>0 DEF TypeOK
    <3>2. \E p \in {"idle", "queue", "push"} : cpc' = [cpc EXCEPT ![t] = p]
      BY <1>6 DEF CallStatus, CallUnref, EndCall, GoOn
    <3>3. con' = con \/ con' = [con EXCEPT ![t] = NoTask]
      BY <1>6 DEF CallStatus, CallUnref, EndCall, GoOn
    <3>4. QED
      BY <3>1, <3>2, <3>3
  <2>5. QED
    BY <1>0, <1>6, <2>3, <2>4 DEF CallStatus, CallUnref, runs, bounds, TypeOK
<1>7. ASSUME NEW t \in Thread, CallPush(t) PROVE TypeOK'
  <2>1. con[t] \in Task
    BY <1>0, <1>7 DEF CallPush, TypeOK, Frames
  <2>2. \A q \in Seq(Task) : Append(q, con[t]) \in Seq(Task)
    BY <2>1
  <2> DEFINE c == con[t]
  <2> HIDE DEF c
  <2>3. queue' = [queue EXCEPT ![SidOf[c]] = Append(@, c)] /\ c \in Task
    BY <1>7, <2>1 DEF CallPush, c
  <2>4. queue' \in [Session -> Seq(Task)]
    BY <1>0, <2>2, <2>3 DEF TypeOK, c
  <2>5. QED
    BY <1>0, <1>7, <2>4 DEF CallPush, EndCall, registry, runs, bounds, TypeOK
<1>8. ASSUME NEW w \in Worker, NEW s \in Session, Start(w, s) PROVE TypeOK'
  <2>1. Head(queue[s]) \in Task /\ queue' \in [Session -> Seq(Task)]
    BY <1>0, <1>8 DEF Start, TypeOK
  <2>2. QED
    BY <1>0, <1>8, <2>1 DEF Start, registry, calls, bounds, TypeOK
<1>9. ASSUME NEW w \in Worker, RunRef(w) PROVE TypeOK'
  <2>1. ref' \in [Task -> Nat] /\ tasks' \subseteq Task /\ handle' = handle
    BY <1>0, <1>9, <1>b DEF RunRef, Ref, registry, TypeOK
  <2>2. current' \in [Thread -> Task \cup {NoTask}]
    BY <1>0, <1>9 DEF RunRef, TypeOK
  <2>3. pc' \in [Worker -> RunPhase] /\ job' \in [Worker -> Task \cup {NoTask}]
    <3>1. pc \in [Worker -> RunPhase] /\ job \in [Worker -> Task \cup {NoTask}]
      BY <1>0 DEF TypeOK
    <3>2. \E p \in {"idle", "enter"} : pc' = [pc EXCEPT ![w] = p]
      BY <1>9 DEF RunRef
    <3>3. job' = job \/ job' = [job EXCEPT ![w] = NoTask]
      BY <1>9 DEF RunRef
    <3>4. QED
      BY <3>1, <3>2, <3>3
  <2>4. UNCHANGED <<status, co, queue, owed, rc, calls, bounds>>
    BY <1>9 DEF RunRef
  <2>5. QED
    BY <1>0, <2>1, <2>2, <2>3, <2>4 DEF calls, bounds, TypeOK
<1>10. ASSUME NEW w \in Worker, Enter(w) PROVE TypeOK'
  <2>1. status' \in [Task -> {"ready", "running", "suspended", "finished", "error"}]
        /\ co' \in [Task -> {"none", "running", "yielded", "dead"}]
    <3>1. \/ status' = [status EXCEPT ![job[w]] = "running"] /\ co' = [co EXCEPT ![job[w]] = "running"]
          \/ UNCHANGED <<status, co>>
      BY <1>10 DEF Enter
    <3>2. /\ status \in [Task -> {"ready", "running", "suspended", "finished", "error"}]
          /\ co \in [Task -> {"none", "running", "yielded", "dead"}]
      BY <1>0 DEF TypeOK
    <3>3. QED
      BY <3>1, <3>2
  <2>2. pc' \in [Worker -> RunPhase]
    <3>1. pc' = [pc EXCEPT ![w] = "lua"] \/ pc' = [pc EXCEPT ![w] = "left"]
      BY <1>10 DEF Enter
    <3>2. QED
      BY <1>0, <3>1 DEF TypeOK
  <2>3. QED
    BY <1>0, <1>10, <2>1, <2>2 DEF Enter, registry, calls, bounds, TypeOK
<1>11. ASSUME NEW w \in Worker, Yield(w) PROVE TypeOK'
  BY <1>0, <1>11 DEF Yield, registry, calls, bounds, TypeOK
<1>12. ASSUME NEW w \in Worker, Leave(w) PROVE TypeOK'
  <2>1. status' \in [Task -> {"ready", "running", "suspended", "finished", "error"}]
    BY <1>0, <1>12 DEF Leave, TypeOK
  <2>2. QED
    BY <1>0, <1>12, <2>1 DEF Leave, registry, calls, bounds, TypeOK
<1>13. ASSUME NEW w \in Worker, RunFree(w) PROVE TypeOK'
  <2>0. job[w] \in Task /\ pc[w] = "free"
    BY <1>0, <1>13 DEF RunFree, TypeOK, Frames
  <2>1. job[w] \in tasks
    BY <1>0, <2>0, HolderAlive DEF Shape
  <2>2. ref' \in [Task -> Nat] /\ tasks' \subseteq Task
    BY <1>13, <1>a, <2>1 DEF RunFree
  <2>3. QED
    BY <1>0, <1>13, <2>2 DEF RunFree, calls, bounds, TypeOK
<1>14. ASSUME NEW w \in Worker, Block(w) PROVE TypeOK'
  <2>0. owed \in [Task -> Nat] /\ \A n \in Nat : n + 1 \in Nat
    BY <1>0 DEF TypeOK
  <2> DEFINE c == current[w]
  <2> HIDE DEF c
  <2>a. owed' = [owed EXCEPT ![c] = @ + 1]
    BY <1>14 DEF Block, c
  <2>1. owed' \in [Task -> Nat]
    BY <2>0, <2>a
  <2>2. blocks' \in 0..MaxBlocks
    <3>1. blocks \in 0..MaxBlocks
      BY <1>0 DEF TypeOK
    <3>2. blocks < MaxBlocks /\ blocks' = blocks + 1
      BY <1>14 DEF Block
    <3>3. QED
      BY <3>1, <3>2, TaskAssumption
  <2>3. pc' \in [Worker -> RunPhase]
    <3>1. pc \in [Worker -> RunPhase] /\ pc' = [pc EXCEPT ![w] = "blocking"]
      BY <1>0, <1>14 DEF TypeOK, Block
    <3>2. QED
      BY <3>1 DEF RunPhase
  <2>4. UNCHANGED <<registry, status, co, queue, job, rc, current, calls, resumes>>
    BY <1>14 DEF Block
  <2>5. QED
    BY <1>0, <2>1, <2>2, <2>3, <2>4 DEF registry, calls, TypeOK
<1>15. ASSUME NEW w \in Worker, NEW r \in {"ok", "yield", "error", "other"}, Outcome(w, r)
       PROVE  TypeOK'
  BY <1>0, <1>15 DEF Outcome, registry, calls, bounds, TypeOK
<1>16. CASE UNCHANGED vars
  BY <1>0, <1>16 DEF vars, registry, runs, calls, bounds, TypeOK
<1>17. QED
  BY <1>1, <1>2, <1>3, <1>4, <1>5, <1>6, <1>7, <1>8, <1>9, <1>10, <1>11, <1>12, <1>13, <1>14,
     <1>15, <1>16
     DEF Next, Begin, CallStep, RunStep, Lua

\* Every step keeps the frames.
LEMMA StepFrames == TypeOK /\ Frames /\ [Next]_vars => Frames'
<1> SUFFICES ASSUME TypeOK, Frames, [Next]_vars PROVE Frames'
  OBVIOUS
<1>0. NoTask \notin Task /\ Worker \subseteq Thread
  BY TaskAssumption DEF Thread
<1>1. ASSUME NEW t \in Thread, NEW k \in Task, Create(t, k) \/ Resume(t, k) \/ Answer(t, k)
      PROVE  Frames'
  <2>1. UNCHANGED <<pc, job>> /\ cpc' = [cpc EXCEPT ![t] = "ref"] /\ con' = [con EXCEPT ![t] = k]
    BY <1>1 DEF Create, Resume, Answer, Call, runs
  <2>2. QED
    BY <1>0, <2>1 DEF Frames, TypeOK
<1>2. ASSUME NEW t \in Thread, NEW k \in Task, Collect(t, k) PROVE Frames'
  BY <1>2 DEF Collect, runs, calls, Frames
<1>3. ASSUME NEW t \in Thread, CallStep(t) PROVE Frames'
  <2>1. \/ con' = con /\ \E p \in CallPhase : cpc[t] # "idle" /\ p # "idle" /\ cpc' = [cpc EXCEPT ![t] = p]
        \/ EndCall(t)
    BY <1>3 DEF CallStep, CallRef, CallStatus, CallUnref, CallPush, GoOn, CallPhase
  <2>2. UNCHANGED <<pc, job>>
    BY <1>3 DEF CallStep, CallRef, CallStatus, CallUnref, CallPush, runs
  <2>3. QED
    BY <1>0, <2>1, <2>2 DEF EndCall, Frames, TypeOK
<1>4. ASSUME NEW w \in Worker, NEW s \in Session, Start(w, s) PROVE Frames'
  <2>1. Head(queue[s]) \in Task
    BY <1>4 DEF Start, TypeOK
  <2>2. QED
    BY <1>0, <1>4, <2>1 DEF Start, calls, Frames, TypeOK
<1>5. ASSUME NEW w \in Worker, RunRef(w) PROVE Frames'
  BY <1>0, <1>5 DEF RunRef, calls, Frames, TypeOK
<1>6. ASSUME NEW w \in Worker, Enter(w) \/ Yield(w) \/ Leave(w) \/ Lua(w) PROVE Frames'
  <2>1. /\ UNCHANGED <<job, cpc, con>>
        /\ \E p \in {"lua", "left", "free", "blocking"} : pc[w] # "idle" /\ pc' = [pc EXCEPT ![w] = p]
    BY <1>0, <1>6 DEF Enter, Yield, Leave, Lua, Block, Outcome, InLua, calls
  <2>2. QED
    BY <2>1 DEF Frames, TypeOK
<1>7. ASSUME NEW w \in Worker, RunFree(w) PROVE Frames'
  BY <1>0, <1>7 DEF RunFree, calls, Frames, TypeOK
<1>8. CASE UNCHANGED vars
  BY <1>8 DEF vars, runs, calls, Frames
<1>9. QED
  BY <1>1, <1>2, <1>3, <1>4, <1>5, <1>6, <1>7, <1>8 DEF Next, Begin, RunStep

\* A thread that starts a job takes it from a session nobody runs.
LEMMA StepExclusive == Shape /\ [Next]_vars => Exclusive'
<1> SUFFICES ASSUME Shape, [Next]_vars PROVE Exclusive'
  OBVIOUS
<1>0. TypeOK /\ Frames /\ Created /\ Exclusive
  BY DEF Shape
<1>1. ASSUME NEW w \in Worker, NEW s \in Session, Start(w, s) PROVE Exclusive'
  <2>1. queue[s] \in Seq(Task) /\ queue[s] # <<>>
    BY <1>0, <1>1 DEF Start, TypeOK
  <2>2. SidOf[Head(queue[s])] = s
    <3>1. 1 \in 1..Len(queue[s]) /\ Head(queue[s]) = queue[s][1]
      BY <2>1
    <3>2. QED
      BY <1>0, <3>1 DEF Created
  <2>3. job'[w] = Head(queue[s]) /\ \A v \in Worker : v # w => job'[v] = job[v] /\ pc'[v] = pc[v]
    BY <1>0, <1>1 DEF Start, TypeOK
  <2>4. \A v \in Worker : pc[v] # "idle" => SidOf[job[v]] # s
    BY <1>1 DEF Start, Busy
  <2>5. QED
    BY <1>0, <2>2, <2>3, <2>4 DEF Exclusive
<1>2. ASSUME \A v \in Worker : pc'[v] # "idle" => pc[v] # "idle" /\ job'[v] = job[v]
      PROVE  Exclusive'
  BY <1>0, <1>2 DEF Exclusive
<1>3. ASSUME NEW t \in Thread, Begin(t) \/ CallStep(t) PROVE Exclusive'
  BY <1>2, <1>3 DEF Begin, CallStep, Create, Collect, Resume, Answer, CallRef, CallStatus,
                    CallUnref, CallPush, runs
<1>4. ASSUME NEW w \in Worker,
             RunRef(w) \/ Enter(w) \/ Yield(w) \/ Leave(w) \/ RunFree(w) \/ Lua(w)
      PROVE  Exclusive'
  <2>1. pc[w] # "idle" /\ \A v \in Worker : v # w => pc'[v] = pc[v] /\ job'[v] = job[v]
    BY <1>0, <1>4 DEF RunRef, Enter, Yield, Leave, RunFree, Lua, Block, Outcome, InLua, TypeOK,
       Thread
  <2>2. pc'[w] # "idle" => job'[w] = job[w]
    BY <1>0, <1>4 DEF RunRef, Enter, Yield, Leave, RunFree, Lua, Block, Outcome, TypeOK
  <2>3. QED
    BY <1>2, <2>1, <2>2
<1>5. CASE UNCHANGED vars
  BY <1>2, <1>5 DEF vars, runs
<1>6. QED
  BY <1>1, <1>3, <1>4, <1>5 DEF Next, RunStep

\* Nobody names a task that has not been created.
LEMMA StepCreated == TypeOK /\ Frames /\ Created /\ TypeOK' /\ [Next]_vars => Created'
<1> SUFFICES ASSUME TypeOK, Frames, Created, TypeOK', [Next]_vars PROVE Created'
  OBVIOUS
<1>0. NoTask \notin Task /\ Worker \subseteq Thread /\ Known \subseteq Task
  BY TaskAssumption DEF Thread, Known
<1>a. ASSUME UNCHANGED handle PROVE Known' = Known
  BY <1>a DEF Known
\* The steps that put no task into a frame, a queue or owed.
<1>b. ASSUME Known \subseteq Known',
             \A w \in Worker : job'[w] \in {job[w], NoTask},
             \A t \in Thread : /\ con'[t] \in {con[t], NoTask}
                               /\ current'[t] = current[t] \/ current'[t] \in Known,
             \A k \in Task : owed'[k] > 0 => owed[k] > 0 \/ k \in Known,
             UNCHANGED queue
      PROVE  Created'
  BY <1>b DEF Created
<1>1. ASSUME NEW t \in Thread, NEW k \in Task, Create(t, k) \/ Resume(t, k) \/ Answer(t, k)
      PROVE  Created'
  <2>1. Known \subseteq Known' /\ k \in Known'
    BY <1>1 DEF Create, Resume, Answer, registry, Known, Created, TypeOK
  <2>2. UNCHANGED <<queue, job, current>> /\ con' = [con EXCEPT ![t] = k]
    BY <1>1 DEF Create, Resume, Answer, Call, runs
  <2>3. \A j \in Task : owed'[j] > 0 => owed[j] > 0
    BY <1>1 DEF Create, Resume, Answer, TypeOK
  <2>4. \A y \in Thread : con'[y] # NoTask => con'[y] \in Known'
    BY <2>1, <2>2 DEF Created, TypeOK
  <2>5. \A s \in Session : \A i \in 1..Len(queue'[s]) :
          queue'[s][i] \in Known' /\ SidOf[queue'[s][i]] = s
    BY <2>1, <2>2 DEF Created
  <2>6. QED
    BY <2>1, <2>2, <2>3, <2>4, <2>5 DEF Created
<1>2. ASSUME NEW t \in Thread, NEW k \in Task, Collect(t, k) PROVE Created'
  <2>1. Known \subseteq Known'
    BY <1>2 DEF Collect, Known, TypeOK
  <2>2. QED
    BY <1>2, <1>b, <2>1 DEF Collect, runs, calls
<1>3. ASSUME NEW t \in Thread, CallRef(t) \/ CallStatus(t) \/ CallUnref(t) PROVE Created'
  <2>1. UNCHANGED <<handle, queue, owed, job, current>>
    BY <1>3 DEF CallRef, CallStatus, CallUnref, Ref, registry, runs
  <2>2. con' = con \/ con' = [con EXCEPT ![t] = NoTask]
    BY <1>3 DEF CallRef, CallStatus, CallUnref, EndCall, GoOn
  <2>3. \A y \in Thread : con'[y] \in {con[y], NoTask}
    BY <2>2 DEF TypeOK
  <2>4. QED
    BY <1>a, <1>b, <2>1, <2>3
<1>4. ASSUME NEW t \in Thread, CallPush(t) PROVE Created'
  <2> DEFINE c == con[t]
  <2>1. c \in Known /\ c \in Task /\ SidOf[c] \in Session
    BY <1>0, <1>4, TaskAssumption DEF CallPush, TypeOK, Frames, Created
  <2>2. Known' = Known /\ queue' = [queue EXCEPT ![SidOf[c]] = Append(@, c)]
    BY <1>4 DEF CallPush, registry, Known
  <2> HIDE DEF c
  <2>3. ASSUME NEW s \in Session, NEW i \in 1..Len(queue'[s])
        PROVE  queue'[s][i] \in Known' /\ SidOf[queue'[s][i]] = s
    <3>1. queue[s] \in Seq(Task)
      BY DEF TypeOK
    <3>2. CASE s = SidOf[c]
      <4>1. queue'[s] = Append(queue[s], c)
        BY <2>2, <3>2 DEF TypeOK
      <4>2. (i \in 1..Len(queue[s]) /\ queue'[s][i] = queue[s][i]) \/ queue'[s][i] = c
        BY <2>1, <2>3, <3>1, <4>1
      <4>3. QED
        BY <2>1, <2>2, <3>2, <4>2 DEF Created
    <3>3. CASE s # SidOf[c]
      BY <2>2, <2>3, <3>3 DEF Created, TypeOK
    <3>4. QED
      BY <3>2, <3>3
  <2>4. UNCHANGED <<owed, job, current>> /\ con' = [con EXCEPT ![t] = NoTask]
    BY <1>4 DEF CallPush, EndCall, runs
  <2>5. \A y \in Thread : con'[y] # NoTask => con'[y] \in Known
    BY <2>4 DEF Created, TypeOK
  <2>6. QED
    BY <2>2, <2>3, <2>4, <2>5 DEF Created
<1>5. ASSUME NEW w \in Worker, NEW s \in Session, Start(w, s) PROVE Created'
  <2>1. /\ queue[s] \in Seq(Task) /\ queue[s] # <<>>
        /\ queue' = [queue EXCEPT ![s] = Tail(@)] /\ job' = [job EXCEPT ![w] = Head(queue[s])]
        /\ UNCHANGED <<handle, owed, current, con>>
    BY <1>5 DEF Start, registry, calls, TypeOK
  <2>2. Head(queue[s]) \in Known
    <3>1. 1 \in 1..Len(queue[s]) /\ Head(queue[s]) = queue[s][1]
      BY <2>1
    <3>2. QED
      BY <3>1 DEF Created
  <2>3. ASSUME NEW y \in Session, NEW i \in 1..Len(queue'[y])
        PROVE  queue'[y][i] \in Known /\ SidOf[queue'[y][i]] = y
    <3>1. CASE y = s
      <4>1. queue'[y] = Tail(queue[s])
        BY <2>1, <3>1 DEF TypeOK
      <4>a. /\ Len(queue[s]) \in Nat /\ Len(Tail(queue[s])) = Len(queue[s]) - 1
            /\ \A j \in 1..Len(Tail(queue[s])) : Tail(queue[s])[j] = queue[s][j + 1]
        BY <2>1
      <4>2. i + 1 \in 1..Len(queue[s]) /\ queue'[y][i] = queue[s][i + 1]
        BY <2>3, <4>1, <4>a
      <4>3. QED
        BY <3>1, <4>2 DEF Created
    <3>2. CASE y # s
      BY <2>1, <2>3, <3>2 DEF Created, TypeOK
    <3>3. QED
      BY <3>1, <3>2
  <2>4. \A v \in Worker : job'[v] # NoTask => job'[v] \in Known
    BY <2>1, <2>2 DEF Created, TypeOK
  <2>5. QED
    BY <1>a, <2>1, <2>3, <2>4 DEF Created
<1>6. ASSUME NEW w \in Worker, RunRef(w) PROVE Created'
  <2>1. UNCHANGED <<handle, queue, owed, con>>
    BY <1>6 DEF RunRef, Ref, registry, calls
  <2>2. job[w] \in Known
    BY <1>0, <1>6 DEF RunRef, Frames, Created, TypeOK
  <2>3. \A v \in Worker : job'[v] \in {job[v], NoTask}
    BY <1>6 DEF RunRef, TypeOK
  <2>4. \A t \in Thread : current'[t] = current[t] \/ current'[t] \in Known
    BY <1>6, <2>2 DEF RunRef, TypeOK
  <2>5. QED
    BY <1>a, <1>b, <2>1, <2>3, <2>4
<1>7. ASSUME NEW w \in Worker, Block(w) PROVE Created'
  <2> DEFINE c == current[w]
  <2>1. c # NoTask => c \in Known
    BY <1>0 DEF Created
  <2>2. owed' = [owed EXCEPT ![c] = @ + 1] /\ UNCHANGED <<handle, queue, job, con, current>>
    BY <1>7 DEF Block, registry, calls
  <2> HIDE DEF c
  <2>3. \A k \in Task : owed'[k] > 0 => owed[k] > 0 \/ k \in Known
    BY <1>0, <2>1, <2>2 DEF TypeOK
  <2>4. QED
    BY <1>a, <1>b, <2>2, <2>3
<1>8. ASSUME NEW w \in Worker,
             Enter(w) \/ Yield(w) \/ Leave(w) \/ RunFree(w)
               \/ \E r \in {"ok", "yield", "error", "other"} : Outcome(w, r)
      PROVE  Created'
  <2>1. UNCHANGED <<handle, queue, owed, con, current>>
    BY <1>8 DEF Enter, Yield, Leave, RunFree, Outcome, registry, calls
  <2>2. \A v \in Worker : job'[v] \in {job[v], NoTask}
    BY <1>8 DEF Enter, Yield, Leave, RunFree, Outcome, TypeOK
  <2>3. QED
    BY <1>a, <1>b, <2>1, <2>2
<1>9. CASE UNCHANGED vars
  BY <1>a, <1>b, <1>9 DEF vars, registry, runs, calls
<1>10. QED
  BY <1>1, <1>2, <1>3, <1>4, <1>5, <1>6, <1>7, <1>8, <1>9 DEF Next, Begin, CallStep, RunStep,
     Lua

-----------------------------------------------------------------------------
(* References and coroutines. *)

\* The sum of the references on one task.
Holders(k) == HandleRefs(k) + Cardinality(RunRefs(k)) + Cardinality(CallRefs(k))

\* Every step moves references as it moves handles and frames.
LEMMA StepRefs == Shape /\ RefsAccounted /\ [Next]_vars => RefsAccounted'
<1> SUFFICES ASSUME Shape, RefsAccounted, [Next]_vars, NEW k \in Task
             PROVE  ref'[k] = Holders(k)' /\ (k \in tasks' <=> ref'[k] > 0)
  BY DEF RefsAccounted, Holders
<1>1. /\ TypeOK /\ Frames /\ Created /\ NoTask \notin Task /\ Worker \subseteq Thread
      /\ ref[k] = Holders(k) /\ (k \in tasks <=> ref[k] > 0) /\ ref[k] \in Nat
  BY TaskAssumption DEF Shape, RefsAccounted, Holders, Thread, TypeOK
<1>2. /\ Cardinality(RunRefs(k)) \in Nat /\ Cardinality(CallRefs(k)) \in Nat
      /\ HandleRefs(k) \in {0, 1}
  BY FiniteHolders
<1>3. ASSUME UNCHANGED <<tasks, ref>>, HandleRefs(k)' = HandleRefs(k), RunRefs(k)' = RunRefs(k),
             CallRefs(k)' = CallRefs(k)
      PROVE  ref'[k] = Holders(k)' /\ (k \in tasks' <=> ref'[k] > 0)
  BY <1>1, <1>3 DEF Holders
<1>4. handle' = handle => HandleRefs(k)' = HandleRefs(k)
  BY DEF HandleRefs
<1>5. pc' = pc /\ job' = job => RunRefs(k)' = RunRefs(k)
  BY DEF RunRefs
<1>6. cpc' = cpc /\ con' = con => CallRefs(k)' = CallRefs(k)
  BY DEF CallRefs
\* A frame of task_resume is entered without a reference.
<1>7. ASSUME NEW t \in Thread, NEW j \in Task, cpc[t] = "idle", Call(t, j)
      PROVE  CallRefs(k)' = CallRefs(k)
  BY <1>7 DEF Call, CallRefs, TypeOK, Shape
<1>8. ASSUME NEW t \in Thread, NEW j \in Task, Create(t, j)
      PROVE  ref'[k] = Holders(k)' /\ (k \in tasks' <=> ref'[k] > 0)
  <2>1. /\ UNCHANGED <<pc, job>> /\ cpc[t] = "idle" /\ Call(t, j) /\ handle[j] = "none"
        /\ tasks' = tasks \cup {j} /\ ref' = [ref EXCEPT ![j] = 1]
        /\ handle' = [handle EXCEPT ![j] = "held"]
    BY <1>8 DEF Create, Creator, InLua, runs
  <2>2. RunRefs(k)' = RunRefs(k) /\ CallRefs(k)' = CallRefs(k)
    BY <1>5, <1>7, <2>1
  <2>3. CASE k = j
    <3>1. RunRefs(k) = {} /\ CallRefs(k) = {}
      BY <1>1, <2>1, <2>3 DEF RunRefs, CallRefs, Created, Known
    <3>2. Cardinality(RunRefs(k)) = 0 /\ Cardinality(CallRefs(k)) = 0
      BY <3>1, FS_EmptySet
    <3>3. HandleRefs(k)' = 1 /\ ref'[k] = 1 /\ k \in tasks'
      BY <1>1, <2>1, <2>3 DEF HandleRefs, TypeOK
    <3>4. QED
      BY <2>2, <3>2, <3>3 DEF Holders
  <2>4. CASE k # j
    <3>1. HandleRefs(k)' = HandleRefs(k) /\ ref'[k] = ref[k] /\ (k \in tasks' <=> k \in tasks)
      BY <1>1, <2>1, <2>4 DEF HandleRefs, TypeOK
    <3>2. QED
      BY <1>1, <2>2, <3>1 DEF Holders
  <2>5. QED
    BY <2>3, <2>4
<1>9. ASSUME NEW t \in Thread, NEW j \in Task, Collect(t, j)
      PROVE  ref'[k] = Holders(k)' /\ (k \in tasks' <=> ref'[k] > 0)
  <2>1. /\ UNCHANGED <<pc, job, cpc, con>> /\ Drop(j) /\ handle[j] = "held"
        /\ handle' = [handle EXCEPT ![j] = "collected"]
    BY <1>9 DEF Collect, runs, calls
  <2>2. j \in tasks
    BY <1>1, <2>1, HolderAlive
  <2>3. ref'[k] = ref[k] - (IF k = j THEN 1 ELSE 0) /\ (k \in tasks' <=> ref'[k] > 0)
    BY <1>1, <2>1, <2>2, CountMoved
  <2>4. HandleRefs(k)' = HandleRefs(k) - IF k = j THEN 1 ELSE 0
    BY <1>1, <2>1 DEF HandleRefs, TypeOK
  <2>5. QED
    BY <1>1, <1>2, <1>5, <1>6, <2>1, <2>3, <2>4 DEF Holders
<1>10. ASSUME NEW t \in Thread, NEW j \in Task, Resume(t, j) \/ Answer(t, j)
       PROVE  ref'[k] = Holders(k)' /\ (k \in tasks' <=> ref'[k] > 0)
  <2>1. UNCHANGED <<tasks, ref, handle, pc, job>> /\ cpc[t] = "idle" /\ Call(t, j)
    BY <1>10 DEF Resume, Answer, Creator, InLua, InCall, registry, runs
  <2>2. QED
    BY <1>3, <1>4, <1>5, <1>7, <2>1
<1>11. ASSUME NEW t \in Thread, CallRef(t)
       PROVE  ref'[k] = Holders(k)' /\ (k \in tasks' <=> ref'[k] > 0)
  <2>1. /\ UNCHANGED <<handle, pc, job>> /\ con[t] \in Task /\ cpc[t] \in {"ref", "queue"}
    BY <1>1, <1>11 DEF CallRef, Ref, registry, runs, Frames, TypeOK
  <2>2. CASE con[t] \in tasks
    <3> DEFINE c == con[t]
    <3>1. PICK p \in {"status", "unref"} : Ref(c) /\ cpc' = [cpc EXCEPT ![t] = p] /\ con' = con
      BY <1>11, <2>2 DEF CallRef, GoOn
    <3>2. Cardinality(CallRefs(k)') = Cardinality(CallRefs(k)) + IF k = c THEN 1 ELSE 0
      BY <1>1, <2>1, <3>1, CallBegins
    <3>3. ref'[k] = ref[k] + (IF k = c THEN 1 ELSE 0) /\ (k \in tasks' <=> ref'[k] > 0)
      BY <1>1, <2>1, <3>1, CountMoved
    <3> HIDE DEF c
    <3>4. QED
      BY <1>1, <1>2, <1>4, <1>5, <2>1, <3>2, <3>3 DEF Holders
  <2>3. CASE con[t] \notin tasks
    <3>1. EndCall(t) /\ UNCHANGED <<tasks, ref>>
      BY <1>11, <2>3 DEF CallRef, registry
    <3>2. CallRefs(k)' = CallRefs(k)
      BY <1>1, <2>1, <3>1 DEF EndCall, CallRefs, TypeOK
    <3>3. QED
      BY <1>3, <1>4, <1>5, <2>1, <3>1, <3>2
  <2>4. QED
    BY <2>2, <2>3
<1>12. ASSUME NEW t \in Thread, CallStatus(t) \/ CallUnref(t)
       PROVE  ref'[k] = Holders(k)' /\ (k \in tasks' <=> ref'[k] > 0)
  <2> DEFINE c == con[t]
  <2>1. UNCHANGED <<handle, pc, job>> /\ c \in Task /\ cpc[t] \in {"status", "unref"} /\ Drop(c)
    BY <1>1, <1>12 DEF CallStatus, CallUnref, runs, Frames, TypeOK
  <2>2. /\ cpc'[t] \notin {"status", "unref"}
        /\ \A y \in Thread : y # t => cpc'[y] = cpc[y] /\ con'[y] = con[y]
    BY <1>1, <1>12 DEF CallStatus, CallUnref, EndCall, GoOn, TypeOK
  <2>3. Cardinality(CallRefs(k)') = Cardinality(CallRefs(k)) - IF k = c THEN 1 ELSE 0
    BY <1>1, <2>1, <2>2, CallEnds
  <2>4. c \in tasks
    BY <1>1, <2>1, HolderAlive
  <2>5. ref'[k] = ref[k] - (IF k = c THEN 1 ELSE 0) /\ (k \in tasks' <=> ref'[k] > 0)
    BY <1>1, <2>1, <2>4, CountMoved
  <2> HIDE DEF c
  <2>6. QED
    BY <1>1, <1>2, <1>4, <1>5, <2>1, <2>3, <2>5 DEF Holders
<1>13. ASSUME NEW t \in Thread, CallPush(t)
       PROVE  ref'[k] = Holders(k)' /\ (k \in tasks' <=> ref'[k] > 0)
  <2>1. UNCHANGED <<tasks, ref, handle, pc, job>> /\ cpc[t] = "push" /\ EndCall(t)
    BY <1>13 DEF CallPush, registry, runs
  <2>2. CallRefs(k)' = CallRefs(k)
    BY <1>1, <2>1 DEF EndCall, CallRefs, TypeOK
  <2>3. QED
    BY <1>3, <1>4, <1>5, <2>1, <2>2
<1>14. ASSUME NEW w \in Worker, NEW s \in Session, Start(w, s)
       PROVE  ref'[k] = Holders(k)' /\ (k \in tasks' <=> ref'[k] > 0)
  <2>1. /\ UNCHANGED <<tasks, ref, handle, cpc, con>> /\ pc[w] = "idle"
        /\ pc' = [pc EXCEPT ![w] = "ref"]
        /\ \A v \in Worker : v # w => job'[v] = job[v]
    BY <1>1, <1>14 DEF Start, registry, calls, TypeOK
  <2>2. RunRefs(k)' = RunRefs(k)
    BY <1>1, <2>1 DEF RunRefs, TypeOK
  <2>3. QED
    BY <1>3, <1>4, <1>6, <2>1, <2>2
<1>15. ASSUME NEW w \in Worker, RunRef(w)
       PROVE  ref'[k] = Holders(k)' /\ (k \in tasks' <=> ref'[k] > 0)
  <2> DEFINE c == job[w]
  <2>1. UNCHANGED <<handle, cpc, con>> /\ c \in Task /\ pc[w] = "ref"
    BY <1>1, <1>15 DEF RunRef, Ref, registry, calls, Frames, TypeOK
  <2>2. CASE c \in tasks
    <3>1. Ref(c) /\ pc' = [pc EXCEPT ![w] = "enter"] /\ job' = job
      BY <1>15, <2>2 DEF RunRef
    <3>2. Cardinality(RunRefs(k)') = Cardinality(RunRefs(k)) + IF k = c THEN 1 ELSE 0
      BY <1>1, <2>1, <3>1, RunBegins
    <3>3. ref'[k] = ref[k] + (IF k = c THEN 1 ELSE 0) /\ (k \in tasks' <=> ref'[k] > 0)
      BY <1>1, <2>1, <3>1, CountMoved
    <3> HIDE DEF c
    <3>4. QED
      BY <1>1, <1>2, <1>4, <1>6, <2>1, <3>2, <3>3 DEF Holders
  <2>3. CASE c \notin tasks
    <3>1. /\ UNCHANGED <<tasks, ref>> /\ pc' = [pc EXCEPT ![w] = "idle"]
          /\ job' = [job EXCEPT ![w] = NoTask]
      BY <1>15, <2>3 DEF RunRef, registry
    <3>2. RunRefs(k)' = RunRefs(k)
      BY <1>1, <2>1, <3>1 DEF RunRefs, TypeOK
    <3>3. QED
      BY <1>3, <1>4, <1>6, <2>1, <3>1, <3>2
  <2>4. QED
    BY <2>2, <2>3
<1>16. ASSUME NEW w \in Worker, Enter(w) \/ Yield(w) \/ Leave(w) \/ Lua(w)
       PROVE  ref'[k] = Holders(k)' /\ (k \in tasks' <=> ref'[k] > 0)
  <2>1. /\ UNCHANGED <<tasks, ref, handle, job, cpc, con>> /\ pc[w] \notin {"idle", "ref"}
        /\ \E p \in {"lua", "left", "free", "blocking"} : pc' = [pc EXCEPT ![w] = p]
    BY <1>1, <1>16 DEF Enter, Yield, Leave, Lua, Block, Outcome, InLua, registry, calls
  <2>2. RunRefs(k)' = RunRefs(k)
    BY <1>1, <2>1 DEF RunRefs, TypeOK
  <2>3. QED
    BY <1>3, <1>4, <1>6, <2>1, <2>2
<1>17. ASSUME NEW w \in Worker, RunFree(w)
       PROVE  ref'[k] = Holders(k)' /\ (k \in tasks' <=> ref'[k] > 0)
  <2> DEFINE c == job[w]
  <2>1. /\ UNCHANGED <<handle, cpc, con>> /\ c \in Task /\ pc[w] = "free" /\ Drop(c)
        /\ pc' = [pc EXCEPT ![w] = "idle"] /\ job' = [job EXCEPT ![w] = NoTask]
    BY <1>1, <1>17 DEF RunFree, calls, Frames, TypeOK
  <2>2. Cardinality(RunRefs(k)') = Cardinality(RunRefs(k)) - IF k = c THEN 1 ELSE 0
    BY <1>1, <2>1, RunEnds
  <2>3. c \in tasks
    BY <1>1, <2>1, HolderAlive
  <2>4. ref'[k] = ref[k] - (IF k = c THEN 1 ELSE 0) /\ (k \in tasks' <=> ref'[k] > 0)
    BY <1>1, <2>1, <2>3, CountMoved
  <2> HIDE DEF c
  <2>5. QED
    BY <1>1, <1>2, <1>4, <1>6, <2>1, <2>2, <2>4 DEF Holders
<1>18. CASE UNCHANGED vars
  BY <1>3, <1>4, <1>5, <1>6, <1>18 DEF vars, registry, runs, calls
<1>19. QED
  BY <1>8, <1>9, <1>10, <1>11, <1>12, <1>13, <1>14, <1>15, <1>16, <1>17, <1>18
     DEF Next, Begin, CallStep, RunStep

\* A task that runs runs on one thread.
LEMMA OneThread ==
  ASSUME TypeOK, Frames, Exclusive, NEW w \in Worker, pc[w] # "idle"
  PROVE  job[w] \in Task /\ \A v \in Worker : v # w /\ pc[v] # "idle" => job[v] # job[w]
<1>1. job[w] \in Task
  BY DEF TypeOK, Frames
<1>2. ASSUME NEW v \in Worker, v # w, pc[v] # "idle" PROVE job[v] # job[w]
  <2>1. SidOf[job[v]] # SidOf[job[w]]
    BY <1>2 DEF Exclusive
  <2>2. QED
    BY <2>1
<1>3. QED
  BY <1>1, <1>2

\* Every step keeps the agreement of t->status with the coroutine.
LEMMA StepCoroutines == Shape /\ Coroutines /\ [Next]_vars => Coroutines'
<1> SUFFICES ASSUME Shape, Coroutines, [Next]_vars PROVE Coroutines'
  OBVIOUS
<1>0. TypeOK /\ Frames /\ Exclusive
  BY DEF Shape
\* The steps of callers.
<1>1. ASSUME UNCHANGED <<status, co, runs>> PROVE Coroutines'
  BY <1>1 DEF runs, Coroutines
<1>2. ASSUME NEW t \in Thread, Begin(t) \/ CallStep(t) PROVE Coroutines'
  BY <1>1, <1>2 DEF Begin, CallStep, Create, Collect, Resume, Answer, CallRef, CallStatus,
                    CallUnref, CallPush
<1>3. ASSUME NEW w \in Worker, NEW s \in Session, Start(w, s) PROVE Coroutines'
  <2>1. /\ UNCHANGED <<status, co, rc>> /\ pc[w] = "idle" /\ pc'[w] = "ref"
        /\ \A v \in Worker : v # w => pc'[v] = pc[v] /\ job'[v] = job[v]
    BY <1>0, <1>3 DEF Start, TypeOK
  <2>2. QED
    BY <2>1 DEF Coroutines
<1>4. ASSUME NEW w \in Worker, RunRef(w) PROVE Coroutines'
  <2>1. /\ UNCHANGED <<status, co, rc>> /\ pc[w] = "ref" /\ pc'[w] \in {"enter", "idle"}
        /\ \A v \in Worker : v # w => pc'[v] = pc[v] /\ job'[v] = job[v]
    BY <1>0, <1>4 DEF RunRef, TypeOK
  <2>2. QED
    BY <2>1 DEF Coroutines
<1>5. ASSUME NEW w \in Worker, Enter(w) PROVE Coroutines'
  <2> DEFINE c == job[w]
  <2>1. /\ c \in Task /\ pc[w] = "enter" /\ rc[w] = "ok" /\ UNCHANGED <<rc, job>>
        /\ \A v \in Worker : v # w => pc'[v] = pc[v] /\ (pc[v] # "idle" => job[v] # c)
    BY <1>0, <1>5, OneThread DEF Enter, TypeOK, Coroutines
  <2>2. CASE status[c] \in {"ready", "suspended"}
    <3>1. /\ pc'[w] = "lua" /\ status'[c] = "running"
          /\ \A k \in Task : k # c => status'[k] = status[k] /\ co'[k] = co[k]
      BY <1>0, <1>5, <2>1, <2>2 DEF Enter, TypeOK
    <3> HIDE DEF c
    <3>2. \A k \in Task : (status'[k] = "ready" => co'[k] = "none")
                            /\ (status'[k] = "suspended" => co'[k] = "yielded")
      BY <3>1 DEF Coroutines
    <3>3. ASSUME NEW v \in Worker, v # w
          PROVE  /\ pc'[v] \in {"idle", "ref", "enter"} => rc'[v] = "ok"
                 /\ pc'[v] \in {"lua", "blocking", "left"} => status'[job'[v]] \notin {"ready", "suspended"}
                 /\ pc'[v] = "left" /\ rc'[v] = "yield" => co'[job'[v]] = "yielded"
      BY <1>0, <2>1, <3>1, <3>3 DEF Coroutines, TypeOK, Frames
    <3>4. QED
      BY <2>1, <3>1, <3>2, <3>3 DEF Coroutines, c
  <2>3. CASE status[c] \notin {"ready", "suspended"}
    <3>1. pc'[w] = "left" /\ UNCHANGED <<status, co>>
      BY <1>0, <1>5, <2>1, <2>3 DEF Enter, TypeOK
    <3>2. QED
      BY <2>1, <2>3, <3>1 DEF Coroutines
  <2>4. QED
    BY <2>2, <2>3
<1>6. ASSUME NEW w \in Worker,
             Yield(w) \/ \E r \in {"ok", "yield", "error", "other"} : Outcome(w, r)
      PROVE  Coroutines'
  <2> DEFINE c == job[w]
  <2>1. c \in Task /\ pc[w] \in {"lua", "blocking"} /\ UNCHANGED <<status, job>>
    BY <1>0, <1>6, OneThread DEF Yield, Outcome, InLua, Thread
  <2>2. /\ pc'[w] = "left" /\ (rc'[w] = "yield" => co'[c] = "yielded")
        /\ \A v \in Worker : v # w => pc'[v] = pc[v] /\ rc'[v] = rc[v]
        /\ \A k \in Task : k # c => co'[k] = co[k]
    BY <1>0, <1>6, <2>1 DEF Yield, Outcome, TypeOK
  <2>3. \A v \in Worker : v # w /\ pc[v] # "idle" => job[v] # c /\ job[v] \in Task
    BY <1>0, <2>1, OneThread
  <2>4. status[c] \notin {"ready", "suspended"}
    BY <2>1 DEF Coroutines
  <2> HIDE DEF c
  <2>5. \A k \in Task : (status'[k] = "ready" => co'[k] = "none")
                          /\ (status'[k] = "suspended" => co'[k] = "yielded")
    BY <2>1, <2>2, <2>4 DEF Coroutines
  <2>6. ASSUME NEW v \in Worker, v # w
        PROVE  /\ pc'[v] \in {"idle", "ref", "enter"} => rc'[v] = "ok"
               /\ pc'[v] \in {"lua", "blocking", "left"} => status'[job'[v]] \notin {"ready", "suspended"}
               /\ pc'[v] = "left" /\ rc'[v] = "yield" => co'[job'[v]] = "yielded"
    BY <2>1, <2>2, <2>3, <2>6 DEF Coroutines
  <2>7. QED
    BY <2>1, <2>2, <2>4, <2>5, <2>6 DEF Coroutines, c
<1>7. ASSUME NEW w \in Worker, Block(w) PROVE Coroutines'
  <2>1. /\ UNCHANGED <<status, co, rc, job>> /\ pc[w] = "lua" /\ pc'[w] = "blocking"
        /\ \A v \in Worker : v # w => pc'[v] = pc[v]
    BY <1>0, <1>7 DEF Block, InLua, TypeOK
  <2>2. QED
    BY <2>1 DEF Coroutines
<1>8. ASSUME NEW w \in Worker, Leave(w) PROVE Coroutines'
  <2> DEFINE c == job[w]
  <2>1. c \in Task /\ pc[w] = "left" /\ UNCHANGED <<co, job, rc>>
    BY <1>0, <1>8, OneThread DEF Leave
  <2>2. /\ pc'[w] = "free" /\ \A v \in Worker : v # w => pc'[v] = pc[v]
        /\ \A k \in Task : k # c => status'[k] = status[k]
    BY <1>0, <1>8, <2>1 DEF Leave, TypeOK
  <2>3. /\ status[c] \notin {"ready", "suspended"} /\ (rc[w] = "yield" => co[c] = "yielded")
    BY <2>1 DEF Coroutines
  <2>4. status'[c] \in {"error", "finished", status[c]} \/ (status'[c] = "suspended" /\ rc[w] = "yield")
    BY <1>0, <1>8, <2>1 DEF Leave, TypeOK
  <2>5. \A v \in Worker : v # w /\ pc[v] # "idle" => job[v] # c /\ job[v] \in Task
    BY <1>0, <2>1, OneThread
  <2> HIDE DEF c
  <2>6. \A k \in Task : (status'[k] = "ready" => co'[k] = "none")
                          /\ (status'[k] = "suspended" => co'[k] = "yielded")
    BY <2>1, <2>2, <2>3, <2>4 DEF Coroutines
  <2>7. ASSUME NEW v \in Worker
        PROVE  /\ pc'[v] \in {"idle", "ref", "enter"} => rc'[v] = "ok"
               /\ pc'[v] \in {"lua", "blocking", "left"} => status'[job'[v]] \notin {"ready", "suspended"}
               /\ pc'[v] = "left" /\ rc'[v] = "yield" => co'[job'[v]] = "yielded"
    BY <2>1, <2>2, <2>5, <2>7 DEF Coroutines
  <2>8. QED
    BY <2>6, <2>7 DEF Coroutines
<1>9. ASSUME NEW w \in Worker, RunFree(w) PROVE Coroutines'
  <2>1. /\ UNCHANGED <<status, co>> /\ pc'[w] = "idle" /\ rc'[w] = "ok"
        /\ \A v \in Worker : v # w => pc'[v] = pc[v] /\ job'[v] = job[v] /\ rc'[v] = rc[v]
    BY <1>0, <1>9 DEF RunFree, TypeOK
  <2>2. QED
    BY <2>1 DEF Coroutines
<1>10. CASE UNCHANGED vars
  BY <1>1, <1>10 DEF vars
<1>11. QED
  BY <1>2, <1>3, <1>4, <1>5, <1>6, <1>7, <1>8, <1>9, <1>10 DEF Next, RunStep, Lua

\* Only task_run makes a coroutine run, and it looks at the status first.
LEMMA StepResumes ==
  Shape /\ Coroutines /\ [Next]_vars =>
    \A k \in Task : co'[k] = "running" /\ co[k] # "running" => co[k] \in {"none", "yielded"}
<1> SUFFICES ASSUME Shape, Coroutines, [Next]_vars, NEW k \in Task,
                    co'[k] = "running", co[k] # "running"
             PROVE  co[k] \in {"none", "yielded"}
  OBVIOUS
<1>0. TypeOK
  BY DEF Shape
<1>1. ASSUME NEW w \in Worker, Enter(w) PROVE status[k] \in {"ready", "suspended"}
  BY <1>0, <1>1 DEF Enter, TypeOK
<1>2. ASSUME NEW t \in Thread, Begin(t) \/ CallStep(t) PROVE FALSE
  BY <1>2 DEF Begin, CallStep, Create, Collect, Resume, Answer, CallRef, CallStatus, CallUnref,
              CallPush
<1>3. ASSUME NEW w \in Worker,
             Yield(w) \/ \E r \in {"ok", "yield", "error", "other"} : Outcome(w, r)
      PROVE  FALSE
  BY <1>0, <1>3 DEF Yield, Outcome, TypeOK
<1>4. ASSUME NEW w \in Worker,
             RunRef(w) \/ Block(w) \/ Leave(w) \/ RunFree(w) \/ \E s \in Session : Start(w, s)
      PROVE  FALSE
  BY <1>4 DEF RunRef, Block, Leave, RunFree, Start
<1>5. CASE UNCHANGED vars
  BY <1>5 DEF vars
<1>6. QED
  BY <1>1, <1>2, <1>3, <1>4, <1>5 DEF Next, RunStep, Lua, Coroutines

\* Every step leaves a task that is not ready or suspended on its thread, or ended.
LEMMA StepEnded == Shape /\ Coroutines /\ Ended /\ [Next]_vars => Ended'
<1> SUFFICES ASSUME Shape, Coroutines, Ended, [Next]_vars PROVE Ended'
  OBVIOUS
<1>0. TypeOK /\ Frames /\ Exclusive
  BY DEF Shape
<1>1. ASSUME UNCHANGED <<status, co, runs>> PROVE Ended'
  BY <1>1 DEF runs, Ended
<1>2. ASSUME NEW t \in Thread, Begin(t) \/ CallStep(t) PROVE Ended'
  BY <1>1, <1>2 DEF Begin, CallStep, Create, Collect, Resume, Answer, CallRef, CallStatus,
                    CallUnref, CallPush
\* A thread moves between two points at which it owes the task nothing.
<1>3. ASSUME NEW w \in Worker, UNCHANGED <<status, co>>,
             pc[w] \notin {"lua", "blocking", "left"}, pc'[w] \in {"idle", "ref", "enter"},
             \A v \in Worker : v # w => pc'[v] = pc[v] /\ job'[v] = job[v] /\ rc'[v] = rc[v]
      PROVE  Ended'
  BY <1>3 DEF Ended
<1>4. ASSUME NEW w \in Worker, NEW s \in Session, Start(w, s) PROVE Ended'
  BY <1>0, <1>3, <1>4 DEF Start, TypeOK
<1>5. ASSUME NEW w \in Worker, RunRef(w) \/ RunFree(w) PROVE Ended'
  BY <1>0, <1>3, <1>5 DEF RunRef, RunFree, TypeOK
<1>6. ASSUME NEW w \in Worker, Block(w) PROVE Ended'
  <2>1. /\ UNCHANGED <<status, co, rc, job>> /\ pc[w] = "lua" /\ pc'[w] = "blocking"
        /\ \A v \in Worker : v # w => pc'[v] = pc[v]
    BY <1>0, <1>6 DEF Block, InLua, TypeOK
  <2>2. QED
    BY <2>1 DEF Ended
<1>7. ASSUME NEW w \in Worker, Enter(w) PROVE Ended'
  <2> DEFINE c == job[w]
  <2>1. /\ c \in Task /\ pc[w] = "enter" /\ rc[w] = "ok" /\ UNCHANGED <<rc, job>>
        /\ \A v \in Worker : v # w => pc'[v] = pc[v] /\ (pc[v] # "idle" => job[v] # c)
    BY <1>0, <1>7, OneThread DEF Enter, TypeOK, Coroutines
  <2>2. CASE status[c] \in {"ready", "suspended"}
    <3>1. /\ pc'[w] = "lua" /\ status'[c] = "running" /\ co'[c] = "running"
          /\ \A k \in Task : k # c => status'[k] = status[k] /\ co'[k] = co[k]
      BY <1>0, <1>7, <2>1, <2>2 DEF Enter, TypeOK
    <3>2. \A v \in Worker : v # w /\ pc[v] # "idle" => job[v] \in Task /\ job[v] # c
      BY <1>0, <2>1, OneThread
    <3>3. job'[w] = c
      BY <2>1
    <3> HIDE DEF c
    <3>4. ASSUME NEW k \in Task, status'[k] = "running"
          PROVE  co'[k] = "dead" \/ \E v \in Worker : job'[v] = k /\ pc'[v] \in {"lua", "blocking", "left"}
      <4>1. CASE k = c
        BY <3>1, <3>3, <4>1
      <4>2. CASE k # c
        BY <2>1, <3>1, <3>4, <4>2 DEF Ended
      <4>3. QED
        BY <4>1, <4>2
    <3>5. \A k \in Task : status'[k] \in {"finished", "error"} => co'[k] = "dead"
      BY <3>1 DEF Ended
    <3>6. ASSUME NEW v \in Worker
          PROVE  /\ pc'[v] \in {"lua", "blocking"} => status'[job'[v]] = "running" /\ co'[job'[v]] = "running"
                 /\ pc'[v] = "left" /\ rc'[v] # "yield" => co'[job'[v]] = "dead"
      BY <2>1, <3>1, <3>2, <3>3 DEF Ended
    <3>7. QED
      BY <3>4, <3>5, <3>6 DEF Ended
  <2>3. CASE status[c] \notin {"ready", "suspended"}
    <3>1. pc'[w] = "left" /\ UNCHANGED <<status, co>>
      BY <1>0, <1>7, <2>1, <2>3 DEF Enter, TypeOK
    <3>2. co[c] = "dead"
      <4>1. status[c] \in {"running", "finished", "error"}
        BY <1>0, <2>1, <2>3 DEF TypeOK
      <4>2. QED
        BY <2>1, <4>1 DEF Ended
    <3>3. \A v \in Worker : pc[v] \in {"lua", "blocking", "left"} => pc'[v] = pc[v]
      BY <2>1
    <3>4. QED
      BY <2>1, <3>1, <3>2, <3>3 DEF Ended
  <2>4. QED
    BY <2>2, <2>3
<1>8. ASSUME NEW w \in Worker,
             Yield(w) \/ \E r \in {"ok", "yield", "error", "other"} : Outcome(w, r)
      PROVE  Ended'
  <2> DEFINE c == job[w]
  <2>1. c \in Task /\ pc[w] \in {"lua", "blocking"} /\ UNCHANGED <<status, job>>
    BY <1>0, <1>8, OneThread DEF Yield, Outcome, InLua, Thread
  <2>2. /\ pc'[w] = "left" /\ (rc'[w] # "yield" => co'[c] = "dead")
        /\ \A v \in Worker : v # w => pc'[v] = pc[v] /\ rc'[v] = rc[v]
        /\ \A k \in Task : k # c => co'[k] = co[k]
    BY <1>0, <1>8, <2>1 DEF Yield, Outcome, TypeOK
  <2>3. status[c] = "running" /\ job[w] = c
    BY <2>1 DEF Ended
  <2>4. \A v \in Worker : v # w /\ pc[v] # "idle" => job[v] # c /\ job[v] \in Task
    BY <1>0, <2>1, OneThread
  <2> HIDE DEF c
  <2>5. ASSUME NEW k \in Task, status'[k] = "running"
        PROVE  co'[k] = "dead" \/ \E v \in Worker : job'[v] = k /\ pc'[v] \in {"lua", "blocking", "left"}
    <3>1. CASE k = c
      BY <2>1, <2>2, <2>3, <3>1
    <3>2. CASE k # c
      BY <2>1, <2>2, <2>3, <2>5, <3>2 DEF Ended
    <3>3. QED
      BY <3>1, <3>2
  <2>6. \A k \in Task : status'[k] \in {"finished", "error"} => co'[k] = "dead"
    BY <2>1, <2>2, <2>3 DEF Ended
  <2>7. ASSUME NEW v \in Worker
        PROVE  /\ pc'[v] \in {"lua", "blocking"} => status'[job'[v]] = "running" /\ co'[job'[v]] = "running"
               /\ pc'[v] = "left" /\ rc'[v] # "yield" => co'[job'[v]] = "dead"
    BY <2>1, <2>2, <2>3, <2>4 DEF Ended
  <2>8. QED
    BY <2>5, <2>6, <2>7 DEF Ended
<1>9. ASSUME NEW w \in Worker, Leave(w) PROVE Ended'
  <2> DEFINE c == job[w]
  <2>1. c \in Task /\ pc[w] = "left" /\ UNCHANGED <<co, job, rc>>
    BY <1>0, <1>9, OneThread DEF Leave
  <2>2. /\ pc'[w] = "free" /\ \A v \in Worker : v # w => pc'[v] = pc[v]
        /\ \A k \in Task : k # c => status'[k] = status[k]
    BY <1>0, <1>9, <2>1 DEF Leave, TypeOK
  <2>3. co[c] = "dead" \/ status'[c] = "suspended"
    BY <1>0, <1>9, <2>1 DEF Leave, TypeOK, Ended
  <2> HIDE DEF c
  <2>4. ASSUME NEW k \in Task, status'[k] = "running"
        PROVE  co'[k] = "dead" \/ \E v \in Worker : job'[v] = k /\ pc'[v] \in {"lua", "blocking", "left"}
    <3>1. CASE k = c
      BY <2>1, <2>3, <2>4, <3>1
    <3>2. CASE k # c
      BY <2>1, <2>2, <2>4, <3>2 DEF Ended, c
    <3>3. QED
      BY <3>1, <3>2
  <2>5. \A k \in Task : status'[k] \in {"finished", "error"} => co'[k] = "dead"
    BY <2>1, <2>2, <2>3 DEF Ended
  <2>6. ASSUME NEW v \in Worker
        PROVE  /\ pc'[v] \in {"lua", "blocking"} => status'[job'[v]] = "running" /\ co'[job'[v]] = "running"
               /\ pc'[v] = "left" /\ rc'[v] # "yield" => co'[job'[v]] = "dead"
    <3>1. pc[v] \in {"lua", "blocking"} => job[v] # c /\ job[v] \in Task /\ v # w
      BY <1>0, <2>1, OneThread DEF c
    <3>2. QED
      BY <2>1, <2>2, <3>1 DEF Ended
  <2>7. QED
    BY <2>4, <2>5, <2>6 DEF Ended
<1>10. CASE UNCHANGED vars
  BY <1>1, <1>10 DEF vars
<1>11. QED
  BY <1>2, <1>4, <1>5, <1>6, <1>7, <1>8, <1>9, <1>10 DEF Next, RunStep, Lua

\* Only luaS_createtask registers a task, and no thread resumes a coroutine that has ended.
LEMMA StepOver ==
  Shape /\ Coroutines /\ Ended /\ [Next]_vars =>
    \A k \in Task : /\ co[k] = "dead" => co'[k] = "dead"
                    /\ handle[k] # "none" => (k \in tasks' => k \in tasks) /\ handle'[k] # "none"
<1> SUFFICES ASSUME Shape, Coroutines, Ended, [Next]_vars, NEW k \in Task
             PROVE  /\ co[k] = "dead" => co'[k] = "dead"
                    /\ handle[k] # "none" => (k \in tasks' => k \in tasks) /\ handle'[k] # "none"
  OBVIOUS
<1>0. TypeOK /\ Frames
  BY DEF Shape
<1>1. ASSUME NEW t \in Thread, NEW c \in Task, Create(t, c) \/ Collect(t, c)
      PROVE  co' = co /\ (handle[k] # "none" => (k \in tasks' => k \in tasks) /\ handle'[k] # "none")
  BY <1>0, <1>1 DEF Create, Collect, Drop, TypeOK
<1>2. ASSUME NEW t \in Thread, (\E c \in Task : Resume(t, c) \/ Answer(t, c)) \/ CallStep(t)
      PROVE  UNCHANGED <<co, handle>> /\ tasks' \subseteq tasks
  BY <1>2 DEF Resume, Answer, CallStep, CallRef, CallStatus, CallUnref, CallPush, Drop, Ref,
     registry
<1>3. ASSUME NEW w \in Worker,
             RunRef(w) \/ Block(w) \/ Leave(w) \/ RunFree(w) \/ \E s \in Session : Start(w, s)
      PROVE  UNCHANGED <<co, handle>> /\ tasks' \subseteq tasks
  BY <1>3 DEF RunRef, Block, Leave, RunFree, Start, Drop, Ref, registry
<1>4. ASSUME NEW w \in Worker, Enter(w)
      PROVE  UNCHANGED <<tasks, handle>> /\ (co[k] = "dead" => co'[k] = "dead")
  BY <1>0, <1>4 DEF Enter, TypeOK, Frames, Coroutines, registry
<1>5. ASSUME NEW w \in Worker,
             Yield(w) \/ \E r \in {"ok", "yield", "error", "other"} : Outcome(w, r)
      PROVE  UNCHANGED <<tasks, handle>> /\ (co[k] = "dead" => co'[k] = "dead")
  <2>1. UNCHANGED <<tasks, handle>> /\ pc[w] \in {"lua", "blocking"}
    BY <1>5 DEF Yield, Outcome, InLua, Thread, registry
  <2>2. co[job[w]] = "running"
    BY <2>1 DEF Ended
  <2>3. k # job[w] => co'[k] = co[k]
    BY <1>0, <1>5 DEF Yield, Outcome, TypeOK
  <2>4. QED
    BY <2>1, <2>2, <2>3
<1>6. CASE UNCHANGED vars
  BY <1>6 DEF vars, registry
<1>7. QED
  BY <1>1, <1>2, <1>3, <1>4, <1>5, <1>6 DEF Next, Begin, RunStep, Lua

-----------------------------------------------------------------------------
LEMMA InitInv == Init => IInv
<1> SUFFICES ASSUME Init PROVE IInv
  OBVIOUS
<1> USE TaskAssumption DEF Init
<1>1. TypeOK
  <2>1. 0 \in 0..MaxResumes /\ 0 \in 0..MaxBlocks /\ <<>> \in Seq(Task)
    OBVIOUS
  <2>2. QED
    BY <2>1 DEF TypeOK, RunPhase, CallPhase
<1>2. Frames /\ Exclusive /\ Coroutines /\ Ended
  BY DEF Frames, Exclusive, Coroutines, Ended
<1>3. Created
  <2>1. Len(<<>>) = 0
    OBVIOUS
  <2>2. \A s \in Session : \A i \in 1..Len(queue[s]) : FALSE
    BY <2>1
  <2>3. QED
    BY <2>2 DEF Created
<1>4. ASSUME NEW k \in Task
      PROVE  RunRefs(k) = {} /\ CallRefs(k) = {} /\ HandleRefs(k) = 0 /\ ref[k] = 0
  BY DEF RunRefs, CallRefs, HandleRefs
<1>5. RefsAccounted
  <2>1. Cardinality({}) = 0
    BY FS_EmptySet
  <2>2. ASSUME NEW k \in Task
        PROVE  /\ ref[k] = HandleRefs(k) + Cardinality(RunRefs(k)) + Cardinality(CallRefs(k))
               /\ k \in tasks <=> ref[k] > 0
    <3>1. Cardinality(RunRefs(k)) = 0 /\ Cardinality(CallRefs(k)) = 0
      BY <1>4, <2>1
    <3>2. HandleRefs(k) = 0 /\ ref[k] = 0 /\ k \notin tasks
      BY <1>4
    <3>3. QED
      BY <3>1, <3>2
  <2>3. QED
    BY <2>2 DEF RefsAccounted
<1>6. QED
  BY <1>1, <1>2, <1>3, <1>5 DEF IInv, Shape

LEMMA SpecInv == Spec => []IInv
<1>1. IInv /\ [Next]_vars => IInv'
  BY StepTypes, StepFrames, StepCreated, StepExclusive, StepRefs, StepCoroutines, StepEnded
     DEF IInv, Shape
<1>2. QED
  BY <1>1, InitInv, PTL DEF Spec

\* The variables keep their types: no count of references ever goes below zero, and a
\* queue holds tasks.
THEOREM TypeCorrect == Spec => []TypeOK
<1>1. IInv => TypeOK
  BY DEF IInv, Shape
<1>2. QED
  BY <1>1, SpecInv, PTL

\* The ref_count of a task is the number of its handle and of the frames of task_run,
\* task_resume and session_queue_task that use it; and a task is registered while there is one.
THEOREM CountedReferences == Spec => []RefsAccounted
<1>1. IInv => RefsAccounted
  BY DEF IInv
<1>2. QED
  BY <1>1, SpecInv, PTL

\* However many resumes of a task are queued at once, and whoever answers it when,
\* lua_resume is called on a coroutine only that has not started or has yielded.
THEOREM ResumeSafe == Spec => ResumedWhenSuspended
<1>1. IInv /\ [Next]_vars =>
        [\A k \in Task : co'[k] = "running" /\ co[k] # "running" => co[k] \in {"none", "yielded"}]_vars
  BY StepResumes DEF IInv
<1>2. QED
  BY <1>1, SpecInv, PTL DEF Spec, ResumedWhenSuspended

\* What task_resume refuses with ERR_TASKSTATE is a task whose coroutine has ended, although
\* task_run marks a task that it does not resume as finished, whatever it was.
OnlyEndedRefused == \A k \in Task : status[k] \in {"finished", "error"} => co[k] = "dead"

THEOREM RefusedWhenEnded == Spec => []OnlyEndedRefused
<1>1. IInv => OnlyEndedRefused
  BY DEF IInv, Ended, OnlyEndedRefused
<1>2. QED
  BY <1>1, SpecInv, PTL

\* A coroutine that has ended is never run again, and a task that was taken out of the
\* registry never comes back, whoever still has its id.
OverForGood ==
  [][\A k \in Task : /\ co[k] = "dead" => co'[k] = "dead"
                     /\ handle[k] # "none" /\ k \notin tasks => k \notin tasks']_vars

THEOREM OverIsOver == Spec => OverForGood
<1>1. IInv /\ [Next]_vars =>
        [\A k \in Task : /\ co[k] = "dead" => co'[k] = "dead"
                         /\ handle[k] # "none" /\ k \notin tasks => k \notin tasks']_vars
  BY StepOver DEF IInv
<1>2. QED
  BY <1>1, SpecInv, PTL DEF Spec, OverForGood

=============================================================================

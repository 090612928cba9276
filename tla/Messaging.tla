------------------------------ MODULE Messaging ------------------------------
(***************************************************************************)
(* A task that reads a channel which threads of the host program write:    *)
(* the composition of Channel and Task.                                    *)
(*                                                                         *)
(* Both modules leave open what the other one is there for.  Channel makes *)
(* the callbacks of a call at any time after its critical section; here    *)
(* they run on the thread of that call, one after the other, and for a     *)
(* task they are the whole of task_resume.  Task queues bare ids; here a   *)
(* job carries the message it was queued with, as in session_queue_task,   *)
(* and task_run hands that message to the coroutine.                       *)
(*                                                                         *)
(* Nobody closes the channel: a task is not told of a close, whatever the  *)
(* event says (task_callback).                                             *)
(***************************************************************************)
EXTENDS Integers, Sequences, FiniteSets, SequencesExt

CONSTANTS
  Reader,      \* the task
  Sid,         \* its session
  Main,        \* the client that creates it
  Worker, Client,
  Write, Read, \* the calls of write, made by clients, and of read, by the task
  WriterOf,    \* WriterOf[m]: the client that makes the call m
  MaxResumes,  \* bound of the model: calls of task:resume by Main
  NoTask, NoSession, NoMsg

Thread == Worker \cup Client

ASSUME MessagingAssumption ==
  /\ WriterOf \in [Write -> Client]
  /\ IsFiniteSet(Worker) /\ IsFiniteSet(Client) /\ Worker \cap Client = {}
  /\ Main \in Client
  /\ IsFiniteSet(Read) /\ Write \cap Read = {}
  /\ MaxResumes \in Nat
  /\ NoTask # Reader /\ NoSession # Sid /\ NoMsg \notin Write

VARIABLES
  tasks, ref, handle, status, co, queue, owed, pc, job, rc, current,
  cpc, con, resumes, blocks,              \* as in Task
  open, messages, readers, writers, at, due, called, got, cleared, freed,
  decoded, fault,                         \* as in Channel: open and at are its
                                          \* status and pc
  arg,   \* arg[t]: the message task_resume was called with on thread t
  mail,  \* the messages of the jobs in queue[Sid]
  with,  \* with[w]: the message of the job pool thread w executes
  sent,  \* history: the messages in the order of their critical sections
  seen   \* history: the messages the code of the task was given, in order

T == INSTANCE Task WITH
       Task <- {Reader}, Session <- {Sid},
       SidOf <- [k \in {Reader} |-> Sid], OwnerOf <- [k \in {Reader} |-> Main],
       Blocking <- {Reader}, Yielding <- {}, MaxBlocks <- Cardinality(Read)

C == INSTANCE Channel WITH
       Host <- Write, Sizes <- {0}, MayClose <- FALSE,
       buf_size <- 0, status <- open, pc <- at

task    == <<tasks, ref, handle, status, co, queue, owed, pc, job, rc, current,
             cpc, con, resumes, blocks>>
channel == <<open, messages, readers, writers, at, due, called, got, cleared,
             freed, decoded, fault>>
carried == <<arg, mail, with>>
seenBy  == <<sent, seen>>
vars    == <<task, channel, carried, seenBy>>

TypeOK ==
  /\ T!TypeOK /\ C!TypeOK
  /\ arg \in [Thread -> Write \cup {NoMsg}]
  /\ with \in [Worker -> Write \cup {NoMsg}]
  /\ mail \in Seq(Write \cup {NoMsg}) /\ Len(mail) = Len(queue[Sid])
  /\ sent \in Seq(Write) /\ seen \in Seq(Write)

Init ==
  /\ T!Init /\ C!Init
  /\ arg = [t \in Thread |-> NoMsg]
  /\ with = [w \in Worker |-> NoMsg]
  /\ mail = <<>> /\ sent = <<>> /\ seen = <<>>

-----------------------------------------------------------------------------
(* The calls of channel functions, on the threads that make them. *)

\* The call o is made on thread t: the client's, or the one that runs the task.
On(t, o) ==
  IF o \in Write THEN t = WriterOf[o]
                 ELSE t \in Worker /\ job[t] = Reader /\ pc[t] \in {"lua", "blocking"}

\* Thread t is inside a channel function, which may have task_resume on top.
InChannel(t) ==
  \E o \in Write \cup Read : On(t, o) /\ at[o] \notin {"new", "done", "nil", "refused"}

Enter(t, o) ==
  /\ On(t, o) /\ T!InLua(t) /\ ~ InChannel(t)
  /\ C!Enter(o)
  /\ UNCHANGED <<task, carried, seenBy>>

Check(t, o) ==
  /\ On(t, o)
  /\ C!Check(o)
  /\ UNCHANGED <<task, carried, seenBy>>

WriteBody(t, m) ==
  /\ On(t, m)
  /\ C!WriteBody(m)
  /\ sent' = Append(sent, m)
  /\ UNCHANGED <<task, carried, seen>>

\* channel_read with the data of task_callback, which luac_read has allocated
\* for task_current().
ReadBody(t, r) ==
  /\ On(t, r)
  /\ C!ReadBody(r)
  /\ T!Block(t)
  /\ UNCHANGED <<carried, seenBy>>

\* A callback, made where the previous one has returned: session_callback, or
\* task_callback, which resumes the task with the message.
Invoke(t, o) ==
  /\ On(t, o) /\ T!InCall(t)
  /\ C!Invoke(o)
  /\ LET c == Head(due[o]) IN
       IF c.to \in Read
         THEN T!Answer(t, Reader) /\ arg' = [arg EXCEPT ![t] = c.msg]
         ELSE UNCHANGED <<task, arg>>
  /\ UNCHANGED <<mail, with, seenBy>>

\* luac_write returns; luac_read yields.
Return(t, o) ==
  /\ On(t, o) /\ T!InCall(t)
  /\ C!Return(o)
  /\ IF o \in Read THEN T!Yield(t) ELSE UNCHANGED task
  /\ UNCHANGED <<carried, seenBy>>

-----------------------------------------------------------------------------
(* task_resume and task_run, with the message of the job. *)

\* The code of Main creates, resumes or collects the task.  Their messages, the
\* arguments of those calls, are no messages of the channel.
Handle(t) ==
  /\ ~ InChannel(t)
  /\ \/ (T!Create(t, Reader) \/ T!Resume(t, Reader)) /\ arg' = [arg EXCEPT ![t] = NoMsg]
     \/ T!Collect(t, Reader) /\ UNCHANGED arg
  /\ UNCHANGED <<channel, mail, with, seenBy>>

Resume(t) ==
  /\ T!CallRef(t) \/ T!CallStatus(t) \/ T!CallUnref(t)
  /\ UNCHANGED <<channel, carried, seenBy>>

Push(t) ==
  /\ T!CallPush(t)
  /\ mail' = Append(mail, arg[t])
  /\ UNCHANGED <<channel, arg, with, seenBy>>

Start(w) ==
  /\ T!Start(w, Sid)
  /\ with' = [with EXCEPT ![w] = Head(mail)]
  /\ mail' = Tail(mail)
  /\ UNCHANGED <<channel, arg, seenBy>>

\* task_run decodes the message for the coroutine it resumes, and destroys it; in
\* its default branch it does neither.
Run(w) ==
  /\ T!Enter(w)
  /\ IF pc'[w] = "lua" /\ with[w] # NoMsg
       THEN /\ \E r \in Read : got[r] = with[w] /\ C!Decode(r)
            /\ seen' = Append(seen, with[w])
       ELSE UNCHANGED <<channel, seen>>
  /\ UNCHANGED <<carried, sent>>

\* The rest of task_run, and what else the code of the task may do: return or fail.
RunOn(w) ==
  /\ \/ T!RunRef(w) \/ T!Leave(w) \/ T!RunFree(w)
     \/ ~ InChannel(w) /\ \E r \in {"ok", "error", "other"} : T!Outcome(w, r)
  /\ UNCHANGED <<channel, carried, seenBy>>

-----------------------------------------------------------------------------
Inside(t) ==
  \/ \E o \in Write \cup Read : Check(t, o) \/ Invoke(t, o) \/ Return(t, o)
  \/ \E m \in Write : WriteBody(t, m)
  \/ \E r \in Read : ReadBody(t, r)
  \/ Resume(t) \/ Push(t)
RunStep(w) == Start(w) \/ Run(w) \/ RunOn(w)

Next ==
  \/ \E t \in Thread : Inside(t) \/ Handle(t) \/ \E o \in Write \cup Read : Enter(t, o)
  \/ \E w \in Worker : RunStep(w)

Spec == Init /\ [][Next]_vars

\* Threads are scheduled; nothing forces a client to call anything, and the
\* function of the task ends or reads.
FairSpec ==
  /\ Spec
  /\ \A t \in Thread : WF_vars(Inside(t))
  /\ \A w \in Worker : WF_vars(RunStep(w))

-----------------------------------------------------------------------------
\* The task can still be given something.
Alive == Reader \in tasks /\ co[Reader] # "dead"

\* Between the channel and the coroutine: a callback to make, task_resume with
\* it on some thread, a job in the queue, or a job that has just begun.
OnItsWay(m) ==
  \/ \E o \in Write \cup Read :
       \E i \in DOMAIN due[o] : due[o][i].to \in Read /\ due[o][i].msg = m
  \/ \E t \in Thread : con[t] = Reader /\ arg[t] = m
  \/ m \in Range(mail)
  \/ \E w \in Worker : with[w] = m /\ pc[w] \in {"ref", "enter"}

\* A message a read has taken from the channel is not lost on the way to the code
\* that reads, though it may arrive before the task has yielded (task_resume with
\* status running) and though stray resumes come in between.
MessageKept ==
  \A r \in Read : got[r] # NoMsg /\ Alive => got[r] \in Range(seen) \/ OnItsWay(got[r])

\* Where only the channel resumes it, the code of a task is given the messages in
\* the order in which they were written, and each of them once.
ReadsInOrder == resumes = 0 => IsPrefix(seen, sent)

\* The same with strays, which it is not: two reads are then under way at once,
\* and their callbacks race on two threads.
AlwaysInOrder == IsPrefix(seen, sent)

\* A read that was served returns in the code of the task, unless that ends or the
\* task's handle is collected.
ReadAnswered ==
  \A r \in Read : got[r] # NoMsg ~> (got[r] \in Range(seen) \/ ~ Alive)

=============================================================================

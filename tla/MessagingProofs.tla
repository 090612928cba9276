--------------------------- MODULE MessagingProofs ---------------------------
(***************************************************************************)
(* Proofs about Messaging, for any reads, writes, threads and stray        *)
(* resumes.                                                                *)
(*                                                                         *)
(* First, the composition is nothing but its parts: every behaviour of it  *)
(* is one of Task and one of Channel (TaskPart, ChannelPart).  So what     *)
(* TaskProofs and ChannelProofs prove is known of it, and is used for the  *)
(* properties that neither part can state: a message that a read has taken *)
(* from the channel is not lost on its way to the code that reads          *)
(* (MessagesKept), and, without stray resumes, the messages get there in   *)
(* the order in which they were written (InOrder).                         *)
(***************************************************************************)
EXTENDS Messaging, FiniteSetTheorems, SequenceTheorems, TLAPS

\* The two parts with their proofs, with the constants and variables Messaging
\* gives to Task and to Channel.
TP == INSTANCE TaskProofs WITH
       Task <- {Reader}, Session <- {Sid},
       SidOf <- [k \in {Reader} |-> Sid], OwnerOf <- [k \in {Reader} |-> Main],
       Blocking <- {Reader}, Yielding <- {}, MaxBlocks <- Cardinality(Read)

CP == INSTANCE ChannelProofs WITH
       Host <- Write, Sizes <- {0}, MayClose <- FALSE,
       buf_size <- 0, status <- open, pc <- at

-----------------------------------------------------------------------------
\* The assumptions of the parts hold.

LEMMA TaskConstants == TP!TaskAssumption
<1>1. Cardinality(Read) \in Nat
  BY FS_CardinalityType, MessagingAssumption
<1>2. Main \in Client \cup {Sid} /\ Sid \in {Sid}
  BY MessagingAssumption
<1>3. /\ [k \in {Reader} |-> Sid] \in [{Reader} -> {Sid}]
      /\ [k \in {Reader} |-> Main] \in [{Reader} -> Client \cup {Sid}]
  BY <1>2
<1>4. /\ IsFiniteSet(Worker) /\ IsFiniteSet(Client) /\ Worker \cap Client = {}
      /\ MaxResumes \in Nat /\ NoTask \notin {Reader} /\ NoSession \notin {Sid}
      /\ {Reader} \subseteq {Reader} /\ {} \subseteq {Reader}
  BY MessagingAssumption
<1>5. QED
  BY <1>1, <1>3, <1>4 DEF TP!TaskAssumption, TP!IsFiniteSet, IsFiniteSet

LEMMA ChannelConstants == CP!ChannelAssumption
  BY MessagingAssumption DEF CP!ChannelAssumption, CP!Op

\* The sets of the instances are those of the composition.
LEMMA Threads ==
  /\ Worker \subseteq Thread /\ T!Thread = Thread /\ TP!Thread = Thread
  /\ CP!Op = Write \cup Read
  BY DEF Thread, T!Thread, TP!Thread, CP!Op

-----------------------------------------------------------------------------
(* The refinement of Task. *)

LEMMA TaskInit == Init => TP!Init
  BY DEF Init, T!Init, TP!Init, T!Thread, TP!Thread

\* A step of the composition is one of Task, or leaves its variables alone.
LEMMA TaskStep == [Next]_vars => [TP!Next]_(TP!vars)
<1> SUFFICES ASSUME [Next]_vars PROVE [TP!Next]_(TP!vars)
  OBVIOUS
<1>1. ASSUME UNCHANGED task PROVE UNCHANGED TP!vars
  BY <1>1 DEF task, TP!vars, TP!registry, TP!runs, TP!calls, TP!bounds
<1>2. ASSUME NEW t \in Thread,
             \/ T!Create(t, Reader) \/ T!Collect(t, Reader)
             \/ T!Resume(t, Reader) \/ T!Answer(t, Reader)
      PROVE  TP!Begin(t)
  <2>1. CASE T!Create(t, Reader)
    <3>1. TP!Create(t, Reader)
      BY <2>1 DEF T!Create, TP!Create, T!Creator, TP!Creator, T!InLua, TP!InLua, T!Call,
         TP!Call, T!runs, TP!runs, T!bounds, TP!bounds
    <3>2. QED
      BY <3>1 DEF TP!Begin
  <2>2. CASE T!Collect(t, Reader)
    <3>1. TP!Collect(t, Reader)
      BY <2>2 DEF T!Collect, TP!Collect, T!Creator, TP!Creator, T!InLua, TP!InLua, T!Drop,
         TP!Drop, T!runs, TP!runs, T!bounds, TP!bounds, T!calls, TP!calls
    <3>2. QED
      BY <3>1 DEF TP!Begin
  <2>3. CASE T!Resume(t, Reader)
    <3>1. TP!Resume(t, Reader)
      BY <2>3 DEF T!Resume, TP!Resume, T!Creator, TP!Creator, T!InLua, TP!InLua, T!Call,
         TP!Call, T!runs, TP!runs, T!registry, TP!registry
    <3>2. QED
      BY <3>1 DEF TP!Begin
  <2>4. CASE T!Answer(t, Reader)
    <3>1. TP!Answer(t, Reader)
      BY <2>4 DEF T!Answer, TP!Answer, T!InCall, TP!InCall, T!Call, TP!Call, T!runs, TP!runs,
         T!registry, TP!registry, T!bounds, TP!bounds
    <3>2. QED
      BY <3>1 DEF TP!Begin
  <2>5. QED
    BY <1>2, <2>1, <2>2, <2>3, <2>4
<1>3. ASSUME NEW t \in Thread,
             T!CallRef(t) \/ T!CallStatus(t) \/ T!CallUnref(t) \/ T!CallPush(t)
      PROVE  TP!CallStep(t)
  <2> USE DEF T!registry, TP!registry, T!runs, TP!runs,
              T!calls, TP!calls, T!bounds, TP!bounds,
              T!GoOn, TP!GoOn, T!EndCall, TP!EndCall, T!Drop, TP!Drop, T!Ref, TP!Ref
  <2>1. T!CallRef(t) => TP!CallRef(t)
    BY DEF T!CallRef, TP!CallRef
  <2>2. T!CallStatus(t) => TP!CallStatus(t)
    BY DEF T!CallStatus, TP!CallStatus
  <2>3. T!CallUnref(t) => TP!CallUnref(t)
    BY DEF T!CallUnref, TP!CallUnref
  <2>4. T!CallPush(t) => TP!CallPush(t)
    BY DEF T!CallPush, TP!CallPush
  <2>5. QED
    BY <1>3, <2>1, <2>2, <2>3, <2>4 DEF TP!CallStep
<1>4. ASSUME NEW w \in Worker,
             \/ T!Start(w, Sid) \/ T!RunRef(w) \/ T!Enter(w)
             \/ T!Yield(w) \/ T!Leave(w) \/ T!RunFree(w)
      PROVE  TP!RunStep(w)
  <2> USE DEF T!registry, TP!registry, T!runs, TP!runs,
              T!calls, TP!calls, T!bounds, TP!bounds,
              T!Drop, TP!Drop, T!Ref, TP!Ref
  <2>1. T!Start(w, Sid) => TP!Start(w, Sid)
    BY DEF T!Start, TP!Start, T!Busy, TP!Busy
  <2>2. T!RunRef(w) => TP!RunRef(w)
    BY DEF T!RunRef, TP!RunRef
  <2>3. T!Enter(w) => TP!Enter(w)
    BY DEF T!Enter, TP!Enter
  <2>4. T!Yield(w) => TP!Yield(w)
    BY DEF T!Yield, TP!Yield
  <2>5. T!Leave(w) => TP!Leave(w)
    BY DEF T!Leave, TP!Leave
  <2>6. T!RunFree(w) => TP!RunFree(w)
    BY DEF T!RunFree, TP!RunFree
  <2>7. QED
    BY <1>4, <2>1, <2>2, <2>3, <2>4, <2>5, <2>6 DEF TP!RunStep
<1>5. ASSUME NEW w \in Worker,
             T!Block(w) \/ \E r \in {"ok", "error", "other"} : T!Outcome(w, r)
      PROVE  TP!Lua(w)
  <2> USE DEF T!registry, TP!registry, T!runs, TP!runs,
              T!calls, TP!calls, T!bounds, TP!bounds,
              T!InLua, TP!InLua
  <2>1. T!Block(w) => TP!Block(w)
    BY DEF T!Block, TP!Block
  <2>2. \A r : T!Outcome(w, r) => TP!Outcome(w, r)
    BY DEF T!Outcome, TP!Outcome
  <2>3. QED
    BY <1>5, <2>1, <2>2 DEF TP!Lua
<1>6. ASSUME NEW t \in Thread, Inside(t) PROVE [TP!Next]_(TP!vars)
  <2>1. CASE \E r \in Read : ReadBody(t, r)
    <3>1. t \in Worker /\ T!Block(t)
      BY <2>1, MessagingAssumption DEF ReadBody, On
    <3>2. QED
      BY <1>5, <3>1 DEF TP!Next
  <2>2. CASE \E o \in Write \cup Read : Invoke(t, o)
    <3>1. T!Answer(t, Reader) \/ UNCHANGED task
      BY <2>2 DEF Invoke
    <3>2. QED
      BY <1>1, <1>2, <3>1, Threads DEF TP!Next
  <2>3. CASE \E o \in Write \cup Read : Return(t, o)
    <3>1. (t \in Worker /\ T!Yield(t)) \/ UNCHANGED task
      BY <2>3, MessagingAssumption DEF Return, On
    <3>2. QED
      BY <1>1, <1>4, <3>1 DEF TP!Next
  <2>4. CASE Resume(t) \/ Push(t)
    BY <1>3, <2>4, Threads DEF Resume, Push, TP!Next
  <2>5. CASE (\E o \in Write \cup Read : Check(t, o)) \/ (\E m \in Write : WriteBody(t, m))
    <3>1. UNCHANGED task
      BY <2>5 DEF Check, WriteBody
    <3>2. QED
      BY <1>1, <3>1
  <2>6. QED
    BY <1>6, <2>1, <2>2, <2>3, <2>4, <2>5 DEF Inside
<1>7. ASSUME NEW t \in Thread, Handle(t) PROVE [TP!Next]_(TP!vars)
  BY <1>2, <1>7, Threads DEF Handle, TP!Next
<1>8. ASSUME NEW t \in Thread, NEW o \in Write \cup Read, Enter(t, o) PROVE [TP!Next]_(TP!vars)
  BY <1>1, <1>8 DEF Enter
<1>9. ASSUME NEW w \in Worker, RunStep(w) PROVE [TP!Next]_(TP!vars)
  <2>1. CASE Start(w) \/ Run(w)
    BY <1>4, <2>1 DEF Start, Run, TP!Next
  <2>2. CASE RunOn(w)
    BY <1>4, <1>5, <2>2 DEF RunOn, TP!Next
  <2>3. QED
    BY <1>9, <2>1, <2>2 DEF RunStep
<1>10. CASE UNCHANGED vars
  BY <1>1, <1>10 DEF vars
<1>11. QED
  BY <1>6, <1>7, <1>8, <1>9, <1>10 DEF Next

\* Whatever channels do with a task, its life is one that Task allows: it is
\* resumed, run, collected and freed as task_resume and task_run say.
THEOREM TaskPart == Spec => TP!Spec
  BY TaskInit, TaskStep, PTL DEF Spec, TP!Spec

-----------------------------------------------------------------------------
(* The refinement of Channel. *)

LEMMA ChannelInit == Init => CP!Init
  BY DEF Init, C!Init, CP!Init, C!Op, CP!Op

\* The critical sections as the proofs about Channel know them.
LEMMA Bodies ==
  ASSUME NEW o
  PROVE  (C!WriteBody(o) => CP!WriteBody(o)) /\ (C!ReadBody(o) => CP!ReadBody(o))
<1> USE DEF C!queues, CP!queues, C!Goto, CP!Goto, C!Serve, CP!Serve, C!Popped, CP!Popped,
            C!Received, CP!Received
<1>1. C!WriteBody(o) => CP!WriteBody(o)
  BY DEF C!WriteBody, CP!WriteBody, C!Buffer, CP!Buffer, C!Room, CP!Room, C!AfterWrite,
     CP!AfterWrite
<1>2. C!ReadBody(o) => CP!ReadBody(o)
  BY DEF C!ReadBody, CP!ReadBody
<1>3. QED
  BY <1>1, <1>2

\* A step of the composition is one of Channel, or leaves its variables alone.
LEMMA ChannelStep == [Next]_vars => [CP!Next]_(CP!vars)
<1> SUFFICES ASSUME [Next]_vars PROVE [CP!Next]_(CP!vars)
  OBVIOUS
<1> USE DEF C!queues, CP!queues, C!Goto, CP!Goto
<1>1. ASSUME UNCHANGED channel PROVE UNCHANGED CP!vars
  BY <1>1 DEF channel, CP!vars
<1>2. ASSUME NEW o \in Write \cup Read, C!Enter(o) PROVE CP!Next
  <2>1. CP!Enter(o)
    BY <1>2 DEF C!Enter, CP!Enter
  <2>2. QED
    BY <2>1, Threads DEF CP!Next
<1>3. ASSUME NEW o \in Write \cup Read, C!Check(o) \/ C!Invoke(o) \/ C!Return(o) PROVE CP!Next
  <2>1. C!Check(o) => CP!Check(o)
    BY DEF C!Check, CP!Check
  <2>2. C!Invoke(o) => CP!Invoke(o)
    BY DEF C!Invoke, CP!Invoke, C!FrameGone, CP!FrameGone, C!Touches, CP!Touches
  <2>3. C!Return(o) => CP!Return(o)
    BY DEF C!Return, CP!Return
  <2>4. QED
    BY <1>3, <2>1, <2>2, <2>3, Threads DEF CP!Next, CP!Step
<1>4. ASSUME NEW m \in Write, C!WriteBody(m) PROVE CP!Next
  <2>1. CP!WriteBody(m)
    BY <1>4, Bodies
  <2>2. QED
    BY <2>1, Threads DEF CP!Next, CP!Step
<1>5. ASSUME NEW r \in Read, C!ReadBody(r) PROVE CP!Next
  <2>1. CP!ReadBody(r)
    BY <1>5, Bodies
  <2>2. QED
    BY <2>1, Threads DEF CP!Next, CP!Step
<1>6. ASSUME NEW r \in Read, C!Decode(r) PROVE CP!Next
  <2>1. CP!Decode(r)
    BY <1>6 DEF C!Decode, CP!Decode
  <2>2. QED
    BY <2>1 DEF CP!Next
<1>7. ASSUME NEW t \in Thread, Inside(t) \/ \E o \in Write \cup Read : Enter(t, o)
      PROVE  [CP!Next]_(CP!vars)
  BY <1>1, <1>2, <1>3, <1>4, <1>5, <1>7
     DEF Inside, Enter, Check, WriteBody, ReadBody, Invoke, Return, Resume, Push
<1>8. ASSUME NEW t \in Thread, Handle(t) PROVE [CP!Next]_(CP!vars)
  BY <1>1, <1>8 DEF Handle
<1>9. ASSUME NEW w \in Worker, RunStep(w) PROVE [CP!Next]_(CP!vars)
  <2>1. CASE Run(w)
    <3>1. UNCHANGED channel \/ \E r \in Read : C!Decode(r)
      BY <2>1 DEF Run
    <3>2. QED
      BY <1>1, <1>6, <3>1
  <2>2. CASE Start(w) \/ RunOn(w)
    BY <1>1, <2>2 DEF Start, RunOn
  <2>3. QED
    BY <1>9, <2>1, <2>2 DEF RunStep
<1>10. CASE UNCHANGED vars
  BY <1>1, <1>10 DEF vars
<1>11. QED
  BY <1>7, <1>8, <1>9, <1>10 DEF Next

\* However the reads of a task are scheduled, the channel is one that Channel
\* allows: the callbacks of a call are made after its critical section, in order.
THEOREM ChannelPart == Spec => CP!Spec
  BY ChannelInit, ChannelStep, PTL DEF Spec, CP!Spec

-----------------------------------------------------------------------------
\* What the parts guarantee.
Parts == TP!IInv /\ CP!Counted

\* The invariants of the parts hold throughout.
LEMMA PartsInv == Spec => []Parts
<1>1. TP!Spec => []TP!IInv
  BY TP!SpecInv, TaskConstants DEF TP!TaskAssumption
<1>2. CP!Spec => []CP!Counted
  BY CP!CountedInvariance, ChannelConstants DEF CP!ChannelAssumption
<1>3. QED
  BY TaskPart, ChannelPart, <1>1, <1>2, PTL DEF Parts

\* The elements of a sequence: the first and those of the rest.
LEMMA SplitRange ==
  ASSUME NEW S, NEW q \in Seq(S), q # <<>>
  PROVE  Range(q) = {Head(q)} \cup Range(Tail(q))
<1>1. /\ Tail(q) \in Seq(S) /\ Len(Tail(q)) = Len(q) - 1
      /\ \A i \in 1..Len(Tail(q)) : Tail(q)[i] = q[i + 1]
  BY HeadTailProperties
<1>2. /\ Len(q) \in Nat \ {0} /\ DOMAIN q = 1..Len(q) /\ DOMAIN Tail(q) = 1..(Len(q) - 1)
      /\ Head(q) = q[1]
  BY <1>1, LenProperties, EmptySeq
<1>3. ASSUME NEW x \in Range(q), x # Head(q) PROVE x \in Range(Tail(q))
  <2>1. PICK i \in 1..Len(q) : x = q[i]
    BY <1>2, <1>3 DEF Range
  <2>2. i - 1 \in 1..(Len(q) - 1) /\ (i - 1) + 1 = i
    BY <1>2, <1>3, <2>1
  <2>3. QED
    BY <1>1, <1>2, <2>1, <2>2 DEF Range
<1>4. ASSUME NEW x \in Range(Tail(q)) PROVE x \in Range(q)
  <2>1. PICK i \in 1..(Len(q) - 1) : x = q[i + 1]
    BY <1>1, <1>2, <1>4 DEF Range
  <2>2. i + 1 \in 1..Len(q)
    BY <1>2
  <2>3. QED
    BY <1>2, <2>1, <2>2 DEF Range
<1>5. Head(q) \in Range(q)
  BY <1>2 DEF Range
<1>6. QED
  BY <1>3, <1>4, <1>5

\* Of the invariants of the parts, what the steps below need.
LEMMA Facts ==
  ASSUME Parts
  PROVE  /\ pc \in [Worker -> {"idle", "ref", "enter", "lua", "blocking", "left", "free"}]
         /\ cpc \in [Thread -> {"idle", "ref", "status", "queue", "unref", "push"}]
         /\ job \in [Worker -> {Reader, NoTask}] /\ con \in [Thread -> {Reader, NoTask}]
         /\ \A w \in Worker : pc[w] # "idle" => job[w] = Reader
         /\ \A t \in Thread : cpc[t] = "idle" <=> con[t] = NoTask
         /\ queue \in [{Sid} -> Seq({Reader})]
         /\ tasks \subseteq {Reader}
         /\ due \in [Write \cup Read -> Seq(CP!Callback)]
         /\ \A o \in Write \cup Read : due[o] # <<>> => at[o] \in {"calling", "blocked"}
         /\ got \in [Read -> Write \cup {NoMsg}]
         /\ readers \in Seq(Read)
<1>1. TP!TypeOK /\ TP!Frames /\ CP!TypeOK /\ CP!Shape
  BY DEF Parts, TP!IInv, TP!Shape, CP!Counted, CP!Shape
<1>2. NoTask # Reader
  BY MessagingAssumption
<1>3. QED
  BY <1>1, <1>2, Threads DEF TP!TypeOK, TP!Frames, TP!RunPhase, TP!CallPhase, CP!TypeOK,
     CP!Shape

\* The messages on their way: the types.
Carried ==
  /\ arg \in [Thread -> Write \cup {NoMsg}]
  /\ with \in [Worker -> Write \cup {NoMsg}]
  /\ mail \in Seq(Write \cup {NoMsg}) /\ Len(mail) = Len(queue[Sid])
  /\ sent \in Seq(Write) /\ seen \in Seq(Write)

\* The messages of the jobs are queued and taken together with the jobs.
LEMMA StepCarried == Parts /\ Carried /\ [Next]_vars => Carried'
<1> SUFFICES ASSUME Parts, Carried, [Next]_vars PROVE Carried'
  OBVIOUS
<1>0. UNCHANGED <<queue, carried, seenBy>> => Carried'
  BY DEF carried, seenBy, Carried
<1>1. ASSUME NEW t \in Thread, Push(t) PROVE Carried'
  <2>1. /\ cpc[t] = "push" /\ con[t] = Reader
        /\ queue' = [queue EXCEPT ![Sid] = Append(@, Reader)]
        /\ mail' = Append(mail, arg[t]) /\ UNCHANGED <<arg, with, sent, seen>>
    BY <1>1, Facts DEF Push, T!CallPush, seenBy
  <2>2. queue[Sid] \in Seq({Reader}) /\ queue'[Sid] = Append(queue[Sid], Reader)
    BY <2>1, Facts
  <2>3. arg[t] \in Write \cup {NoMsg}
    BY DEF Carried
  <2>4. QED
    BY <2>1, <2>2, <2>3 DEF Carried
<1>2. ASSUME NEW w \in Worker, Start(w) PROVE Carried'
  <2>1. /\ queue[Sid] # <<>> /\ queue' = [queue EXCEPT ![Sid] = Tail(@)]
        /\ mail' = Tail(mail) /\ with' = [with EXCEPT ![w] = Head(mail)]
        /\ UNCHANGED <<arg, sent, seen>>
    BY <1>2 DEF Start, T!Start, seenBy
  <2>2. queue[Sid] \in Seq({Reader}) /\ queue'[Sid] = Tail(queue[Sid])
    BY <2>1, Facts
  <2>3. mail \in Seq(Write \cup {NoMsg}) /\ mail # <<>> /\ Len(mail) = Len(queue[Sid])
    BY <2>1, <2>2, EmptySeq DEF Carried
  <2>4. Head(mail) \in Write \cup {NoMsg} /\ Tail(mail) \in Seq(Write \cup {NoMsg})
        /\ Len(Tail(mail)) = Len(mail) - 1 /\ Len(Tail(queue[Sid])) = Len(queue[Sid]) - 1
    BY <2>1, <2>2, <2>3, HeadTailProperties
  <2>5. QED
    BY <2>1, <2>2, <2>3, <2>4 DEF Carried
<1>3. ASSUME NEW t \in Thread, Handle(t) PROVE Carried'
  <2>1. UNCHANGED <<queue, with, mail, sent, seen>>
        /\ (arg' = arg \/ arg' = [arg EXCEPT ![t] = NoMsg])
    BY <1>3 DEF Handle, T!Create, T!Resume, T!Collect, seenBy
  <2>2. QED
    BY <2>1 DEF Carried
<1>4. ASSUME NEW t \in Thread, NEW o \in Write \cup Read, Invoke(t, o) PROVE Carried'
  <2>1. UNCHANGED <<queue, with, mail, sent, seen>> /\ due[o] # <<>>
        /\ (arg' = arg \/ arg' = [arg EXCEPT ![t] = Head(due[o]).msg])
    BY <1>4 DEF Invoke, T!Answer, C!Invoke, seenBy, task
  <2>2. Head(due[o]) \in CP!Callback
    BY <2>1, Facts, HeadTailProperties
  <2>3. Head(due[o]).msg \in Write
    BY <2>2 DEF CP!Callback
  <2>4. QED
    BY <2>1, <2>3 DEF Carried
<1>5. ASSUME NEW t \in Thread, NEW m \in Write, WriteBody(t, m) PROVE Carried'
  <2>1. UNCHANGED <<queue, carried, seen>> /\ sent' = Append(sent, m)
    BY <1>5 DEF WriteBody, task
  <2>2. QED
    BY <2>1 DEF Carried, carried
<1>6. ASSUME NEW w \in Worker, Run(w) PROVE Carried'
  <2>1. UNCHANGED <<queue, carried, sent>>
    BY <1>6 DEF Run, T!Enter
  <2>2. seen' = seen \/ (with[w] # NoMsg /\ seen' = Append(seen, with[w]))
    BY <1>6 DEF Run
  <2>3. with[w] \in Write \cup {NoMsg}
    BY DEF Carried
  <2>4. seen' \in Seq(Write)
    <3>1. seen \in Seq(Write)
      BY DEF Carried
    <3>2. seen' = seen \/ \E m \in Write : seen' = Append(seen, m)
      BY <2>2, <2>3
    <3>3. QED
      BY <3>1, <3>2, AppendProperties
  <2>5. QED
    BY <2>1, <2>4 DEF Carried, carried
<1>7. ASSUME NEW w \in Worker, RunOn(w) PROVE Carried'
  BY <1>0, <1>7 DEF RunOn, T!RunRef, T!Leave, T!RunFree, T!Outcome
<1>8. ASSUME NEW t \in Thread, NEW o \in Write \cup Read,
             Enter(t, o) \/ Check(t, o) \/ ReadBody(t, o) \/ Return(t, o) \/ Resume(t)
      PROVE  Carried'
  BY <1>0, <1>8 DEF Enter, Check, ReadBody, Return, Resume, task, T!Block, T!Yield, T!CallRef,
                    T!CallStatus, T!CallUnref
<1>9. ASSUME NEW t \in Thread, Resume(t) PROVE Carried'
  BY <1>0, <1>9 DEF Resume, T!CallRef, T!CallStatus, T!CallUnref
<1>10. CASE UNCHANGED vars
  BY <1>0, <1>10 DEF vars, task
<1>11. QED
  BY <1>1, <1>2, <1>3, <1>4, <1>5, <1>6, <1>7, <1>8, <1>9, <1>10 DEF Next, Inside, RunStep

-----------------------------------------------------------------------------
\* Nothing was read before the task was created.
Started == readers # <<>> \/ (\E r \in Read : got[r] # NoMsg) => handle[Reader] # "none"

\* MessageKept, message by message.
Taken(m) == \E r \in Read : got[r] = m
Kept(m) == Taken(m) /\ Alive => m \in Range(seen) \/ OnItsWay(m)

\* The inductive invariant of the composition.
KInv == Parts /\ Carried /\ Started /\ \A m \in Write : Kept(m)

\* A message in the channel's list of callbacks: the steps that leave it there.
LEMMA WaySame ==
  ASSUME NEW m \in Write, OnItsWay(m), due' = due, UNCHANGED carried,
         \A t \in Thread : con'[t] = con[t],
         \A w \in Worker : pc[w] \in {"ref", "enter"} => pc'[w] \in {"ref", "enter"}
  PROVE  OnItsWay(m)'
  BY DEF OnItsWay, carried

\* task_resume on thread t.
LEMMA WayResume ==
  ASSUME Parts, Carried, NEW m \in Write, OnItsWay(m), NEW t \in Thread, Resume(t),
         Reader \in tasks', co'[Reader] # "dead"
  PROVE  OnItsWay(m)'
<1>1. UNCHANGED <<due, arg, mail, with, pc, co>>
  BY DEF Resume, T!CallRef, T!CallStatus, T!CallUnref, T!runs, channel, carried
<1>2. con' = con
  <2>1. CASE T!CallRef(t)
    <3>1. cpc[t] # "idle" /\ con[t] = Reader
      BY <2>1, Facts DEF T!CallRef
    <3>2. Reader \in tasks
      BY <2>1 DEF T!CallRef, T!Ref, T!registry
    <3>3. QED
      BY <2>1, <3>1, <3>2 DEF T!CallRef, T!GoOn
  <2>2. CASE T!CallStatus(t)
    <3>1. con[t] = Reader
      BY <2>2, Facts DEF T!CallStatus
    <3>2. status[Reader] \notin {"finished", "error"}
      BY <1>1 DEF Parts, TP!IInv, TP!Ended
    <3>3. QED
      BY <2>2, <3>1, <3>2 DEF T!CallStatus, T!GoOn
  <2>3. CASE T!CallUnref(t)
    BY <2>3 DEF T!CallUnref, T!GoOn
  <2>4. QED
    BY <2>1, <2>2, <2>3 DEF Resume
<1>3. QED
  BY <1>1, <1>2, WaySame DEF carried

\* session_queue_task puts the message into the queue.
LEMMA WayPush ==
  ASSUME Parts, Carried, NEW m \in Write, OnItsWay(m), NEW t \in Thread, Push(t)
  PROVE  OnItsWay(m)'
<1>1. /\ con' = [con EXCEPT ![t] = NoTask] /\ mail' = Append(mail, arg[t])
      /\ UNCHANGED <<due, arg, with, pc>>
  BY DEF Push, T!CallPush, T!EndCall, T!runs, channel
<1>2. \A u \in Thread : u # t => con'[u] = con[u]
  BY <1>1, Facts
<1>3. mail \in Seq(Write \cup {NoMsg}) /\ arg[t] \in Write \cup {NoMsg}
  BY DEF Carried
<1>4. Range(mail') = Range(mail) \cup {arg[t]}
  BY <1>1, <1>3, CP!Pushed DEF CP!Range, Range
<1>5. QED
  BY <1>1, <1>2, <1>4 DEF OnItsWay

\* session_run takes the message out of it.
LEMMA WayStart ==
  ASSUME Parts, Carried, NEW m \in Write, OnItsWay(m), NEW w \in Worker, Start(w)
  PROVE  OnItsWay(m)'
<1>1. /\ pc[w] = "idle" /\ pc'[w] = "ref" /\ with'[w] = Head(mail) /\ mail' = Tail(mail)
      /\ \A v \in Worker : v # w => pc'[v] = pc[v] /\ with'[v] = with[v]
      /\ UNCHANGED <<due, con, arg>>
  BY Facts DEF Carried, Start, T!Start, T!calls, channel
<1>2. mail \in Seq(Write \cup {NoMsg}) /\ mail # <<>>
  <2>1. queue[Sid] \in Seq({Reader}) /\ queue[Sid] # <<>>
    BY Facts DEF Start, T!Start
  <2>2. QED
    BY <2>1, EmptySeq DEF Carried
<1>3. m \in Range(mail) => m = Head(mail) \/ m \in Range(Tail(mail))
  BY <1>2, SplitRange
<1>4. QED
  BY <1>1, <1>3 DEF OnItsWay

\* task_run hands it to the coroutine.
LEMMA WayRun ==
  ASSUME Parts, Carried, NEW m \in Write, OnItsWay(m), NEW w \in Worker, Run(w),
         co'[Reader] # "dead"
  PROVE  OnItsWay(m)' \/ m \in Range(seen')
<1>1. /\ pc[w] = "enter" /\ job[w] = Reader /\ UNCHANGED <<carried, con>>
      /\ \A v \in Worker : v # w => pc'[v] = pc[v]
  BY Facts DEF Run, T!Enter, T!calls
<1>2. due' = due
  BY DEF Run, C!Decode, channel
<1>3. CASE with[w] = m
  <2>1. pc'[w] = "lua"
    <3>1. CASE status[Reader] \in {"ready", "suspended"}
      BY <1>1, <3>1, Facts DEF Run, T!Enter
    <3>2. CASE status[Reader] \notin {"ready", "suspended"}
      <4>1. co' = co
        BY <1>1, <3>2 DEF Run, T!Enter
      <4>2. \A v \in Worker : job[v] = Reader => pc[v] \notin {"lua", "blocking", "left"}
        BY <1>1 DEF Parts, TP!IInv, TP!Shape, TP!Exclusive
      <4>3. status[Reader] \in {"running", "finished", "error"}
        BY <3>2 DEF Parts, TP!IInv, TP!Shape, TP!TypeOK
      <4>4. co[Reader] = "dead"
        BY <4>2, <4>3 DEF Parts, TP!IInv, TP!Ended
      <4>5. QED
        BY <4>1, <4>4
    <3>3. QED
      BY <3>1, <3>2
  <2>2. m # NoMsg
    BY MessagingAssumption
  <2>3. seen' = Append(seen, m) /\ seen \in Seq(Write)
    BY <1>3, <2>1, <2>2 DEF Run, Carried
  <2>4. QED
    BY <2>3, CP!Pushed DEF CP!Range, Range
<1>4. CASE with[w] # m
  BY <1>1, <1>2, <1>4 DEF OnItsWay, carried
<1>5. QED
  BY <1>3, <1>4

\* task_run goes on.
LEMMA WayRunOn ==
  ASSUME Parts, Carried, NEW m \in Write, OnItsWay(m), NEW w \in Worker, RunOn(w),
         Reader \in tasks'
  PROVE  OnItsWay(m)'
<1>1. UNCHANGED <<carried, con, due>> /\ \A v \in Worker : v # w => pc'[v] = pc[v]
  BY Facts DEF RunOn, T!RunRef, T!Leave, T!RunFree, T!Outcome, T!calls, channel
<1>2. pc[w] \in {"ref", "enter"} => pc'[w] \in {"ref", "enter"}
  <2>1. CASE T!RunRef(w)
    <3>1. job[w] = Reader /\ tasks' = tasks
      BY <2>1, Facts DEF T!RunRef, T!Ref, T!registry
    <3>2. QED
      BY <2>1, <3>1, Facts DEF T!RunRef
  <2>2. CASE ~ T!RunRef(w)
    BY <2>2 DEF RunOn, T!Leave, T!RunFree, T!Outcome, T!InLua
  <2>3. QED
    BY <2>1, <2>2
<1>3. QED
  BY <1>1, <1>2, WaySame

\* The code of a client or of the task calls read or write, or returns from it.
LEMMA WayCall ==
  ASSUME Parts, Carried, NEW m \in Write, OnItsWay(m), NEW t \in Thread,
         NEW o \in Write \cup Read,
         Enter(t, o) \/ Check(t, o) \/ Return(t, o)
  PROVE  OnItsWay(m)'
<1>1. UNCHANGED <<due, con, carried>>
  BY DEF Enter, Check, Return, C!Enter, C!Check, C!Return, T!Yield, T!calls, task
<1>2. pc' = pc \/ (pc[t] = "blocking" /\ pc' = [pc EXCEPT ![t] = "left"])
  BY DEF Enter, Check, Return, T!Yield, task
<1>3. QED
  BY <1>1, <1>2, WaySame, Facts

\* A critical section adds callbacks to the list of its call, which was empty.
LEMMA WayBody ==
  ASSUME Parts, Carried, NEW m \in Write, OnItsWay(m), NEW t \in Thread,
         NEW o \in Write \cup Read,
         (WriteBody(t, o) /\ o \in Write) \/ (ReadBody(t, o) /\ o \in Read)
  PROVE  OnItsWay(m)'
<1>1. UNCHANGED <<con, carried>> /\ at[o] = "body"
  BY DEF WriteBody, ReadBody, C!WriteBody, C!ReadBody, T!Block, T!calls, task
<1>2. pc' = pc \/ (pc[t] = "lua" /\ pc' = [pc EXCEPT ![t] = "blocking"])
  <2>1. CASE WriteBody(t, o)
    BY <2>1 DEF WriteBody, task
  <2>2. CASE ReadBody(t, o) /\ o \in Read
    <3>1. t \in Worker /\ T!Block(t)
      BY <2>2, MessagingAssumption DEF ReadBody, On
    <3>2. QED
      BY <3>1 DEF T!Block, T!InLua
  <2>3. QED
    BY <2>1, <2>2
<1>3. due[o] = <<>> /\ \A p \in Write \cup Read : p # o => due'[p] = due[p]
  <2>1. due[o] = <<>>
    BY <1>1, Facts
  <2>2. (o \in Write /\ CP!WriteBody(o)) \/ (o \in Read /\ CP!ReadBody(o))
    BY Bodies DEF WriteBody, ReadBody
  <2>3. CP!Inv /\ CP!TypeOK
    BY DEF Parts, CP!Counted, CP!Shape
  <2>4. \A p \in CP!Op : p # o => due'[p] = due[p]
    BY <2>2, <2>3, CP!WriteDue, CP!ReadDue, ChannelConstants DEF CP!ChannelAssumption
  <2>5. QED
    BY <2>1, <2>4, Threads
<1>4. \A w \in Worker : pc[w] \in {"ref", "enter"} => pc'[w] \in {"ref", "enter"}
  BY <1>2, Facts
<1>5. ASSUME NEW p \in Write \cup Read, NEW i \in DOMAIN due[p], due[p][i].to \in Read,
             due[p][i].msg = m
      PROVE  OnItsWay(m)'
  <2>1. p # o
    BY <1>3, <1>5
  <2>2. due'[p] = due[p]
    BY <1>3, <2>1
  <2>3. QED
    BY <1>5, <2>2 DEF OnItsWay
<1>6. QED
  BY <1>1, <1>4, <1>5 DEF OnItsWay, carried

\* The list of callbacks of call o without its first: what was at i + 1 is at i.
LEMMA DueTail ==
  ASSUME Parts, NEW o \in Write \cup Read, due[o] # <<>>, due' = [due EXCEPT ![o] = Tail(@)]
  PROVE  /\ 1 \in DOMAIN due[o] /\ Head(due[o]) = due[o][1] /\ due[o][1] \in CP!Callback
         /\ \A i \in DOMAIN due'[o] :
              i \in Nat \ {0} /\ i + 1 \in DOMAIN due[o] /\ due'[o][i] = due[o][i + 1]
         /\ \A i \in DOMAIN due[o] : i # 1 => \E j \in DOMAIN due'[o] : i = j + 1
         /\ \A p \in Write \cup Read : p # o => due'[p] = due[p]
<1>1. due[o] \in Seq(CP!Callback) /\ due'[o] = Tail(due[o])
  BY Facts
<1>2. /\ Tail(due[o]) \in Seq(CP!Callback) /\ Len(Tail(due[o])) = Len(due[o]) - 1
      /\ \A i \in 1..Len(Tail(due[o])) : Tail(due[o])[i] = due[o][i + 1]
  BY <1>1, HeadTailProperties
<1>3. Len(due[o]) \in Nat \ {0} /\ DOMAIN due[o] = 1..Len(due[o]) /\ Head(due[o]) = due[o][1]
  BY <1>1, LenProperties, EmptySeq
<1>4. DOMAIN due'[o] = 1..(Len(due[o]) - 1)
  BY <1>1, <1>2, LenProperties
<1>5. ASSUME NEW i \in DOMAIN due[o], i # 1 PROVE \E j \in DOMAIN due'[o] : i = j + 1
  <2>1. i - 1 \in DOMAIN due'[o] /\ i = (i - 1) + 1
    BY <1>3, <1>4, <1>5
  <2>2. QED
    BY <2>1
<1>6. ASSUME NEW i \in DOMAIN due'[o]
      PROVE  i \in Nat \ {0} /\ i + 1 \in DOMAIN due[o] /\ due'[o][i] = due[o][i + 1]
  BY <1>1, <1>2, <1>3, <1>4, <1>6
<1>7. 1 \in DOMAIN due[o] /\ due[o][1] \in CP!Callback
  BY <1>1, <1>3, ElementOfSeq
<1>8. QED
  BY <1>3, <1>5, <1>6, <1>7, Facts

\* The first callback of the list of call o is made; a callback of a read is
\* task_resume with its message.
LEMMA WayInvoke ==
  ASSUME Parts, Carried, NEW m \in Write, OnItsWay(m), NEW t \in Thread,
         NEW o \in Write \cup Read, Invoke(t, o)
  PROVE  OnItsWay(m)'
<1>1. /\ due[o] # <<>> /\ due' = [due EXCEPT ![o] = Tail(@)]
      /\ T!InCall(t) /\ UNCHANGED <<mail, with, pc>>
  BY DEF Invoke, C!Invoke, T!Answer, T!runs, task
<1>2. /\ 1 \in DOMAIN due[o] /\ Head(due[o]) = due[o][1]
      /\ \A i \in DOMAIN due'[o] : due'[o][i] = due[o][i + 1]
      /\ \A i \in DOMAIN due[o] : i # 1 => \E j \in DOMAIN due'[o] : i = j + 1
      /\ \A p \in Write \cup Read : p # o => due'[p] = due[p]
  BY <1>1, DueTail
<1>3. /\ due[o][1].to \in Read =>
           /\ con' = [con EXCEPT ![t] = Reader]
           /\ arg' = [arg EXCEPT ![t] = due[o][1].msg]
      /\ due[o][1].to \notin Read => UNCHANGED <<con, arg>>
  BY <1>2 DEF Invoke, T!Answer, T!Call, task
<1>4. con[t] = NoTask /\ NoTask # Reader /\ con \in [Thread -> {Reader, NoTask}]
  BY <1>1, Facts, MessagingAssumption DEF T!InCall
<1>5. ASSUME NEW u \in Thread, con[u] = Reader, arg[u] = m PROVE con'[u] = Reader /\ arg'[u] = m
  BY <1>3, <1>4, <1>5 DEF Carried
<1>6. ASSUME NEW p \in Write \cup Read, NEW i \in DOMAIN due[p], due[p][i].to \in Read,
             due[p][i].msg = m
      PROVE  OnItsWay(m)'
  <2>1. CASE p # o
    <3>1. due'[p] = due[p]
      BY <1>2, <2>1
    <3>2. QED
      BY <1>6, <3>1 DEF OnItsWay
  <2>2. CASE p = o /\ i = 1
    <3>1. con'[t] = Reader /\ arg'[t] = m
      BY <1>3, <1>4, <1>6, <2>2 DEF Carried
    <3>2. QED
      BY <3>1 DEF OnItsWay
  <2>3. CASE p = o /\ i # 1
    <3>1. PICK j \in DOMAIN due'[o] : i = j + 1
      BY <1>2, <1>6, <2>3
    <3>2. due'[o][j] = due[o][i]
      BY <1>2, <3>1
    <3>3. QED
      BY <1>6, <2>3, <3>1, <3>2 DEF OnItsWay
  <2>4. QED
    BY <2>1, <2>2, <2>3
<1>7. QED
  BY <1>1, <1>5, <1>6 DEF OnItsWay

\* The code of Main uses the handle.
LEMMA WayHandle ==
  ASSUME Parts, Carried, NEW m \in Write, OnItsWay(m), NEW t \in Thread, Handle(t)
  PROVE  OnItsWay(m)'
<1>1. UNCHANGED <<due, mail, with, pc>> /\ cpc[t] = "idle"
  BY DEF Handle, T!Create, T!Resume, T!Collect, T!Creator, T!InLua, T!runs, channel
<1>2. con[t] = NoTask /\ NoTask # Reader
  BY <1>1, Facts, MessagingAssumption
<1>3. \A u \in Thread : u # t => con'[u] = con[u] /\ arg'[u] = arg[u]
  BY Facts DEF Carried, Handle, T!Create, T!Resume, T!Collect, T!Call, T!calls
<1>4. QED
  BY <1>1, <1>2, <1>3 DEF OnItsWay

-----------------------------------------------------------------------------
\* A message that is on its way stays there until the task sees it, or ends.
LEMMA StepWay ==
  ASSUME Parts, Carried, [Next]_vars, Alive', NEW m \in Write, OnItsWay(m)
  PROVE  OnItsWay(m)' \/ m \in Range(seen')
<1>1. Reader \in tasks' /\ co'[Reader] # "dead"
  BY DEF Alive
<1>2. CASE UNCHANGED vars
  <2>1. UNCHANGED <<due, con, pc, carried>>
    BY <1>2 DEF vars, task, channel
  <2>2. QED
    BY <2>1, WaySame
<1>3. ASSUME NEW t \in Thread, Inside(t) \/ Handle(t) \/ \E o \in Write \cup Read : Enter(t, o)
      PROVE  OnItsWay(m)'
  <2>1. CASE \E o \in Write \cup Read : Enter(t, o) \/ Check(t, o) \/ Return(t, o)
    BY <2>1, WayCall
  <2>2. CASE (\E w \in Write : WriteBody(t, w)) \/ (\E r \in Read : ReadBody(t, r))
    BY <2>2, WayBody
  <2>3. CASE \E o \in Write \cup Read : Invoke(t, o)
    BY <2>3, WayInvoke
  <2>4. CASE Handle(t) \/ Push(t)
    BY <2>4, WayHandle, WayPush
  <2>5. CASE Resume(t)
    BY <1>1, <2>5, WayResume
  <2>6. QED
    BY <1>3, <2>1, <2>2, <2>3, <2>4, <2>5 DEF Inside
<1>4. ASSUME NEW w \in Worker, RunStep(w) PROVE OnItsWay(m)' \/ m \in Range(seen')
  BY <1>1, <1>4, WayStart, WayRun, WayRunOn DEF RunStep
<1>5. QED
  BY <1>2, <1>3, <1>4 DEF Next

\* Only the critical sections of the channel take messages and queue readers.
LEMMA Taking ==
  ASSUME [Next]_vars
  PROVE  \/ UNCHANGED <<readers, got>>
         \/ \E t \in Thread, w \in Write : WriteBody(t, w)
         \/ \E t \in Thread, r \in Read : ReadBody(t, r)
<1>1. ASSUME NEW t \in Thread, Inside(t)
      PROVE  \/ UNCHANGED <<readers, got>>
             \/ \E w \in Write : WriteBody(t, w)
             \/ \E r \in Read : ReadBody(t, r)
  <2>1. CASE (\E o \in Write \cup Read : Check(t, o) \/ Invoke(t, o) \/ Return(t, o))
             \/ Resume(t) \/ Push(t)
    BY <2>1 DEF Check, Invoke, Return, Resume, Push, C!Check, C!Invoke, C!Return, C!queues,
       channel
  <2>2. QED
    BY <1>1, <2>1 DEF Inside
<1>2. ASSUME NEW t \in Thread, Handle(t) \/ \E o \in Write \cup Read : Enter(t, o)
      PROVE  UNCHANGED <<readers, got>>
  BY <1>2 DEF Handle, Enter, C!Enter, C!queues, channel
<1>3. ASSUME NEW w \in Worker, RunStep(w) PROVE UNCHANGED <<readers, got>>
  BY <1>3 DEF RunStep, Start, Run, RunOn, C!Decode, C!queues, channel
<1>4. CASE UNCHANGED vars
  BY <1>4 DEF vars, channel
<1>5. QED
  BY <1>1, <1>2, <1>3, <1>4 DEF Next

\* Only task_run shows the task a message.
LEMMA Seeing ==
  ASSUME Carried, [Next]_vars
  PROVE  seen' = seen \/ \E m \in Write : seen' = Append(seen, m)
<1>1. ASSUME NEW w \in Worker, Run(w)
      PROVE  seen' = seen \/ \E m \in Write : seen' = Append(seen, m)
  <2>1. with[w] \in Write \cup {NoMsg}
    BY DEF Carried
  <2>2. QED
    BY <1>1, <2>1 DEF Run
<1>2. ASSUME NEW w \in Worker, Start(w) \/ RunOn(w) PROVE seen' = seen
  BY <1>2 DEF Start, RunOn, seenBy
<1>3. ASSUME NEW t \in Thread, Inside(t) \/ Handle(t) \/ \E o \in Write \cup Read : Enter(t, o)
      PROVE  seen' = seen
  BY <1>3 DEF Inside, Handle, Enter, Check, WriteBody, ReadBody, Invoke, Return, Resume, Push,
     seenBy
<1>4. CASE UNCHANGED vars
  BY <1>4 DEF vars, seenBy
<1>5. QED
  BY <1>1, <1>2, <1>3, <1>4 DEF Next, RunStep

\* A message a read takes is in the list of callbacks of the call that served it.
LEMMA StepTaken ==
  ASSUME Parts, [Next]_vars, NEW r \in Read, got'[r] # got[r], NEW m \in Write, got'[r] = m
  PROVE  OnItsWay(m)'
<1>0. /\ CP!Inv /\ CP!TypeOK /\ CP!Op = Write \cup Read
      /\ got \in [Read -> Write \cup {NoMsg}] /\ readers \in Seq(Read)
  BY Threads, Facts DEF Parts, CP!Counted, CP!Shape
<1>1. ASSUME NEW w \in Write, CP!WriteBody(w) PROVE OnItsWay(m)'
  <2>1. readers # <<>> /\ got' = [got EXCEPT ![Head(readers)] = w]
    BY <1>0, <1>1, CP!WriteCases, ChannelConstants DEF CP!ChannelAssumption
  <2>2. r = Head(readers) /\ m = w
    BY <1>0, <2>1
  <2>3. \E i \in {1, 2} : i \in DOMAIN due'[w] /\ due'[w][i].to = r /\ due'[w][i].msg = m
    <3>1. \/ due'[w] = <<CP!Call(w, "write", w), CP!Call(r, "read", w)>>
          \/ due'[w] = <<CP!Call(r, "read", w), CP!Call(w, "write", w)>>
      BY <1>0, <1>1, <2>1, <2>2, CP!WriteDue, ChannelConstants DEF CP!ChannelAssumption
    <3>2. CP!Call(r, "read", w).to = r /\ CP!Call(r, "read", w).msg = w
      BY DEF CP!Call
    <3>3. QED
      BY <2>2, <3>1, <3>2
  <2>4. QED
    BY <2>3 DEF OnItsWay
<1>2. ASSUME NEW q \in Read, CP!ReadBody(q) PROVE OnItsWay(m)'
  <2>1. /\ messages # <<>> \/ writers # <<>>
        /\ got' = [got EXCEPT ![q] = CP!Received(messages, writers)]
    BY <1>0, <1>2, CP!ReadCases, ChannelConstants DEF CP!ChannelAssumption
  <2>2. r = q /\ m = CP!Received(messages, writers)
    BY <1>0, <2>1
  <2>3. 1 \in DOMAIN due'[r] /\ due'[r][1].to = r /\ due'[r][1].msg = m
    <3>1. due'[r] = IF writers = <<>> THEN <<CP!Call(r, "read", m)>>
                    ELSE <<CP!Call(r, "read", m), CP!Call(Head(writers), "write", m)>>
      BY <1>0, <1>2, <2>1, <2>2, CP!ReadDue, ChannelConstants DEF CP!ChannelAssumption
    <3>2. CP!Call(r, "read", m).to = r /\ CP!Call(r, "read", m).msg = m
      BY DEF CP!Call
    <3>3. QED
      BY <3>1, <3>2
  <2>4. QED
    BY <2>3 DEF OnItsWay
<1>3. QED
  <2>1. CASE got' = got
    BY <2>1
  <2>2. CASE \E t \in Thread, w \in Write : WriteBody(t, w)
    BY <1>1, <2>2, Bodies DEF WriteBody
  <2>3. CASE \E t \in Thread, q \in Read : ReadBody(t, q)
    BY <1>2, <2>3, Bodies DEF ReadBody
  <2>4. QED
    BY <2>1, <2>2, <2>3, Taking

\* A task that has ended, or has been taken out of the registry, does not come back.
LEMMA Over ==
  ASSUME Parts, [Next]_vars
  PROVE  /\ co[Reader] = "dead" => co'[Reader] = "dead"
         /\ handle[Reader] # "none" =>
              (Reader \in tasks' => Reader \in tasks) /\ handle'[Reader] # "none"
<1>1. TP!Shape /\ TP!Coroutines /\ TP!Ended /\ [TP!Next]_(TP!vars)
  BY TaskStep DEF Parts, TP!IInv
<1>2. \A k \in {Reader} :
        /\ co[k] = "dead" => co'[k] = "dead"
        /\ handle[k] # "none" => (k \in tasks' => k \in tasks) /\ handle'[k] # "none"
  BY <1>1, TP!StepOver, TaskConstants DEF TP!TaskAssumption
<1>3. QED
  BY <1>2

\* A task that is told to read exists.
LEMMA StepStarted == Parts /\ Carried /\ Started /\ [Next]_vars => Started'
<1> SUFFICES ASSUME Parts, Carried, Started, [Next]_vars PROVE Started'
  OBVIOUS
<1>1. handle[Reader] # "none" => handle'[Reader] # "none"
  BY Over
<1>2. CASE UNCHANGED <<readers, got>>
  BY <1>1, <1>2 DEF Started
<1>3. ASSUME NEW t \in Thread, NEW w \in Write, WriteBody(t, w) PROVE Started'
  <2>1. CP!Inv /\ CP!WriteBody(w)
    BY <1>3, Bodies DEF WriteBody, Parts, CP!Counted
  <2>2. UNCHANGED <<readers, got>> \/ readers # <<>>
    BY <2>1, CP!WriteCases, ChannelConstants DEF CP!ChannelAssumption
  <2>3. QED
    BY <1>1, <1>2, <2>2 DEF Started
<1>4. ASSUME NEW t \in Thread, NEW r \in Read, ReadBody(t, r) PROVE Started'
  <2>1. t \in Worker /\ job[t] = Reader
    BY <1>4, MessagingAssumption DEF ReadBody, On
  <2>2. handle[Reader] # "none"
    BY <2>1, MessagingAssumption DEF Parts, TP!IInv, TP!Shape, TP!Created, TP!Known
  <2>3. QED
    BY <1>1, <2>2 DEF Started
<1>5. QED
  BY <1>2, <1>3, <1>4, Taking

\* Every step keeps every message that was taken.
LEMMA StepKept == KInv /\ [Next]_vars => \A m \in Write : Kept(m)'
<1> SUFFICES ASSUME KInv, [Next]_vars, NEW m \in Write, Taken(m)', Alive', m \notin Range(seen')
             PROVE  OnItsWay(m)'
  BY DEF Kept
<1>0. Parts /\ Carried /\ Started /\ Kept(m)
  BY DEF KInv
<1>1. PICK r \in Read : got'[r] = m
  BY DEF Taken
<1>2. CASE got'[r] # got[r]
  BY <1>0, <1>1, <1>2, StepTaken
<1>3. CASE got'[r] = got[r]
  <2>1. handle[Reader] # "none"
    BY <1>0, <1>1, <1>3, MessagingAssumption DEF Started
  <2>2. Alive
    BY <1>0, <2>1, Over DEF Alive, KInv
  <2>3. m \in Range(seen) \/ OnItsWay(m)
    BY <1>0, <1>1, <1>3, <2>2 DEF Kept, Taken
  <2>4. m \notin Range(seen)
    <3>1. ASSUME NEW x \in Write PROVE Range(Append(seen, x)) = Range(seen) \cup {x}
      <4>1. seen \in Seq(Write)
        BY <1>0 DEF Carried
      <4>2. QED
        BY <4>1, CP!Pushed DEF CP!Range, Range
    <3>2. seen' = seen \/ \E x \in Write : seen' = Append(seen, x)
      BY <1>0, Seeing
    <3>3. QED
      BY <3>1, <3>2
  <2>5. QED
    BY <1>0, <2>3, <2>4, StepWay
<1>4. QED
  BY <1>2, <1>3

\* Nothing was taken yet.
LEMMA InitKept == Init => Carried /\ Started /\ \A m \in Write : Kept(m)
<1> SUFFICES ASSUME Init PROVE Carried /\ Started /\ \A m \in Write : Kept(m)
  OBVIOUS
<1>1. /\ Reader \notin tasks /\ readers = <<>> /\ (\A r \in Read : got[r] = NoMsg)
      /\ queue[Sid] = <<>> /\ mail = <<>> /\ sent = <<>> /\ seen = <<>>
      /\ arg = [t \in Thread |-> NoMsg] /\ with = [w \in Worker |-> NoMsg]
  BY DEF Init, T!Init, C!Init
<1>2. QED
  BY <1>1 DEF Carried, Started, Kept, Alive

\* The inductive invariant.
LEMMA KeptInvariance == Spec => []KInv
<1>1. Init /\ Parts => KInv
  BY InitKept DEF KInv
<1>2. KInv /\ Parts' /\ [Next]_vars => KInv'
  BY StepCarried, StepStarted, StepKept DEF KInv
<1>3. QED
  BY <1>1, <1>2, PartsInv, PTL DEF Spec

\* A message that a read has taken from the channel reaches the code of the task or is
\* on its way there, for any number of reads, writers and threads, and whatever resumes
\* the task in between.
THEOREM MessagesKept == Spec => []MessageKept
<1>1. KInv => MessageKept
  <2> SUFFICES ASSUME KInv, NEW r \in Read, got[r] # NoMsg, Alive
               PROVE  got[r] \in Range(seen) \/ OnItsWay(got[r])
    BY DEF MessageKept
  <2>1. got[r] \in Write
    BY Facts DEF KInv
  <2>2. QED
    BY <2>1 DEF KInv, Kept, Taken
<1>2. QED
  BY <1>1, KeptInvariance, PTL

-----------------------------------------------------------------------------
(* Without strays, one thing at a time is on its way to the task. *)

\* The places of what is on its way to the task, when nothing is there.
NoDue  == \A o \in Write \cup Read : \A i \in DOMAIN due[o] : due[o][i].to \notin Read
NoCall == \A t \in Thread : con[t] = NoTask
NoRun  == \A w \in Worker : pc[w] \notin {"ref", "enter"}

Quiet == readers = <<>> /\ NoDue /\ NoCall /\ mail = <<>> /\ NoRun

\* A read waits in the channel.
Asked == Len(readers) = 1 /\ NoDue /\ NoCall /\ mail = <<>> /\ NoRun

\* The callback of a read is to be made, with message m.
Answered(m) ==
  /\ \E o \in Write \cup Read : \E i \in DOMAIN due[o] :
       /\ due[o][i].to \in Read /\ due[o][i].msg = m
       /\ \A p \in Write \cup Read : \A j \in DOMAIN due[p] :
            due[p][j].to \in Read => p = o /\ j = i
  /\ readers = <<>> /\ NoCall /\ mail = <<>> /\ NoRun

\* A thread is in task_resume with message m, or with NoMsg for a task that starts.
Calling(m) ==
  /\ \E t \in Thread : /\ con[t] = Reader /\ arg[t] = m
                       /\ \A u \in Thread : u # t => con[u] = NoTask
  /\ readers = <<>> /\ NoDue /\ mail = <<>> /\ NoRun

\* A job with it is in the queue of the session.
Queued(m) == mail = <<m>> /\ readers = <<>> /\ NoDue /\ NoCall /\ NoRun

\* A job with it has begun.
Begun(m) ==
  /\ \E w \in Worker : /\ pc[w] \in {"ref", "enter"} /\ with[w] = m
                       /\ \A v \in Worker : v # w => pc[v] \notin {"ref", "enter"}
  /\ readers = <<>> /\ NoDue /\ NoCall /\ mail = <<>>

Flying(m) == Answered(m) \/ Calling(m) \/ Queued(m) \/ Begun(m)

\* What the task will have seen when what is on its way has arrived.
Line(m) == IF m = NoMsg THEN seen ELSE Append(seen, m)

\* The task has been created, and nothing can be given to it any more.
Gone == handle[Reader] # "none" /\ ~ Alive

\* What was written: what the task has seen, what is on its way, what waits.
InLine(m) == Gone \/ sent = Line(m) \o writers

Single ==
  \/ (Quiet \/ Asked) /\ InLine(NoMsg)
  \/ \E m \in Write \cup {NoMsg} : Flying(m) /\ InLine(m)

\* While the task runs, and before it exists, nothing is on its way.
Rests == (\E w \in Worker : pc[w] = "lua") \/ handle[Reader] = "none" => Quiet

Order == IsPrefix(seen, sent) /\ Single /\ Rests

Ordered == resumes = 0 => Order

\* Facts about sequences.
LEMMA PrefixOfConcat ==
  ASSUME NEW S, NEW s \in Seq(S), NEW t \in Seq(S)
  PROVE  IsPrefix(s, s \o t)
<1>1. /\ s \o t \in Seq(S) /\ Len(s \o t) = Len(s) + Len(t)
      /\ Len(s) \in Nat /\ Len(t) \in Nat
      /\ \A i \in 1..(Len(s) + Len(t)) : (s \o t)[i] = IF i =< Len(s) THEN s[i] ELSE t[i - Len(s)]
  BY ConcatProperties, LenProperties
<1>2. CASE Len(s) = 0
  BY <1>1, <1>2, SubSeqEmpty DEF IsPrefix
<1>3. CASE Len(s) # 0
  <2>1. 1 \in 1..Len(s) /\ Len(s) \in 1..Len(s)
    BY <1>1, <1>3
  <2>2. SubSeq(s \o t, 1, Len(s)) = SubSeq(s, 1, Len(s))
    BY <2>1, SubSeqOfConcat1
  <2>3. QED
    BY <1>1, <2>2 DEF IsPrefix
<1>4. QED
  BY <1>2, <1>3

LEMMA PrefixOfLonger ==
  ASSUME NEW S, NEW s \in Seq(S), NEW t \in Seq(S), NEW x \in S, IsPrefix(s, t)
  PROVE  IsPrefix(s, Append(t, x))
<1>1. /\ Len(s) \in Nat /\ Len(t) \in Nat /\ Len(s) =< Len(t)
      /\ SubSeq(s, 1, Len(s)) = SubSeq(t, 1, Len(s))
  BY LenProperties DEF IsPrefix
<1>2. Append(t, x) = t \o <<x>> /\ <<x>> \in Seq(S) /\ Len(Append(t, x)) = Len(t) + 1
  BY AppendIsConcat, AppendProperties
<1>3. CASE Len(s) = 0
  BY <1>1, <1>2, <1>3, SubSeqEmpty DEF IsPrefix
<1>4. CASE Len(s) # 0
  <2>1. 1 \in 1..Len(t) /\ Len(s) \in 1..Len(t)
    BY <1>1, <1>4
  <2>2. SubSeq(t \o <<x>>, 1, Len(s)) = SubSeq(t, 1, Len(s))
    BY <1>2, <2>1, SubSeqOfConcat1
  <2>3. QED
    BY <1>1, <1>2, <2>2 DEF IsPrefix
<1>5. QED
  BY <1>3, <1>4

LEMMA HeadPasses ==
  ASSUME NEW S, NEW s \in Seq(S), NEW t \in Seq(S), t # <<>>
  PROVE  s \o t = Append(s, Head(t)) \o Tail(t)
<1>1. Head(t) \in S /\ Tail(t) \in Seq(S) /\ <<Head(t)>> \in Seq(S)
  BY HeadTailProperties
<1>2. t = <<Head(t)>> \o Tail(t)
  <2>1. Len(t) \in Nat \ {0} /\ Head(t) = t[1]
    BY LenProperties, EmptySeq
  <2>2. /\ <<Head(t)>> \o Tail(t) \in Seq(S)
        /\ Len(<<Head(t)>> \o Tail(t)) = 1 + Len(Tail(t))
        /\ \A i \in 1..(1 + Len(Tail(t))) : (<<Head(t)>> \o Tail(t))[i] =
             IF i =< 1 THEN <<Head(t)>>[i] ELSE Tail(t)[i - 1]
    <3>1. Len(<<Head(t)>>) = 1
      OBVIOUS
    <3>2. QED
      BY <1>1, <3>1, ConcatProperties
  <2>3. /\ Len(Tail(t)) = Len(t) - 1
        /\ \A i \in 1..Len(Tail(t)) : Tail(t)[i] = t[i + 1]
    BY HeadTailProperties
  <2>4. Len(<<Head(t)>> \o Tail(t)) = Len(t)
    BY <2>1, <2>2, <2>3
  <2>5. ASSUME NEW i \in 1..Len(t) PROVE t[i] = (<<Head(t)>> \o Tail(t))[i]
    BY <2>1, <2>2, <2>3
  <2>6. QED
    BY <2>2, <2>4, <2>5, SeqEqual
<1>3. Append(s, Head(t)) = s \o <<Head(t)>>
  BY <1>1, AppendIsConcat
<1>4. QED
  BY <1>1, <1>2, <1>3, ConcatAssociative

\* Where something is, there is nothing elsewhere, and Single says what it carries.
LEMMA OnlyQuiet == Quiet /\ Single => InLine(NoMsg)
<1> SUFFICES ASSUME Quiet, NEW m, Flying(m) PROVE FALSE
  BY DEF Single
<1>1. ~ Answered(m)
  BY DEF Answered, Quiet, NoDue
<1>2. ~ Calling(m)
  BY MessagingAssumption DEF Calling, Quiet, NoCall
<1>3. ~ Queued(m) /\ ~ Begun(m)
  BY DEF Queued, Begun, Quiet, NoRun
<1>4. QED
  BY <1>1, <1>2, <1>3 DEF Flying

LEMMA OnlyAsked == Single /\ readers # <<>> => Asked /\ InLine(NoMsg)
  BY DEF Quiet, Single, Flying, Answered, Calling, Queued, Begun

LEMMA OnlyAnswer ==
  ASSUME Single, NEW o \in Write \cup Read, NEW i \in DOMAIN due[o], due[o][i].to \in Read
  PROVE  Answered(due[o][i].msg) /\ InLine(due[o][i].msg)
<1>1. ~ NoDue
  BY DEF NoDue
<1>2. PICK m \in Write \cup {NoMsg} : Answered(m) /\ InLine(m)
  BY <1>1 DEF Quiet, Asked, Single, Flying, Calling, Queued, Begun
<1>3. m = due[o][i].msg
  BY <1>2 DEF Answered
<1>4. QED
  BY <1>2, <1>3

LEMMA OnlyCall ==
  ASSUME Single, NEW t \in Thread, con[t] = Reader
  PROVE  Calling(arg[t]) /\ InLine(arg[t])
<1>1. ~ NoCall
  BY MessagingAssumption DEF NoCall
<1>2. PICK m \in Write \cup {NoMsg} : Calling(m) /\ InLine(m)
  BY <1>1 DEF Quiet, Asked, Single, Flying, Answered, Queued, Begun
<1>3. m = arg[t]
  BY <1>2, MessagingAssumption DEF Calling
<1>4. QED
  BY <1>2, <1>3

LEMMA OnlyJob ==
  ASSUME Single, mail # <<>>
  PROVE  Queued(Head(mail)) /\ InLine(Head(mail))
<1>1. PICK m \in Write \cup {NoMsg} : Queued(m) /\ InLine(m)
  BY DEF Quiet, Asked, Single, Flying, Answered, Calling, Begun
<1>2. m = Head(mail)
  BY <1>1 DEF Queued
<1>3. QED
  BY <1>1, <1>2

LEMMA OnlyRun ==
  ASSUME Single, NEW w \in Worker, pc[w] \in {"ref", "enter"}
  PROVE  Begun(with[w]) /\ InLine(with[w])
<1>1. ~ NoRun
  BY DEF NoRun
<1>2. PICK m \in Write \cup {NoMsg} : Begun(m) /\ InLine(m)
  BY <1>1 DEF Quiet, Asked, Single, Flying, Answered, Calling, Queued
<1>3. m = with[w]
  BY <1>2 DEF Begun
<1>4. QED
  BY <1>2, <1>3

\* Who has ended, or has not been created, is so after the step or before it.
LEMMA GoneStays ==
  ASSUME Parts, [Next]_vars
  PROVE  (Gone => Gone') /\ (handle'[Reader] = "none" => handle[Reader] = "none")
  BY Over DEF Gone, Alive

\* One pool thread at a time runs the task, and only one that was created.
LEMMA OneRuns ==
  ASSUME Parts, NEW w \in Worker, pc[w] # "idle"
  PROVE  /\ \A v \in Worker : v # w => pc[v] = "idle"
         /\ job[w] = Reader /\ handle[Reader] # "none"
<1>1. \A v \in Worker : pc[v] # "idle" => job[v] = Reader
  BY Facts
<1>2. handle[Reader] # "none"
  BY <1>1, MessagingAssumption DEF Parts, TP!IInv, TP!Shape, TP!Created, TP!Known
<1>3. QED
  BY <1>1, <1>2 DEF Parts, TP!IInv, TP!Shape, TP!Exclusive

\* Steps that leave everything where it is.
LEMMA SamePlaces ==
  ASSUME UNCHANGED <<readers, mail>>,
         \A o \in Write \cup Read : due'[o] = due[o],
         \A t \in Thread : con'[t] = con[t] /\ (con[t] = Reader => arg'[t] = arg[t]),
         \A w \in Worker : /\ pc[w] \in {"ref", "enter"} <=> pc'[w] \in {"ref", "enter"}
                           /\ pc[w] \in {"ref", "enter"} => with'[w] = with[w]
  PROVE  (Quiet => Quiet') /\ (Asked => Asked') /\ \A m : Flying(m) => Flying(m)'
<1>1. (NoDue => NoDue') /\ (NoCall => NoCall') /\ (NoRun => NoRun')
  BY DEF NoDue, NoCall, NoRun
<1>2. ASSUME NEW m, Answered(m) PROVE Answered(m)'
  BY <1>1, <1>2 DEF Answered
<1>3. ASSUME NEW m, Calling(m) PROVE Calling(m)'
  BY <1>1, <1>3 DEF Calling
<1>4. ASSUME NEW m, Queued(m) PROVE Queued(m)'
  BY <1>1, <1>4 DEF Queued
<1>5. ASSUME NEW m, Begun(m) PROVE Begun(m)'
  BY <1>1, <1>5 DEF Begun
<1>6. QED
  BY <1>1, <1>2, <1>3, <1>4, <1>5 DEF Quiet, Asked, Flying

LEMMA OrderSame ==
  ASSUME Parts, [Next]_vars, Order,
         UNCHANGED <<readers, writers, mail, with, sent, seen>>,
         \A o \in Write \cup Read : due'[o] = due[o],
         \A t \in Thread : con'[t] = con[t] /\ (con[t] = Reader => arg'[t] = arg[t]),
         \A w \in Worker : /\ pc[w] \in {"ref", "enter"} <=> pc'[w] \in {"ref", "enter"}
                           /\ pc'[w] = "lua" => pc[w] = "lua"
  PROVE  Order'
<1>1. (Quiet => Quiet') /\ (Asked => Asked') /\ \A m : Flying(m) => Flying(m)'
  BY SamePlaces
<1>2. \A m : InLine(m) => InLine(m)'
  BY GoneStays DEF InLine, Line
<1>3. Single'
  BY <1>1, <1>2 DEF Order, Single
<1>4. Rests'
  BY <1>1, GoneStays DEF Order, Rests
<1>5. QED
  BY <1>3, <1>4 DEF Order

\* What is written, seen and waiting stays, so InLine does.
LEMMA LineSame ==
  ASSUME Parts, [Next]_vars, UNCHANGED <<sent, seen, writers>>
  PROVE  \A m : InLine(m) => InLine(m)'
  BY GoneStays DEF InLine, Line

\* Something is on its way, and goes on while the task does not begin to run.
LEMMA OrderMoves ==
  ASSUME Parts, [Next]_vars, Order, ~ Quiet, Single', IsPrefix(seen', sent'),
         \A w \in Worker : pc'[w] = "lua" => pc[w] = "lua"
  PROVE  Order'
<1>1. Rests'
  BY GoneStays DEF Order, Rests
<1>2. QED
  BY <1>1 DEF Order

\* session_queue_task: what was in the call is in the queue.
LEMMA OrderPush ==
  ASSUME Parts, Carried, [Next]_vars, Order, NEW t \in Thread, Push(t)
  PROVE  Order'
<1>1. /\ con[t] = Reader /\ con' = [con EXCEPT ![t] = NoTask] /\ mail' = Append(mail, arg[t])
      /\ UNCHANGED <<due, readers, writers, pc, sent, seen>>
  BY Facts DEF Push, T!CallPush, T!EndCall, T!runs, channel, seenBy
<1>2. PICK m \in Write \cup {NoMsg} : m = arg[t]
  BY DEF Carried
<1>3. Calling(m) /\ InLine(m)
  BY <1>1, <1>2, OnlyCall DEF Order
<1>4. mail' = <<m>> /\ NoCall' /\ NoDue' /\ NoRun' /\ readers' = <<>>
  <2>1. mail = <<>> /\ mail' = <<m>>
    BY <1>1, <1>2, <1>3 DEF Calling
  <2>2. NoCall'
    BY <1>1, <1>3, Facts, MessagingAssumption DEF Calling, NoCall
  <2>3. NoDue' /\ NoRun' /\ readers' = <<>>
    BY <1>1, <1>3 DEF Calling, NoDue, NoRun
  <2>4. QED
    BY <2>1, <2>2, <2>3
<1>5. Single'
  <2>1. Flying(m)'
    BY <1>4 DEF Flying, Queued
  <2>2. InLine(m)'
    BY <1>1, <1>3, LineSame
  <2>3. QED
    BY <2>1, <2>2 DEF Single
<1>6. ~ Quiet
  BY <1>1, MessagingAssumption DEF Quiet, NoCall
<1>7. QED
  BY <1>1, <1>5, <1>6, OrderMoves DEF Order

\* session_run: what was in the queue has begun.
LEMMA OrderStart ==
  ASSUME Parts, Carried, [Next]_vars, Order, NEW w \in Worker, Start(w)
  PROVE  Order'
<1>1. /\ pc' = [pc EXCEPT ![w] = "ref"] /\ with' = [with EXCEPT ![w] = Head(mail)]
      /\ mail' = Tail(mail) /\ UNCHANGED <<due, con, readers, writers, sent, seen>>
  BY DEF Start, T!Start, T!calls, channel, seenBy
<1>2. mail # <<>>
  <2>1. queue[Sid] \in Seq({Reader}) /\ queue[Sid] # <<>>
    BY Facts DEF Start, T!Start
  <2>2. QED
    BY <2>1, EmptySeq DEF Carried
<1>3. PICK m \in Write \cup {NoMsg} : m = Head(mail)
  BY <1>2, HeadTailProperties DEF Carried
<1>4. Queued(m) /\ InLine(m)
  BY <1>2, <1>3, OnlyJob DEF Order
<1>5. Begun(m)'
  <2>1. mail' = <<>> /\ readers' = <<>> /\ NoDue' /\ NoCall'
    BY <1>1, <1>4 DEF Queued, NoDue, NoCall
  <2>2. /\ pc'[w] = "ref" /\ with'[w] = m
        /\ \A v \in Worker : v # w => pc'[v] \notin {"ref", "enter"}
    BY <1>1, <1>3, <1>4, Facts DEF Queued, NoRun, Carried
  <2>3. QED
    BY <2>1, <2>2 DEF Begun
<1>6. Single'
  <2>1. InLine(m)'
    BY <1>1, <1>4, LineSame
  <2>2. QED
    BY <1>5, <2>1 DEF Single, Flying
<1>7. \A v \in Worker : pc'[v] = "lua" => pc[v] = "lua"
  BY <1>1, Facts
<1>8. QED
  BY <1>1, <1>2, <1>6, <1>7, OrderMoves DEF Order, Quiet

\* task_resume goes on, or is refused, which it is only when the task has ended or
\* is gone.
LEMMA OrderResume ==
  ASSUME Parts, Carried, [Next]_vars, Order, NEW t \in Thread, Resume(t)
  PROVE  Order'
<1>1. /\ con[t] = Reader /\ cpc[t] # "idle"
      /\ UNCHANGED <<readers, writers, mail, with, sent, seen, due, arg, pc, co, handle>>
  BY Facts DEF Resume, T!CallRef, T!CallStatus, T!CallUnref, T!Ref, T!registry, T!runs,
     channel, carried, seenBy
<1>2. CASE con' = con
  BY <1>1, <1>2, OrderSame
<1>3. CASE con' # con
  <2>1. con' = [con EXCEPT ![t] = NoTask]
    BY <1>3 DEF Resume, T!CallRef, T!CallStatus, T!CallUnref, T!EndCall, T!GoOn
  <2>2. Gone'
    <3>1. handle[Reader] # "none"
      BY <1>1, Threads, MessagingAssumption DEF Parts, TP!IInv, TP!Shape, TP!Created, TP!Known
    <3>2. CASE T!CallRef(t)
      <4>1. Reader \notin tasks /\ tasks' = tasks
        BY <1>1, <1>3, <3>2 DEF T!CallRef, T!GoOn, T!registry
      <4>2. QED
        BY <1>1, <3>1, <4>1 DEF Gone, Alive
    <3>3. CASE T!CallStatus(t)
      <4>1. status[Reader] \in {"finished", "error"}
        BY <1>1, <1>3, <3>3 DEF T!CallStatus, T!GoOn
      <4>2. co[Reader] = "dead"
        BY <4>1 DEF Parts, TP!IInv, TP!Ended
      <4>3. QED
        BY <1>1, <3>1, <4>2 DEF Gone, Alive
    <3>4. CASE T!CallUnref(t)
      BY <1>3, <3>4 DEF T!CallUnref, T!GoOn
    <3>5. QED
      BY <3>2, <3>3, <3>4 DEF Resume
  <2>3. Quiet'
    <3>1. PICK m \in Write \cup {NoMsg} : Calling(m)
      BY <1>1, OnlyCall DEF Order, Carried
    <3>2. NoCall'
      BY <1>1, <2>1, <3>1, Facts, MessagingAssumption DEF Calling, NoCall
    <3>3. QED
      BY <1>1, <3>1, <3>2 DEF Calling, Quiet, NoDue, NoRun
  <2>4. QED
    BY <1>1, <2>2, <2>3 DEF Order, Single, Rests, InLine
<1>4. QED
  BY <1>2, <1>3

\* luaS_createtask: before it, nothing is on its way to the task.  The collector takes
\* the handle away, and nothing else.
LEMMA OrderHandle ==
  ASSUME Parts, Carried, [Next]_vars, Order, NEW t \in Thread, Handle(t), ~ T!Resume(t, Reader)
  PROVE  Order'
<1>1. UNCHANGED <<readers, writers, mail, with, sent, seen, due, pc>>
  BY DEF Handle, T!Create, T!Collect, T!runs, channel, seenBy
<1>2. CASE T!Collect(t, Reader)
  <2>1. con' = con /\ (con[t] = NoTask) /\ \A u \in Thread : u # t => arg'[u] = arg[u]
    BY <1>2, Facts DEF Handle, Carried, T!Collect, T!Creator, T!InLua, T!calls
  <2>2. QED
    BY <1>1, <2>1, OrderSame, MessagingAssumption
<1>3. CASE T!Create(t, Reader) /\ arg' = [arg EXCEPT ![t] = NoMsg]
  <2>1. handle[Reader] = "none" /\ con' = [con EXCEPT ![t] = Reader]
    BY <1>3 DEF T!Create, T!Call
  <2>2. Quiet /\ sent = seen \o writers
    BY <2>1, OnlyQuiet DEF Order, Rests, InLine, Gone, Line
  <2>3. Calling(NoMsg)'
    <3>1. /\ con'[t] = Reader /\ arg'[t] = NoMsg
          /\ \A u \in Thread : u # t => con'[u] = NoTask
      BY <1>3, <2>1, <2>2, Facts DEF Carried, Quiet, NoCall
    <3>2. QED
      BY <1>1, <2>2, <3>1 DEF Calling, Quiet, NoDue, NoRun
  <2>4. Single'
    BY <1>1, <2>2, <2>3 DEF Single, Flying, InLine, Line
  <2>5. Rests'
    <3>1. \A w \in Worker : pc'[w] # "lua"
      BY <1>1, <2>1, OneRuns
    <3>2. handle'[Reader] = "held"
      BY <1>3, <2>1 DEF T!Create, Parts, TP!IInv, TP!Shape, TP!TypeOK
    <3>3. QED
      BY <3>1, <3>2 DEF Rests
  <2>6. QED
    BY <1>1, <2>4, <2>5 DEF Order
<1>4. QED
  BY <1>2, <1>3 DEF Handle

\* task_run gives the coroutine what it has begun with, unless the coroutine has ended.
LEMMA OrderRun ==
  ASSUME Parts, Carried, [Next]_vars, Order, NEW w \in Worker, Run(w)
  PROVE  Order'
<1>1. /\ pc[w] = "enter" /\ job[w] = Reader
      /\ UNCHANGED <<readers, writers, mail, with, sent, due, con, arg, tasks, handle>>
      /\ pc'[w] \in {"lua", "left"} /\ \A v \in Worker : v # w => pc'[v] = pc[v]
  BY Facts DEF Run, T!Enter, T!calls, T!registry, C!Decode, C!queues, channel, carried
<1>2. PICK m \in Write \cup {NoMsg} : m = with[w]
  BY DEF Carried
<1>3. Begun(m) /\ InLine(m)
  BY <1>1, <1>2, OnlyRun DEF Order
<1>4. Quiet'
  <2>1. NoRun'
    BY <1>1, <1>3 DEF Begun, NoRun
  <2>2. QED
    BY <1>1, <1>3, <2>1 DEF Begun, Quiet, NoDue, NoCall
<1>5. handle[Reader] # "none" /\ Reader \in tasks
  <2>1. \A k \in {Reader} : \A v \in Worker : job[v] = k /\ pc[v] \notin {"idle", "ref"} => k \in tasks
    BY TP!HolderAlive, TaskConstants DEF TP!TaskAssumption, Parts, TP!IInv, TP!Shape
  <2>2. QED
    BY <1>1, <2>1, OneRuns
<1>6. CASE status[Reader] \in {"ready", "suspended"}
  <2>1. ~ Gone
    <3>1. co[Reader] # "dead"
      BY <1>6 DEF Parts, TP!IInv, TP!Coroutines
    <3>2. QED
      BY <1>5, <3>1 DEF Gone, Alive
  <2>2. seen' = Line(m)
    <3>1. pc'[w] = "lua"
      BY <1>1, <1>6, Facts DEF Run, T!Enter
    <3>2. QED
      BY <1>2, <3>1 DEF Run, Line
  <2>3. sent' = seen' \o writers'
    BY <1>1, <1>3, <2>1, <2>2 DEF InLine
  <2>4. IsPrefix(seen', sent')
    <3>1. seen' \in Seq(Write) /\ writers' \in Seq(Write)
      BY <1>1, StepCarried DEF Carried, Parts, CP!Counted, CP!Inv, CP!QueuesOK
    <3>2. QED
      BY <2>3, <3>1, PrefixOfConcat
  <2>5. QED
    BY <1>4, <2>3, <2>4 DEF Order, Single, Rests, InLine, Line
<1>7. CASE status[Reader] \notin {"ready", "suspended"}
  <2>1. UNCHANGED <<co, seen>>
    BY <1>1, <1>7, Facts DEF Run, T!Enter
  <2>2. co[Reader] = "dead"
    <3>1. \A v \in Worker : job[v] = Reader => pc[v] \notin {"lua", "blocking", "left"}
      BY <1>1 DEF Parts, TP!IInv, TP!Shape, TP!Exclusive
    <3>2. status[Reader] \in {"running", "finished", "error"}
      BY <1>7 DEF Parts, TP!IInv, TP!Shape, TP!TypeOK
    <3>3. QED
      BY <3>1, <3>2 DEF Parts, TP!IInv, TP!Ended
  <2>3. Gone'
    BY <1>1, <1>5, <2>1, <2>2 DEF Gone, Alive
  <2>4. QED
    BY <1>1, <1>4, <2>1, <2>3 DEF Order, Single, Rests, InLine
<1>8. QED
  BY <1>6, <1>7

\* The rest of task_run; task_ref fails only for a task that is gone.
LEMMA OrderRunOn ==
  ASSUME Parts, Carried, [Next]_vars, Order, NEW w \in Worker, RunOn(w)
  PROVE  Order'
<1>1. UNCHANGED <<readers, writers, mail, with, sent, seen, due, con, arg>>
      /\ \A v \in Worker : v # w => pc'[v] = pc[v]
  BY Facts DEF RunOn, T!RunRef, T!Leave, T!RunFree, T!Outcome, T!calls, channel, carried,
     seenBy
<1>2. CASE T!RunRef(w) /\ Reader \notin tasks
  <2>1. /\ pc[w] = "ref" /\ job[w] = Reader /\ pc'[w] = "idle"
        /\ UNCHANGED <<tasks, handle>>
    BY <1>2, Facts DEF T!RunRef, T!registry
  <2>2. Gone'
    BY <1>2, <2>1, OneRuns DEF Gone, Alive
  <2>3. Quiet'
    <3>1. PICK m \in Write \cup {NoMsg} : Begun(m)
      BY <2>1, OnlyRun DEF Order, Carried
    <3>2. NoRun'
      BY <1>1, <2>1, <3>1 DEF Begun, NoRun
    <3>3. QED
      BY <1>1, <3>1, <3>2 DEF Begun, Quiet, NoDue, NoCall
  <2>4. QED
    BY <1>1, <2>2, <2>3 DEF Order, Single, Rests, InLine
<1>3. CASE ~ (T!RunRef(w) /\ Reader \notin tasks)
  <2>1. (pc[w] \in {"ref", "enter"} <=> pc'[w] \in {"ref", "enter"}) /\ pc'[w] # "lua"
    <3>1. CASE T!RunRef(w)
      BY <1>3, <3>1, Facts DEF T!RunRef
    <3>2. CASE ~ T!RunRef(w)
      BY <3>2, Facts DEF RunOn, T!Leave, T!RunFree, T!Outcome, T!InLua
    <3>3. QED
      BY <3>1, <3>2
  <2>2. QED
    BY <1>1, <2>1, OrderSame
<1>4. QED
  BY <1>2, <1>3

\* A callback of a write moves nothing; a callback of a read is task_resume with the
\* message.
LEMMA OrderInvoke ==
  ASSUME Parts, Carried, [Next]_vars, Order, NEW t \in Thread, NEW o \in Write \cup Read,
         Invoke(t, o)
  PROVE  Order'
<1>1. /\ due[o] # <<>> /\ due' = [due EXCEPT ![o] = Tail(@)] /\ cpc[t] = "idle"
      /\ UNCHANGED <<readers, writers, mail, with, sent, seen, pc>>
  BY DEF Invoke, C!Invoke, C!queues, T!InCall, T!Answer, T!runs, task, seenBy
<1>2. /\ 1 \in DOMAIN due[o] /\ Head(due[o]) = due[o][1] /\ due[o][1] \in CP!Callback
      /\ \A i \in DOMAIN due'[o] :
           i \in Nat \ {0} /\ i + 1 \in DOMAIN due[o] /\ due'[o][i] = due[o][i + 1]
      /\ \A i \in DOMAIN due[o] : i # 1 => \E j \in DOMAIN due'[o] : i = j + 1
      /\ \A p \in Write \cup Read : p # o => due'[p] = due[p]
  BY <1>1, DueTail
<1>3. NoDue => NoDue'
  BY <1>2 DEF NoDue
<1>4. CASE due[o][1].to \notin Read
  <2>1. UNCHANGED <<con, arg>>
    BY <1>2, <1>4 DEF Invoke, task
  <2>2. (Quiet => Quiet') /\ (Asked => Asked')
    BY <1>1, <1>3, <2>1 DEF Quiet, Asked, NoCall, NoRun
  <2>3. ASSUME NEW m, Flying(m) PROVE Flying(m)'
    <3>1. CASE Answered(m)
      <4>1. PICK q \in Write \cup Read : \E i \in DOMAIN due[q] :
              /\ due[q][i].to \in Read /\ due[q][i].msg = m
              /\ \A p \in Write \cup Read : \A j \in DOMAIN due[p] :
                   due[p][j].to \in Read => p = q /\ j = i
        BY <3>1 DEF Answered
      <4>2. PICK i \in DOMAIN due[q] :
              /\ due[q][i].to \in Read /\ due[q][i].msg = m
              /\ \A p \in Write \cup Read : \A j \in DOMAIN due[p] :
                   due[p][j].to \in Read => p = q /\ j = i
        BY <4>1
      <4>3. \E k \in DOMAIN due'[q] :
              /\ due'[q][k].to \in Read /\ due'[q][k].msg = m
              /\ \A p \in Write \cup Read : \A j \in DOMAIN due'[p] :
                   due'[p][j].to \in Read => p = q /\ j = k
        <5>1. CASE q # o
          BY <1>2, <4>2, <5>1
        <5>2. CASE q = o
          <6>1. PICK k \in DOMAIN due'[o] : i = k + 1
            BY <1>2, <1>4, <4>2, <5>2
          <6>2. due'[o][k].to \in Read /\ due'[o][k].msg = m
            BY <1>2, <4>2, <5>2, <6>1
          <6>3. ASSUME NEW p \in Write \cup Read, NEW j \in DOMAIN due'[p], due'[p][j].to \in Read
                PROVE  p = o /\ j = k
            <7>1. p = o
              BY <1>2, <4>2, <5>2, <6>3
            <7>2. j + 1 = k + 1 /\ j \in Nat /\ k \in Nat
              BY <1>2, <4>2, <5>2, <6>1, <6>3, <7>1
            <7>3. QED
              BY <7>1, <7>2
          <6>4. QED
            BY <5>2, <6>2, <6>3
        <5>3. QED
          BY <5>1, <5>2
      <4>4. readers' = <<>> /\ NoCall' /\ mail' = <<>> /\ NoRun'
        BY <1>1, <2>1, <3>1 DEF Answered, NoCall, NoRun
      <4>5. QED
        BY <4>3, <4>4 DEF Flying, Answered
    <3>2. CASE Calling(m) \/ Queued(m) \/ Begun(m)
      BY <1>1, <1>3, <2>1, <3>2 DEF Flying, Calling, Queued, Begun, NoCall, NoRun
    <3>3. QED
      BY <2>3, <3>1, <3>2 DEF Flying
  <2>4. Single'
    BY <1>1, <2>2, <2>3, LineSame DEF Order, Single
  <2>5. Rests'
    BY <1>1, <2>2, GoneStays DEF Order, Rests
  <2>6. QED
    BY <1>1, <2>4, <2>5 DEF Order
<1>5. CASE due[o][1].to \in Read
  <2>1. PICK m \in Write \cup {NoMsg} : m = due[o][1].msg
    BY <1>2 DEF CP!Callback
  <2>2. Answered(m) /\ InLine(m)
    BY <1>2, <1>5, <2>1, OnlyAnswer DEF Order
  <2>3. con' = [con EXCEPT ![t] = Reader] /\ arg' = [arg EXCEPT ![t] = m]
    BY <1>2, <1>5, <2>1 DEF Invoke, T!Answer, T!Call
  <2>4. NoDue'
    <3>1. \A p \in Write \cup Read : \A j \in DOMAIN due[p] :
            due[p][j].to \in Read => p = o /\ j = 1
      BY <1>2, <1>5, <2>2 DEF Answered
    <3>2. ASSUME NEW p \in Write \cup Read, NEW j \in DOMAIN due'[p], due'[p][j].to \in Read
          PROVE  FALSE
      <4>1. p = o
        BY <1>2, <3>1, <3>2
      <4>2. j + 1 = 1 /\ j \in Nat \ {0}
        BY <1>2, <3>1, <3>2, <4>1
      <4>3. QED
        BY <4>2
    <3>3. QED
      BY <3>2 DEF NoDue
  <2>5. Calling(m)'
    <3>1. con'[t] = Reader /\ arg'[t] = m /\ \A u \in Thread : u # t => con'[u] = NoTask
      BY <2>2, <2>3, Facts DEF Carried, Answered, NoCall
    <3>2. readers' = <<>> /\ mail' = <<>> /\ NoRun'
      BY <1>1, <2>2 DEF Answered, NoRun
    <3>3. QED
      BY <2>4, <3>1, <3>2 DEF Calling
  <2>6. Single'
    BY <1>1, <2>2, <2>5, LineSame DEF Single, Flying
  <2>7. ~ Quiet
    BY <1>2, <1>5 DEF Quiet, NoDue
  <2>8. QED
    BY <1>1, <2>6, <2>7, OrderMoves DEF Order
<1>6. QED
  BY <1>4, <1>5

\* A write with no reader waiting joins the queue of writers; with a reader waiting,
\* its message is the next for the task.
LEMMA OrderWrite ==
  ASSUME Parts, Carried, [Next]_vars, Order, NEW t \in Thread, NEW o \in Write, WriteBody(t, o)
  PROVE  Order'
<1>1. UNCHANGED <<mail, with, seen, pc, con, arg>> /\ sent' = Append(sent, o) /\ at[o] = "body"
  BY DEF WriteBody, C!WriteBody, task, carried
<1>2. /\ CP!Inv /\ CP!TypeOK /\ CP!WriteBody(o) /\ ~ CP!Room
      /\ due[o] = <<>> /\ writers \in Seq(Write) /\ seen \in Seq(Write) /\ sent \in Seq(Write)
  <2>1. messages = <<>>
    BY DEF Parts, CP!Counted, CP!Inv, CP!OneQueue
  <2>2. ~ CP!Room
    BY <2>1, EmptySeq DEF CP!Room
  <2>3. due[o] = <<>>
    BY <1>1, Facts
  <2>4. QED
    BY <2>2, <2>3, Bodies DEF WriteBody, Parts, CP!Counted, CP!Shape, CP!Inv, CP!QueuesOK, Carried
<1>3. IsPrefix(seen', sent')
  BY <1>1, <1>2, PrefixOfLonger DEF Order
<1>4. CASE readers = <<>>
  <2>1. readers' = <<>> /\ writers' = Append(writers, o)
    BY <1>2, <1>4, CP!WriteCases, ChannelConstants DEF CP!ChannelAssumption
  <2>2. \A p \in Write \cup Read : due'[p] = due[p]
    BY <1>2, <1>4, CP!WriteDue, ChannelConstants, Threads DEF CP!ChannelAssumption
  <2>3. (Quiet => Quiet') /\ (Asked => Asked') /\ \A m : Flying(m) => Flying(m)'
    BY <1>1, <1>4, <2>1, <2>2, SamePlaces
  <2>4. ASSUME NEW m \in Write \cup {NoMsg}, InLine(m) PROVE InLine(m)'
    <3>1. CASE Gone
      BY <3>1, GoneStays DEF InLine
    <3>2. CASE ~ Gone
      <4>1. Line(m) \in Seq(Write) /\ Line(m)' = Line(m)
        BY <1>1, <1>2 DEF Line
      <4>2. sent' = sent \o <<o>> /\ writers' = writers \o <<o>>
        BY <1>1, <1>2, <2>1, AppendIsConcat
      <4>3. (Line(m) \o writers) \o <<o>> = Line(m) \o (writers \o <<o>>)
        <5>1. <<o>> \in Seq(Write)
          OBVIOUS
        <5>2. QED
          BY <1>2, <4>1, <5>1, ConcatAssociative
      <4>4. sent = Line(m) \o writers
        BY <2>4, <3>2 DEF InLine
      <4>5. QED
        BY <4>1, <4>2, <4>3, <4>4 DEF InLine
    <3>3. QED
      BY <3>1, <3>2
  <2>5. Single'
    BY <2>3, <2>4 DEF Order, Single
  <2>6. Rests'
    BY <1>1, <2>3, GoneStays DEF Order, Rests
  <2>7. QED
    BY <1>3, <2>5, <2>6 DEF Order
<1>5. CASE readers # <<>>
  <2>1. Asked /\ InLine(NoMsg)
    BY <1>5, OnlyAsked DEF Order
  <2>2. readers' = <<>> /\ writers = <<>> /\ writers' = <<>> /\ Head(readers) \in Read
    <3>1. readers' = Tail(readers) /\ writers = <<>> /\ writers' = <<>>
      BY <1>2, <1>5, CP!WriteCases, ChannelConstants DEF CP!ChannelAssumption
    <3>2. readers \in Seq(Read) /\ Len(readers) = 1
      BY <2>1, Facts DEF Asked
    <3>3. Head(readers) \in Read /\ Tail(readers) \in Seq(Read) /\ Len(Tail(readers)) = 0
      BY <1>5, <3>2, HeadTailProperties
    <3>4. QED
      BY <3>1, <3>3, EmptySeq
  <2>3. /\ \A p \in Write \cup Read : p # o => due'[p] = due[p]
        /\ \/ due'[o] = <<CP!Call(o, "write", o), CP!Call(Head(readers), "read", o)>>
           \/ due'[o] = <<CP!Call(Head(readers), "read", o), CP!Call(o, "write", o)>>
    BY <1>2, <1>5, CP!WriteDue, ChannelConstants, Threads DEF CP!ChannelAssumption
  <2>4. \E i \in DOMAIN due'[o] : /\ due'[o][i].to \in Read /\ due'[o][i].msg = o
                                  /\ \A j \in DOMAIN due'[o] : due'[o][j].to \in Read => j = i
    BY <2>2, <2>3, MessagingAssumption DEF CP!Call
  <2>5. Answered(o)'
    <3>1. \A p \in Write \cup Read : p # o => \A j \in DOMAIN due'[p] : due'[p][j].to \notin Read
      BY <2>1, <2>3 DEF Asked, NoDue
    <3>2. NoCall' /\ mail' = <<>> /\ NoRun'
      BY <1>1, <2>1 DEF Asked, NoCall, NoRun
    <3>3. QED
      BY <2>2, <2>4, <3>1, <3>2 DEF Answered
  <2>6. InLine(o)'
    <3>1. CASE Gone
      BY <3>1, GoneStays DEF InLine
    <3>2. CASE ~ Gone
      <4>1. sent = seen
        BY <1>2, <2>1, <2>2, <3>2, ConcatEmptySeq DEF InLine, Line
      <4>2. sent' = Append(seen, o) \o <<>>
        BY <1>1, <1>2, <4>1, AppendProperties, ConcatEmptySeq
      <4>3. QED
        BY <1>1, <2>2, <4>2, MessagingAssumption DEF InLine, Line
    <3>3. QED
      BY <3>1, <3>2
  <2>7. Single'
    BY <2>5, <2>6 DEF Single, Flying
  <2>8. QED
    BY <1>1, <1>3, <1>5, <2>7, OrderMoves DEF Quiet
<1>6. QED
  BY <1>4, <1>5

\* A read of the task waits, or takes the message that was written first.
LEMMA OrderRead ==
  ASSUME Parts, Carried, [Next]_vars, Order, NEW t \in Thread, NEW r \in Read, ReadBody(t, r)
  PROVE  Order'
<1>1. /\ UNCHANGED <<mail, with, sent, seen, con, arg, handle>> /\ at[r] = "body"
      /\ t \in Worker /\ pc[t] = "lua" /\ pc' = [pc EXCEPT ![t] = "blocking"]
  BY MessagingAssumption
     DEF ReadBody, On, C!ReadBody, T!Block, T!InLua, T!calls, T!registry, carried, seenBy
<1>2. /\ CP!Inv /\ CP!TypeOK /\ CP!ReadBody(r) /\ messages = <<>>
      /\ due[r] = <<>> /\ writers \in Seq(Write) /\ seen \in Seq(Write)
  <2>1. due[r] = <<>>
    BY <1>1, Facts
  <2>2. QED
    BY <2>1, Bodies
       DEF ReadBody, Parts, CP!Counted, CP!Shape, CP!Inv, CP!QueuesOK, CP!OneQueue, Carried
<1>3. Quiet /\ InLine(NoMsg)
  BY <1>1, OnlyQuiet DEF Order, Rests
<1>4. NoCall' /\ mail' = <<>> /\ NoRun'
  BY <1>1, <1>3, Facts DEF Quiet, NoCall, NoRun
<1>5. Rests'
  <2>1. \A v \in Worker : pc'[v] # "lua"
    BY <1>1, OneRuns, Facts
  <2>2. handle'[Reader] # "none"
    BY <1>1, OneRuns
  <2>3. QED
    BY <2>1, <2>2 DEF Rests
<1>6. CASE writers = <<>>
  <2>1. readers' = Append(readers, r) /\ UNCHANGED writers
    BY <1>2, <1>6, CP!ReadCases, ChannelConstants DEF CP!ChannelAssumption
  <2>2. due' = due
    BY <1>2, <1>6, CP!ReadDue, ChannelConstants DEF CP!ChannelAssumption
  <2>3. Asked'
    <3>1. Len(readers') = 1
      BY <1>3, <2>1 DEF Quiet
    <3>2. NoDue'
      BY <1>3, <2>2 DEF Quiet, NoDue
    <3>3. QED
      BY <1>4, <3>1, <3>2 DEF Asked
  <2>4. InLine(NoMsg)'
    BY <1>1, <1>3, <2>1, LineSame
  <2>5. QED
    BY <1>1, <1>5, <2>3, <2>4 DEF Order, Single
<1>7. CASE writers # <<>>
  <2>1. PICK m \in Write : m = Head(writers)
    BY <1>2, <1>7, HeadTailProperties
  <2>2. readers' = <<>> /\ writers' = Tail(writers)
    BY <1>2, <1>3, <1>7, CP!ReadCases, ChannelConstants
       DEF CP!ChannelAssumption, CP!Popped, Quiet
  <2>3. /\ \A p \in Write \cup Read : p # r => due'[p] = due[p]
        /\ due'[r] = <<CP!Call(r, "read", m), CP!Call(m, "write", m)>>
    BY <1>2, <1>7, <2>1, CP!ReadDue, ChannelConstants, Threads
       DEF CP!ChannelAssumption, CP!Received
  <2>4. \E i \in DOMAIN due'[r] : /\ due'[r][i].to \in Read /\ due'[r][i].msg = m
                                  /\ \A j \in DOMAIN due'[r] : due'[r][j].to \in Read => j = i
    BY <2>3, MessagingAssumption DEF CP!Call
  <2>5. Answered(m)'
    <3>1. \A p \in Write \cup Read : p # r => \A j \in DOMAIN due'[p] : due'[p][j].to \notin Read
      BY <1>3, <2>3 DEF Quiet, NoDue
    <3>2. QED
      BY <1>4, <2>2, <2>4, <3>1 DEF Answered
  <2>6. InLine(m)'
    <3>1. CASE Gone
      BY <3>1, GoneStays DEF InLine
    <3>2. CASE ~ Gone
      <4>1. sent = seen \o writers
        BY <1>3, <3>2 DEF InLine, Line
      <4>2. sent = Append(seen, m) \o Tail(writers)
        BY <1>2, <1>7, <2>1, <4>1, HeadPasses
      <4>3. QED
        BY <1>1, <2>2, <4>2, MessagingAssumption DEF InLine, Line
    <3>3. QED
      BY <3>1, <3>2
  <2>7. QED
    BY <1>1, <1>5, <2>5, <2>6 DEF Order, Single, Flying
<1>8. QED
  BY <1>6, <1>7

\* Around the critical sections, nothing moves.
LEMMA OrderCall ==
  ASSUME Parts, Carried, [Next]_vars, Order, NEW t \in Thread, NEW o \in Write \cup Read,
         Enter(t, o) \/ Check(t, o) \/ Return(t, o)
  PROVE  Order'
<1>1. UNCHANGED <<readers, writers, due, mail, with, sent, seen, con, arg>>
  BY DEF Enter, Check, Return, C!Enter, C!Check, C!Return, C!queues, T!Yield, T!calls, task,
     carried, seenBy
<1>2. pc' = pc \/ (pc[t] = "blocking" /\ pc' = [pc EXCEPT ![t] = "left"])
  BY DEF Enter, Check, Return, T!Yield, task
<1>3. \A w \in Worker : /\ pc[w] \in {"ref", "enter"} <=> pc'[w] \in {"ref", "enter"}
                        /\ pc'[w] = "lua" => pc[w] = "lua"
  BY <1>2, Facts
<1>4. QED
  BY <1>1, <1>3, OrderSame

\* Without strays, every step keeps the order.
LEMMA StepOrder ==
  ASSUME Parts, Carried, [Next]_vars, Order, resumes' = 0
  PROVE  Order'
<1>1. CASE UNCHANGED vars
  <2>1. UNCHANGED <<readers, writers, due, mail, with, sent, seen, con, arg, pc>>
    BY <1>1 DEF vars, task, channel, carried, seenBy
  <2>2. QED
    BY <2>1, OrderSame
<1>2. ASSUME NEW t \in Thread, Inside(t) \/ \E o \in Write \cup Read : Enter(t, o)
      PROVE  Order'
  BY <1>2, OrderCall, OrderInvoke, OrderWrite, OrderRead, OrderResume, OrderPush DEF Inside
<1>3. ASSUME NEW t \in Thread, Handle(t) PROVE Order'
  <2>1. ~ T!Resume(t, Reader)
    <3>1. resumes \in Nat
      BY MessagingAssumption DEF Parts, TP!IInv, TP!Shape, TP!TypeOK
    <3>2. QED
      BY <3>1 DEF T!Resume
  <2>2. QED
    BY <1>3, <2>1, OrderHandle
<1>4. ASSUME NEW w \in Worker, RunStep(w) PROVE Order'
  BY <1>4, OrderStart, OrderRun, OrderRunOn DEF RunStep
<1>5. QED
  BY <1>1, <1>2, <1>3, <1>4 DEF Next

\* There were no strays before, either.
LEMMA NoStrays == Parts /\ [Next]_vars /\ resumes' = 0 => resumes = 0
<1> SUFFICES ASSUME Parts, [Next]_vars, resumes' = 0, resumes # 0 PROVE FALSE
  OBVIOUS
<1>1. [TP!Next]_(TP!vars) /\ resumes \in Nat
  BY TaskStep, MessagingAssumption DEF Parts, TP!IInv, TP!Shape, TP!TypeOK
<1>2. resumes' = resumes \/ resumes' = resumes + 1
  BY <1>1 DEF TP!Next, TP!Begin, TP!CallStep, TP!RunStep, TP!Lua, TP!vars, TP!bounds, TP!Create,
     TP!Collect, TP!Resume, TP!Answer, TP!CallRef, TP!CallStatus, TP!CallUnref, TP!CallPush,
     TP!Start, TP!RunRef, TP!Enter, TP!Outcome, TP!Block, TP!Yield, TP!Leave, TP!RunFree
<1>3. QED
  BY <1>1, <1>2

LEMMA InitOrder == Init => Order
<1> SUFFICES ASSUME Init PROVE Order
  OBVIOUS
<1>1. /\ readers = <<>> /\ writers = <<>> /\ mail = <<>> /\ sent = <<>> /\ seen = <<>>
      /\ (\A o \in Write \cup Read : due[o] = <<>>) /\ handle[Reader] = "none"
      /\ (\A w \in Worker : pc[w] = "idle") /\ (\A t \in Thread : con[t] = NoTask)
  BY Threads DEF Init, T!Init, C!Init, C!Op
<1>2. Quiet
  BY <1>1 DEF Quiet, NoDue, NoCall, NoRun
<1>3. sent = seen \o writers /\ IsPrefix(seen, sent)
  <2>1. sent = seen \o writers /\ seen \in Seq(Write) /\ writers \in Seq(Write)
    BY <1>1, ConcatEmptySeq
  <2>2. QED
    BY <2>1, PrefixOfConcat
<1>4. QED
  BY <1>2, <1>3 DEF Order, Single, Rests, InLine, Line

\* Where only the channel resumes it, the code of a task is given the messages in the
\* order of the critical sections of their writes, none of them twice and none left out,
\* for any number of reads, writers and threads.
THEOREM InOrder == Spec => []ReadsInOrder
<1>1. Init => Ordered
  BY InitOrder DEF Ordered
<1>2. KInv /\ Ordered /\ [Next]_vars => Ordered'
  BY StepOrder, NoStrays DEF Ordered, KInv
<1>3. Ordered => ReadsInOrder
  BY DEF Ordered, Order, ReadsInOrder
<1>4. QED
  BY <1>1, <1>2, <1>3, KeptInvariance, PTL DEF Spec

-----------------------------------------------------------------------------
(* What the theorems about the two modules say of their composition. *)

\* The variables of both parts and the messages on their way have their types.
THEOREM TypeCorrect == Spec => []TypeOK
<1>1. Parts => T!TypeOK
  BY Threads DEF Parts, TP!IInv, TP!Shape, TP!TypeOK, TP!RunPhase, TP!CallPhase,
       T!TypeOK, T!RunPhase, T!CallPhase
<1>2. CP!Callback = C!Callback /\ CP!Phase = C!Phase /\ CP!Op = C!Op
  BY DEF CP!Callback, C!Callback, CP!Phase, C!Phase, CP!Op, C!Op
<1>3. CP!TypeOK => C!TypeOK
  BY <1>2 DEF CP!TypeOK, C!TypeOK
<1>4. Parts /\ Carried => TypeOK
  BY <1>1, <1>3 DEF Parts, CP!Counted, CP!Shape, Carried, TypeOK
<1>5. QED
  BY <1>4, KeptInvariance, PTL DEF KInv

\* While tasks and channels work on each other, the references of the task are
\* counted, no call waits while it could be served, each accepted call gets one
\* callback at most, no callback finds the frame of its call gone, and no message
\* is decoded or destroyed after it was destroyed: the calls of the host write and
\* those of the task read, which is what the last two need.
THEOREM PartsSafe ==
  Spec => [](/\ TP!RefsAccounted
             /\ CP!NobodyWaitsInVain /\ CP!CalledBackOnce /\ CP!FramesLive /\ CP!MessagesLive)
<1>1. TP!Spec => []TP!RefsAccounted
  BY TP!CountedReferences, TaskConstants DEF TP!TaskAssumption
<1>2. CP!Spec => []CP!NobodyWaitsInVain
  BY CP!ReadersServed, ChannelConstants DEF CP!ChannelAssumption
<1>3. CP!Spec => []CP!CalledBackOnce
  BY CP!CallbacksExact, ChannelConstants DEF CP!ChannelAssumption
<1>4. CP!Spec => []CP!FramesLive
  BY CP!FramesSafety, ChannelConstants, MessagingAssumption DEF CP!ChannelAssumption
<1>5. CP!Spec => []CP!MessagesLive
  BY CP!MessagesSafety, ChannelConstants DEF CP!ChannelAssumption
<1>6. QED
  BY TaskPart, ChannelPart, <1>1, <1>2, <1>3, <1>4, <1>5, PTL

=============================================================================

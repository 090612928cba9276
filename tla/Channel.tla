------------------------------ MODULE Channel -------------------------------
(***************************************************************************)
(* One channel (lc_channel.c): channel_write, channel_read, channel_close, *)
(* their callers luac_write and luac_read, and the callbacks they register *)
(* (session_callback for threads of the host program, task_callback for    *)
(* tasks).                                                                 *)
(*                                                                         *)
(* Each read or write is one process: the call frame of luac_read or       *)
(* luac_write.  The status is tested outside the lock of the channel, the  *)
(* queues are used in one critical section, and the callbacks run after    *)
(* it, one by one, on the thread that made the call.                       *)
(***************************************************************************)
EXTENDS Integers, Sequences, FiniteSets, SequencesExt

CONSTANTS
  Write,     \* calls of write, each standing for the message it sends
  Read,      \* calls of read
  Host,      \* the calls made where task_current() is 0
  Sizes,     \* arguments of channel.new; negative for no limit
  MayClose,  \* whether somebody closes the channel
  NoMsg

Op == Write \cup Read

ASSUME ChannelAssumption ==
  /\ Write \cap Read = {} /\ Host \subseteq Op
  /\ Sizes \subseteq Int
  /\ MayClose \in BOOLEAN
  /\ NoMsg \notin Write

VARIABLES
  status,    \* c->status
  buf_size,  \* c->buf_size
  messages,  \* c->messages
  readers,   \* c->readers
  writers,   \* c->writers
  pc,        \* pc[o]: where call o is
  due,       \* due[o]: callbacks call o has yet to make
  called,    \* called[o]: how often the callback of o was invoked
  got,       \* got[r]: the message taken from the queues for read r
  cleared,   \* messages thrown away by close
  freed,     \* messages given to msg_destroy
  decoded,   \* reads whose message was decoded
  fault      \* undefined behaviour the program has run into

queues == <<messages, readers, writers>>
vars == <<status, buf_size, queues, pc, due, called, got, cleared, freed, decoded, fault>>

Phase == {"new",      \* not called yet
          "checked",  \* luac_* has found the channel open
          "body",     \* channel_* has found it open too
          "calling",  \* out of the critical section
          "blocked",  \* the same, and lc_sem_wait is to follow
          "done",     \* luac_* has returned or yielded after that
          "nil",      \* luac_* has returned nil, "closed"
          "refused"}  \* channel_* has returned ERR_CLOSED

Callback == [to : Op, event : {"read", "write"}, msg : Write]

TypeOK ==
  /\ status \in {"open", "closed"}
  /\ buf_size \in Sizes
  /\ messages \in Seq(Write) /\ readers \in Seq(Read) /\ writers \in Seq(Write)
  /\ pc \in [Op -> Phase]
  /\ due \in [Op -> Seq(Callback)]
  /\ called \in [Op -> Nat]
  /\ got \in [Read -> Write \cup {NoMsg}]
  /\ cleared \subseteq Write /\ freed \subseteq Write
  /\ decoded \subseteq Read
  /\ fault \in {"none", "frame", "message"}

Init ==
  /\ status = "open"
  /\ buf_size \in Sizes
  /\ messages = <<>> /\ readers = <<>> /\ writers = <<>>
  /\ pc = [o \in Op |-> "new"]
  /\ due = [o \in Op |-> <<>>]
  /\ called = [o \in Op |-> 0]
  /\ got = [r \in Read |-> NoMsg]
  /\ cleared = {} /\ freed = {} /\ decoded = {}
  /\ fault = "none"

Goto(o, p) == pc' = [pc EXCEPT ![o] = p]

-----------------------------------------------------------------------------
(* The two tests of the status, neither of them under the lock. *)

\* luac_write and luac_read: a closed channel makes the call return at once.
Enter(o) ==
  /\ pc[o] = "new"
  /\ Goto(o, IF status = "closed" THEN "nil" ELSE "checked")
  /\ UNCHANGED <<status, buf_size, queues, due, called, got, cleared, freed, decoded, fault>>

\* channel_write and channel_read: the callers ignore ERR_CLOSED; a task
\* yields all the same.
Check(o) ==
  /\ pc[o] = "checked"
  /\ Goto(o, IF status = "closed" THEN "refused" ELSE "body")
  /\ UNCHANGED <<status, buf_size, queues, due, called, got, cleared, freed, decoded, fault>>

-----------------------------------------------------------------------------
(* The critical sections. *)

Room == buf_size < 0 \/ Len(messages) < buf_size

\* The queue without its first element, if it has one.
Popped(q) == IF q = <<>> THEN q ELSE Tail(q)

\* A mutant of Received: the newest message goes first.
ReceivedLast(ms, ws) == IF ms # <<>> THEN Last(ms) ELSE Last(ws)

\* Read r receives a message from the queues ms and ws: queue_pop of both; the
\* message is the one popped from ms, or else the one of the popped writer.
Received(ms, ws) == IF ms # <<>> THEN Head(ms) ELSE Head(ws)

\* A mutant of Serve: the popped writer is forgotten.
ServeNoWriter(o, r, ms, ws, ack) ==
  /\ messages' = Popped(ms)
  /\ writers' = Popped(ws)
  /\ got' = [got EXCEPT ![r] = Received(ms, ws)]
  /\ due' = [due EXCEPT ![o] =
       ack \o <<[to |-> r, event |-> "read", msg |-> Received(ms, ws)]>>]

Serve(o, r, ms, ws, ack) ==
  /\ messages' = Popped(ms)
  /\ writers' = Popped(ws)
  /\ got' = [got EXCEPT ![r] = Received(ms, ws)]
  /\ due' = [due EXCEPT ![o] =
       ack \o <<[to |-> r, event |-> "read", msg |-> Received(ms, ws)]>>
           \o IF ws = <<>> THEN <<>>
              ELSE <<[to |-> Head(ws), event |-> "write",
                      \* channel_read passes the message it has read
                      msg |-> IF o = r THEN Received(ms, ws) ELSE Head(ws)]>>]

\* channel_write: the message is buffered and acknowledged, or the writer has
\* to wait; then the first reader, if there is one, is served.
Buffer(w) ==
  IF Room THEN [ms |-> Append(messages, w), ws |-> writers,
                ack |-> <<[to |-> w, event |-> "write", msg |-> w]>>]
          ELSE [ms |-> messages, ws |-> Append(writers, w), ack |-> <<>>]

AfterWrite(w) == Goto(w, IF w \in Host /\ ~ Room THEN "blocked" ELSE "calling")

\* A mutant of WriteBody: the readers are looked at only when the message could
\* not be buffered.
WriteBodyNoReader(w) ==
  /\ pc[w] = "body"
  /\ LET b == Buffer(w) IN
       IF readers = <<>> \/ Room
         THEN /\ messages' = b.ms /\ writers' = b.ws
              /\ due' = [due EXCEPT ![w] = b.ack]
              /\ UNCHANGED <<readers, got>>
         ELSE /\ Serve(w, Head(readers), b.ms, b.ws, b.ack)
              /\ readers' = Tail(readers)
  /\ AfterWrite(w)
  /\ UNCHANGED <<status, buf_size, called, cleared, freed, decoded, fault>>

WriteBody(w) ==
  /\ pc[w] = "body"
  /\ LET b == Buffer(w) IN
       IF readers = <<>>
         THEN /\ messages' = b.ms /\ writers' = b.ws
              /\ due' = [due EXCEPT ![w] = b.ack]
              /\ UNCHANGED <<readers, got>>
         ELSE /\ Serve(w, Head(readers), b.ms, b.ws, b.ack)
              /\ readers' = Tail(readers)
  /\ AfterWrite(w)
  /\ UNCHANGED <<status, buf_size, called, cleared, freed, decoded, fault>>

\* channel_read.  luac_read waits on its semaphore only for ERR_FULL, which
\* channel_read never returns.
ReadBody(r) ==
  /\ pc[r] = "body"
  /\ IF messages = <<>> /\ writers = <<>>
       THEN /\ readers' = Append(readers, r)
            /\ UNCHANGED <<messages, writers, got, due>>
       ELSE /\ Serve(r, r, messages, writers, <<>>)
            /\ UNCHANGED readers
  /\ Goto(r, "calling")
  /\ UNCHANGED <<status, buf_size, called, cleared, freed, decoded, fault>>

-----------------------------------------------------------------------------
(* The callbacks. *)

\* The data of session_callback is in the frame of the call it was made for.
FrameGone(o) == o \in Host /\ pc[o] = "done"

\* session_callback decodes the message of a read; task_callback queues the
\* reading task with it, or destroys the message of a write.
Touches(c) == IF c.to \in Host THEN c.event = "read" ELSE c.event = "write"

\* A mutant of Invoke: the write of a host thread destroys its message too.
InvokeDestroys(o) ==
  /\ due[o] # <<>>
  /\ LET c == Head(due[o]) IN
       /\ called' = [called EXCEPT ![c.to] = @ + 1]
       /\ fault' = IF FrameGone(c.to) THEN "frame"
                   ELSE IF Touches(c) /\ c.msg \in freed THEN "message" ELSE fault
       /\ freed' = IF c.event = "write" THEN freed \cup {c.msg} ELSE freed
       /\ decoded' = IF c.to \in Host \cap Read THEN decoded \cup {c.to} ELSE decoded
  /\ due' = [due EXCEPT ![o] = Tail(@)]
  /\ UNCHANGED <<status, buf_size, queues, pc, got, cleared>>

Invoke(o) ==
  /\ due[o] # <<>>
  /\ LET c == Head(due[o]) IN
       /\ called' = [called EXCEPT ![c.to] = @ + 1]
       /\ fault' = IF FrameGone(c.to) THEN "frame"
                   ELSE IF Touches(c) /\ c.msg \in freed THEN "message" ELSE fault
       /\ freed' = IF c.to \notin Host /\ c.event = "write" THEN freed \cup {c.msg} ELSE freed
       /\ decoded' = IF c.to \in Host \cap Read THEN decoded \cup {c.to} ELSE decoded
  /\ due' = [due EXCEPT ![o] = Tail(@)]
  /\ UNCHANGED <<status, buf_size, queues, pc, got, cleared>>

\* A mutant of Return: a writer does not wait for its callback.
ReturnAtOnce(o) ==
  /\ pc[o] \in {"calling", "blocked"}
  /\ due[o] = <<>>
  /\ Goto(o, "done")
  /\ UNCHANGED <<status, buf_size, queues, due, called, got, cleared, freed, decoded, fault>>

\* luac_* returns to Lua, or yields: a host thread with ERR_FULL first waits for
\* its callback to post the semaphore.
Return(o) ==
  /\ pc[o] \in {"calling", "blocked"}
  /\ due[o] = <<>>
  /\ pc[o] = "blocked" => called[o] > 0
  /\ Goto(o, "done")
  /\ UNCHANGED <<status, buf_size, queues, due, called, got, cleared, freed, decoded, fault>>

\* The session of a reading task runs it: task_run decodes the message and
\* destroys it.
Decode(r) ==
  /\ r \in Read \ Host
  /\ called[r] > 0 /\ got[r] # NoMsg /\ r \notin decoded
  /\ decoded' = decoded \cup {r}
  /\ fault' = IF got[r] \in freed THEN "message" ELSE fault
  /\ freed' = freed \cup {got[r]}
  /\ UNCHANGED <<status, buf_size, queues, pc, due, called, got, cleared>>

\* channel_close: the messages are destroyed and the callbacks of readers and
\* writers told, all under the lock.  channel_free clears the queues likewise,
\* when no call and no handle has the channel any more.
Close ==
  /\ MayClose
  /\ status = "open"
  /\ status' = "closed"
  /\ LET told == Range(readers) \cup Range(writers) IN
       /\ called' = [o \in Op |-> IF o \in told THEN called[o] + 1 ELSE called[o]]
       /\ fault' = IF \E o \in told : FrameGone(o) THEN "frame" ELSE fault
  /\ cleared' = cleared \cup Range(messages) \cup Range(writers)
  /\ freed' = freed \cup Range(messages)
  /\ messages' = <<>> /\ readers' = <<>> /\ writers' = <<>>
  /\ UNCHANGED <<buf_size, pc, due, got, decoded>>

-----------------------------------------------------------------------------
\* What a call does once it has been made, up to its return.
Step(o) ==
  \/ Check(o) \/ Invoke(o) \/ Return(o)
  \/ o \in Write /\ WriteBody(o)
  \/ o \in Read /\ ReadBody(o)

Next ==
  \/ \E o \in Op : Enter(o) \/ Step(o)
  \/ \E r \in Read : Decode(r)
  \/ Close

Spec == Init /\ [][Next]_vars

\* A thread inside a call goes on.  Nothing forces anybody to call.
FairSpec == Spec /\ \A o \in Op : WF_vars(Step(o))

-----------------------------------------------------------------------------
\* A reader waits only while there is nothing to read: neither a buffered
\* message nor a waiting writer.
NobodyWaitsInVain == readers # <<>> => messages = <<>> /\ writers = <<>>

Accepted == {o \in Op : pc[o] \in {"calling", "blocked", "done"}}
Waiting == Range(readers) \cup Range(writers)
Owed(o) == {i \in Op \X (1..3) : i[2] \in DOMAIN due[i[1]] /\ due[i[1]][i[2]].to = o}

\* Every call that has been through its critical section is called back exactly
\* once: it is in a queue, or a thread has left the lock with its callback to
\* make, or the callback was made; and no other call is ever called back.
CalledBackOnce ==
  \A o \in Op :
    called[o] + Cardinality(Owed(o)) + (IF o \in Waiting THEN 1 ELSE 0)
      = IF o \in Accepted THEN 1 ELSE 0

\* A message the channel has accepted is in one of its queues, was taken for a
\* read, or was thrown away by close.
NothingLost ==
  \A w \in Write \cap Accepted :
    w \in Range(messages) \cup Range(writers) \cup Range(got) \cup cleared

\* session_callback is never called with the frame of a call that has returned.
FramesLive == fault # "frame"

\* No message is used, or destroyed, after it was destroyed.
MessagesLive == fault # "message"

\* Nothing is put into a closed channel.
ClosedStaysEmpty ==
  status = "closed" => messages = <<>> /\ readers = <<>> /\ writers = <<>>

\* A host thread blocked in a write returns once its message was taken or the
\* channel closed, on whatever thread that happened.
WriterReleased ==
  \A w \in Write : (pc[w] = "blocked" /\ w \notin Range(writers)) ~> pc[w] = "done"

\* Only one of messages and writers is in use.
SingleQueue == buf_size =< 0

\* Without a buffer, or without a limit, a channel is a mailbox: messages reach readers
\* in the order of the critical sections of the writes, and readers are served in the
\* order of theirs.  With a limit a read may take from both queues (NothingLost).
Box == INSTANCE Mailbox WITH items <- messages \o writers, waiting <- readers
MailboxSpec == (SingleQueue => Box!Init) /\ [][SingleQueue => Box!Next]_(Box!vars)

=============================================================================

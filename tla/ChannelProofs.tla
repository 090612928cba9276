--------------------------- MODULE ChannelProofs ----------------------------
(***************************************************************************)
(* Proofs about Channel, for any reads and writes, hosts, and buffer size. *)
(***************************************************************************)
EXTENDS Channel, SequenceTheorems, FiniteSetTheorems, TLAPS

\* The types of the queues, which is all the proofs below need of TypeOK.
QueuesOK ==
  /\ messages \in Seq(Write) /\ readers \in Seq(Read) /\ writers \in Seq(Write)
  /\ got \in [Read -> Write \cup {NoMsg}]
  /\ buf_size \in Int

\* A channel without a buffer never has buffered messages, one without a limit
\* never has waiting writers.
OneQueue == (buf_size = 0 => messages = <<>>) /\ (buf_size < 0 => writers = <<>>)

Inv == QueuesOK /\ NobodyWaitsInVain /\ OneQueue

\* Steps outside the critical sections leave the queues alone.
Outside(o) == Enter(o) \/ Check(o) \/ Invoke(o) \/ Return(o)

\* The first critical section that matters to a message: with readers waiting
\* the queues are empty, so the reader served receives this very message.
LEMMA WriteCases ==
  ASSUME Inv, NEW w \in Write, WriteBody(w)
  PROVE  \/ /\ readers = <<>> /\ UNCHANGED <<readers, got>> /\ Room
            /\ messages' = Append(messages, w) /\ UNCHANGED writers
         \/ /\ readers = <<>> /\ UNCHANGED <<readers, got>> /\ ~ Room
            /\ writers' = Append(writers, w) /\ UNCHANGED messages
         \/ /\ readers # <<>> /\ readers' = Tail(readers)
            /\ messages = <<>> /\ writers = <<>> /\ messages' = <<>> /\ writers' = <<>>
            /\ got' = [got EXCEPT ![Head(readers)] = w]
<1>1. CASE readers = <<>>
  BY <1>1 DEF WriteBody, Buffer
<1>2. CASE readers # <<>>
  <2>1. messages = <<>> /\ writers = <<>>
    BY <1>2 DEF Inv, NobodyWaitsInVain
  <2>2. /\ readers' = Tail(readers)
        /\ Serve(w, Head(readers), Buffer(w).ms, Buffer(w).ws, Buffer(w).ack)
    BY <1>2 DEF WriteBody
  <2>3. /\ Append(<<>>, w) # <<>> /\ Head(Append(<<>>, w)) = w /\ Tail(Append(<<>>, w)) = <<>>
    OBVIOUS
  <2>4. CASE Room
    <3>1. Buffer(w).ms = Append(<<>>, w) /\ Buffer(w).ws = <<>>
      BY <2>1, <2>4 DEF Buffer
    <3>2. QED
      BY <1>2, <2>1, <2>2, <2>3, <3>1 DEF Serve, Popped, Received
  <2>5. CASE ~ Room
    <3>1. Buffer(w).ms = <<>> /\ Buffer(w).ws = Append(<<>>, w)
      BY <2>1, <2>5 DEF Buffer
    <3>2. QED
      BY <1>2, <2>1, <2>2, <2>3, <3>1 DEF Serve, Popped, Received
  <2>6. QED
    BY <2>4, <2>5
<1>3. QED
  BY <1>1, <1>2

\* The critical section of a read: it waits, or takes the first of both queues.
LEMMA ReadCases ==
  ASSUME Inv, NEW r \in Read, ReadBody(r)
  PROVE  \/ /\ messages = <<>> /\ writers = <<>> /\ UNCHANGED <<messages, writers, got>>
            /\ readers' = Append(readers, r)
         \/ /\ messages # <<>> \/ writers # <<>>
            /\ UNCHANGED readers
            /\ messages' = Popped(messages) /\ writers' = Popped(writers)
            /\ got' = [got EXCEPT ![r] = Received(messages, writers)]
  BY DEF ReadBody, Serve

\* Every step keeps the queues in order: a reader is queued only when there is
\* nothing to read, and whoever comes with something serves the first reader.
LEMMA StepInv == Inv /\ [Next]_vars => Inv'
<1> SUFFICES ASSUME Inv, [Next]_vars PROVE Inv'
  OBVIOUS
<1>0. ASSUME UNCHANGED <<buf_size, queues, got>> PROVE Inv'
  BY <1>0 DEF Inv, QueuesOK, NobodyWaitsInVain, OneQueue, queues
<1>1. ASSUME NEW o \in Op, Outside(o) PROVE Inv'
  BY <1>0, <1>1 DEF Outside, Enter, Check, Invoke, Return
<1>2. ASSUME NEW r \in Read, Decode(r) PROVE Inv'
  BY <1>0, <1>2 DEF Decode
<1>3. ASSUME NEW w \in Write, WriteBody(w) PROVE Inv'
  <2>0. UNCHANGED buf_size
    BY <1>3 DEF WriteBody
  <2>1. CASE /\ readers = <<>> /\ UNCHANGED <<readers, got>> /\ Room
             /\ messages' = Append(messages, w) /\ UNCHANGED writers
    <3>1. buf_size # 0
      BY <2>1 DEF Inv, QueuesOK, Room
    <3>2. QED
      BY <2>0, <2>1, <3>1 DEF Inv, QueuesOK, NobodyWaitsInVain, OneQueue
  <2>2. CASE /\ readers = <<>> /\ UNCHANGED <<readers, got>> /\ ~ Room
             /\ writers' = Append(writers, w) /\ UNCHANGED messages
    BY <2>0, <2>2 DEF Inv, QueuesOK, NobodyWaitsInVain, OneQueue, Room
  <2>3. CASE /\ readers # <<>> /\ readers' = Tail(readers)
             /\ messages = <<>> /\ writers = <<>> /\ messages' = <<>> /\ writers' = <<>>
             /\ got' = [got EXCEPT ![Head(readers)] = w]
    BY <2>0, <2>3 DEF Inv, QueuesOK, NobodyWaitsInVain, OneQueue
  <2>4. QED
    BY <1>3, <2>1, <2>2, <2>3, WriteCases
<1>4. ASSUME NEW r \in Read, ReadBody(r) PROVE Inv'
  <2>0. UNCHANGED buf_size
    BY <1>4 DEF ReadBody
  <2>1. CASE /\ messages = <<>> /\ writers = <<>> /\ UNCHANGED <<messages, writers, got>>
             /\ readers' = Append(readers, r)
    BY <2>0, <2>1 DEF Inv, QueuesOK, NobodyWaitsInVain, OneQueue
  <2>2. CASE /\ messages # <<>> \/ writers # <<>>
             /\ UNCHANGED readers
             /\ messages' = Popped(messages) /\ writers' = Popped(writers)
             /\ got' = [got EXCEPT ![r] = Received(messages, writers)]
    <3>1. readers = <<>>
      BY <2>2 DEF Inv, NobodyWaitsInVain
    <3>2. messages' \in Seq(Write) /\ writers' \in Seq(Write)
      BY <2>2 DEF Inv, QueuesOK, Popped
    <3>3. Received(messages, writers) \in Write
      BY <2>2 DEF Inv, QueuesOK, Received
    <3>4. OneQueue'
      BY <2>0, <2>2 DEF Inv, OneQueue, Popped
    <3>5. QED
      BY <2>0, <2>2, <3>1, <3>2, <3>3, <3>4 DEF Inv, QueuesOK, NobodyWaitsInVain
  <2>3. QED
    BY <1>4, <2>1, <2>2, ReadCases
<1>5. ASSUME Close PROVE Inv'
  BY <1>5 DEF Close, Inv, QueuesOK, NobodyWaitsInVain, OneQueue
<1>6. CASE UNCHANGED vars
  BY <1>0, <1>6 DEF vars
<1>7. QED
  BY <1>1, <1>2, <1>3, <1>4, <1>5, <1>6 DEF Next, Step, Outside

\* A new channel is open and empty.
LEMMA InitInv == Init => Inv
  BY ChannelAssumption DEF Init, Inv, QueuesOK, NobodyWaitsInVain, OneQueue

\* The invariant holds in every reachable state.
LEMMA Invariance == Spec => []Inv
  BY InitInv, StepInv, PTL DEF Spec

\* No reader waits while a message is buffered or a writer waits, whatever the
\* size of the buffer, and however the calls of any number of threads and the
\* close of the channel interleave.
THEOREM ReadersServed == Spec => []NobodyWaitsInVain
<1>1. Inv => NobodyWaitsInVain
  BY DEF Inv
<1>2. QED
  BY <1>1, Invariance, PTL

\* A channel without a buffer, and one without a limit, is a mailbox: first
\* written, first read, by the reader that came first.  With a buffer of one
\* or more this fails, as a read then takes from both queues.
THEOREM Refinement == Spec => MailboxSpec
<1>1. Init => (SingleQueue => Box!Init)
  BY DEF Init, Box!Init
<1>2. Inv /\ [Next]_vars => [SingleQueue => Box!Next]_(Box!vars)
  <2> SUFFICES ASSUME Inv, [Next]_vars, SingleQueue PROVE [Box!Next]_(Box!vars)
    OBVIOUS
  <2>0. ASSUME UNCHANGED <<buf_size, queues, got>> PROVE UNCHANGED Box!vars
    BY <2>0 DEF queues, Box!vars
  <2>a. buf_size \in Int /\ buf_size =< 0 /\ QueuesOK /\ OneQueue
    BY DEF Inv, QueuesOK, SingleQueue
  <2>b. \A q \in Seq(Write) : <<>> \o q = q /\ q \o <<>> = q
    BY ConcatEmptySeq
  <2>1. ASSUME NEW o \in Op, Outside(o) PROVE UNCHANGED Box!vars
    BY <2>0, <2>1 DEF Outside, Enter, Check, Invoke, Return
  <2>2. ASSUME NEW r \in Read, Decode(r) PROVE UNCHANGED Box!vars
    BY <2>0, <2>2 DEF Decode
  <2>3. ASSUME NEW w \in Write, WriteBody(w) PROVE Box!Put(w)
    <3>1. CASE /\ readers = <<>> /\ UNCHANGED <<readers, got>> /\ Room
               /\ messages' = Append(messages, w) /\ UNCHANGED writers
      <4>1. buf_size < 0
        BY <2>a, <3>1 DEF QueuesOK, OneQueue, Room
      <4>2. writers = <<>> /\ Append(messages, w) \in Seq(Write)
        BY <2>a, <4>1 DEF QueuesOK, OneQueue
      <4>3. messages \o writers = messages /\ messages' \o writers' = Append(messages, w)
        BY <2>a, <2>b, <3>1, <4>2 DEF QueuesOK
      <4>4. QED
        BY <3>1, <4>3 DEF Box!Put
    <3>2. CASE /\ readers = <<>> /\ UNCHANGED <<readers, got>> /\ ~ Room
               /\ writers' = Append(writers, w) /\ UNCHANGED messages
      <4>1. buf_size = 0
        BY <2>a, <3>2 DEF Room
      <4>2. messages = <<>> /\ Append(writers, w) \in Seq(Write)
        BY <2>a, <4>1 DEF QueuesOK, OneQueue
      <4>3. messages \o writers = writers /\ messages' \o writers' = Append(writers, w)
        BY <2>a, <2>b, <3>2, <4>2 DEF QueuesOK
      <4>4. QED
        BY <3>2, <4>3 DEF Box!Put
    <3>3. CASE /\ readers # <<>> /\ readers' = Tail(readers)
               /\ messages = <<>> /\ writers = <<>> /\ messages' = <<>> /\ writers' = <<>>
               /\ got' = [got EXCEPT ![Head(readers)] = w]
      <4>1. messages \o writers = <<>> /\ messages' \o writers' = <<>>
        BY <3>3
      <4>2. QED
        BY <3>3, <4>1 DEF Box!Put
    <3>4. QED
      BY <2>3, <3>1, <3>2, <3>3, WriteCases
  <2>4. ASSUME NEW r \in Read, ReadBody(r) PROVE Box!Get(r)
    <3>1. CASE /\ messages = <<>> /\ writers = <<>> /\ UNCHANGED <<messages, writers, got>>
               /\ readers' = Append(readers, r)
      <4>1. messages \o writers = <<>> /\ messages' \o writers' = messages \o writers
        BY <3>1
      <4>2. QED
        BY <3>1, <4>1 DEF Box!Get
    <3>2. CASE /\ messages # <<>> \/ writers # <<>>
               /\ UNCHANGED readers
               /\ messages' = Popped(messages) /\ writers' = Popped(writers)
               /\ got' = [got EXCEPT ![r] = Received(messages, writers)]
      <4>1. CASE buf_size = 0
        <5>1. messages = <<>> /\ messages' = <<>> /\ writers # <<>> /\ writers' = Tail(writers)
          BY <2>a, <3>2, <4>1 DEF OneQueue, Popped
        <5>2. Tail(writers) \in Seq(Write)
          BY <2>a, <5>1 DEF QueuesOK
        <5>3. messages \o writers = writers /\ messages' \o writers' = Tail(writers)
          BY <2>a, <2>b, <5>1, <5>2 DEF QueuesOK
        <5>4. QED
          BY <3>2, <5>1, <5>3 DEF Box!Get, Received
      <4>2. CASE buf_size < 0
        <5>1. writers = <<>> /\ writers' = <<>> /\ messages # <<>> /\ messages' = Tail(messages)
          BY <2>a, <3>2, <4>2 DEF OneQueue, Popped
        <5>2. Tail(messages) \in Seq(Write)
          BY <2>a, <5>1 DEF QueuesOK
        <5>3. messages \o writers = messages /\ messages' \o writers' = Tail(messages)
          BY <2>a, <2>b, <5>1, <5>2 DEF QueuesOK
        <5>4. QED
          BY <3>2, <5>1, <5>3 DEF Box!Get, Received
      <4>3. QED
        BY <2>a, <4>1, <4>2
    <3>3. QED
      BY <2>4, <3>1, <3>2, ReadCases
  <2>5. ASSUME Close PROVE Box!Clear
    <3>1. messages' \o writers' = <<>> /\ readers' = <<>> /\ UNCHANGED got
      BY <2>5 DEF Close
    <3>2. QED
      BY <3>1 DEF Box!Clear
  <2>6. CASE UNCHANGED vars
    BY <2>0, <2>6 DEF vars
  <2>7. QED
    BY <2>1, <2>2, <2>3, <2>4, <2>5, <2>6 DEF Next, Step, Outside, Box!Next
<1>3. QED
  BY <1>1, <1>2, Invariance, PTL DEF Spec, MailboxSpec, Box!Spec

-----------------------------------------------------------------------------
(* Who is called back, and when. *)

\* Call o has callbacks to make only between its critical section and its
\* return; nobody is twice in a queue.
Shape ==
  /\ TypeOK
  /\ IsInjective(readers) /\ IsInjective(writers)
  /\ \A o \in Op : /\ Len(due[o]) =< 2
                   /\ due[o] # <<>> => pc[o] \in {"calling", "blocked"}

\* The i-th callback call p has yet to make is the one of o.
Owes(p, i, o) == p \in Op /\ i \in DOMAIN due[p] /\ due[p][i].to = o

\* CalledBackOnce for call o, without cardinalities: in a queue, in the list of
\* one thread, called back: one of the three for a call that is accepted, and
\* none for one that is not.
Once(o) ==
  /\ called[o] \in {0, 1}
  /\ called[o] = 1 => o \in Accepted /\ o \notin Waiting
  /\ o \in Waiting => o \in Accepted
  /\ \A p \in Op, i \in {1, 2} :
       Owes(p, i, o) => /\ o \in Accepted /\ o \notin Waiting /\ called[o] = 0
                        /\ \A q \in Op, j \in {1, 2} : Owes(q, j, o) => q = p /\ j = i
  /\ o \in Accepted =>
       called[o] = 1 \/ o \in Waiting \/ \E p \in Op, i \in {1, 2} : Owes(p, i, o)

\* The frame of a host thread whose write is not called back yet exists: it is
\* blocked, or its callback is one of those it makes itself.
Framed(o) ==
  /\ o \in Waiting => pc[o] = "blocked"
  /\ \A p \in Op, i \in {1, 2} : Owes(p, i, o) => pc[o] = "blocked" \/ p = o

\* A callback of a read carries the message taken for that read (g is got).
Addressed(c, g) ==
  IF c.event = "read" THEN c.to \in Read /\ c.msg = g[c.to] ELSE c.to \in Write

\* Where the messages are: each in one place, and destroyed only when a task
\* has decoded it or close has thrown it away.
Kept ==
  /\ IsInjective(messages)
  /\ Range(messages) \cap Range(writers) = {}
  /\ Range(messages) \cup freed \subseteq Accepted
  /\ \A r \in Read : got[r] # NoMsg =>
       /\ got[r] \in Accepted
       /\ got[r] \notin Range(messages) \cup Range(writers)
       /\ \A s \in Read : got[s] = got[r] => s = r
       /\ got[r] \in freed => r \in decoded
  /\ freed \cap (Range(messages) \cup Range(writers)) = {}
  /\ \A r \in decoded : called[r] > 0
  /\ \A p \in Op, i \in {1, 2} : i \in DOMAIN due[p] => Addressed(due[p][i], got)

-----------------------------------------------------------------------------
(* Queues as sets. *)

LEMMA Pushed ==
  ASSUME NEW S, NEW q \in Seq(S), NEW x \in S
  PROVE  /\ Range(Append(q, x)) = Range(q) \cup {x}
         /\ IsInjective(q) /\ x \notin Range(q) => IsInjective(Append(q, x))
<1>1. /\ Append(q, x) \in Seq(S) /\ Len(Append(q, x)) = Len(q) + 1
      /\ \A i \in 1..Len(q) : Append(q, x)[i] = q[i]
      /\ Append(q, x)[Len(q) + 1] = x
  BY AppendProperties
<1>2. /\ Len(q) \in Nat /\ DOMAIN q = 1..Len(q) /\ DOMAIN Append(q, x) = 1..(Len(q) + 1)
  BY <1>1, LenProperties
<1>3. Range(Append(q, x)) = Range(q) \cup {x}
  BY <1>1, <1>2 DEF Range
<1>4. IsInjective(q) /\ x \notin Range(q) => IsInjective(Append(q, x))
  BY <1>1, <1>2 DEF Range, IsInjective
<1>5. QED
  BY <1>3, <1>4

LEMMA Dropped ==
  ASSUME NEW S, NEW q \in Seq(S), q # <<>>, IsInjective(q)
  PROVE  /\ Head(q) \in Range(q)
         /\ Range(Tail(q)) = Range(q) \ {Head(q)}
         /\ IsInjective(Tail(q))
<1>1. /\ Tail(q) \in Seq(S) /\ Len(Tail(q)) = Len(q) - 1
      /\ \A i \in 1..Len(Tail(q)) : Tail(q)[i] = q[i + 1]
  BY HeadTailProperties
<1>2. /\ Len(q) \in Nat \ {0} /\ DOMAIN q = 1..Len(q) /\ DOMAIN Tail(q) = 1..(Len(q) - 1)
      /\ Head(q) = q[1]
  BY <1>1, LenProperties, EmptySeq
<1>3. Head(q) \in Range(q)
  BY <1>2 DEF Range
<1>4. Range(Tail(q)) = Range(q) \ {Head(q)}
  <2>1. ASSUME NEW x \in Range(Tail(q)) PROVE x \in Range(q) \ {Head(q)}
    <3>1. PICK i \in 1..(Len(q) - 1) : x = q[i + 1]
      BY <1>1, <1>2, <2>1 DEF Range
    <3>2. QED
      BY <1>2, <3>1 DEF Range, IsInjective
  <2>2. ASSUME NEW x \in Range(q) \ {Head(q)} PROVE x \in Range(Tail(q))
    <3>1. PICK i \in 1..Len(q) : x = q[i]
      BY <1>2, <2>2 DEF Range
    <3>2. i - 1 \in 1..(Len(q) - 1) /\ (i - 1) + 1 = i
      BY <1>2, <2>2, <3>1
    <3>3. Tail(q)[i - 1] = x
      BY <1>1, <3>1, <3>2
    <3>4. QED
      BY <1>2, <3>2, <3>3 DEF Range
  <2>3. QED
    BY <2>1, <2>2
<1>5. IsInjective(Tail(q))
  BY <1>1, <1>2 DEF IsInjective
<1>6. QED
  BY <1>3, <1>4, <1>5

-----------------------------------------------------------------------------
(* What the critical sections leave to be called back. *)

LEMMA Tuples ==
  ASSUME NEW a, NEW b
  PROVE  /\ <<>> \o <<a>> \o <<>> = <<a>>
         /\ <<a>> \o <<b>> \o <<>> = <<a, b>>
         /\ <<>> \o <<a>> \o <<b>> = <<a, b>>
<1>1. <<a>> \in Seq({a, b}) /\ <<b>> \in Seq({a, b}) /\ <<a, b>> \in Seq({a, b})
  OBVIOUS
<1>2. /\ <<a>> \o <<b>> \in Seq({a, b}) /\ Len(<<a>> \o <<b>>) = 2
      /\ (<<a>> \o <<b>>)[1] = a /\ (<<a>> \o <<b>>)[2] = b
  <2>1. /\ <<a>> \o <<b>> \in Seq({a, b})
        /\ Len(<<a>> \o <<b>>) = Len(<<a>>) + Len(<<b>>)
        /\ \A i \in 1 .. Len(<<a>>) + Len(<<b>>) : (<<a>> \o <<b>>)[i] =
             IF i <= Len(<<a>>) THEN <<a>>[i] ELSE <<b>>[i - Len(<<a>>)]
    BY <1>1, ConcatProperties
  <2>2. Len(<<a>>) = 1 /\ Len(<<b>>) = 1 /\ 1 + 1 = 2 /\ 2 - 1 = 1
    OBVIOUS
  <2>3. \A i \in 1..2 : (<<a>> \o <<b>>)[i] = IF i =< 1 THEN <<a>>[i] ELSE <<b>>[i - 1]
    BY <2>1, <2>2
  <2>4. <<a>>[1] = a /\ <<b>>[1] = b
    OBVIOUS
  <2>5. QED
    BY <2>1, <2>2, <2>3, <2>4
<1>3. <<a>> \o <<b>> = <<a, b>>
  <2>1. Len(<<a, b>>) = 2 /\ <<a, b>>[1] = a /\ <<a, b>>[2] = b
    OBVIOUS
  <2>2. \A i \in 1..2 : (<<a>> \o <<b>>)[i] = <<a, b>>[i]
    BY <1>2, <2>1
  <2>3. Len(<<a>> \o <<b>>) = Len(<<a, b>>)
    BY <1>2, <2>1
  <2>4. QED
    BY <1>1, <1>2, <2>1, <2>2, <2>3, SeqEqual
<1>4. QED
  BY <1>1, <1>3, ConcatEmptySeq

Call(o, e, m) == [to |-> o, event |-> e, msg |-> m]

\* A write that is buffered is acknowledged; one that serves a reader is too,
\* by the thread that makes it.
LEMMA WriteDue ==
  ASSUME Inv, TypeOK, NEW w \in Write, WriteBody(w)
  PROVE  /\ \A p \in Op : p # w => due'[p] = due[p]
         /\ readers = <<>> /\ Room => due'[w] = <<Call(w, "write", w)>>
         /\ readers = <<>> /\ ~ Room => due'[w] = <<>>
         /\ readers # <<>> =>
              \/ due'[w] = <<Call(w, "write", w), Call(Head(readers), "read", w)>>
              \/ due'[w] = <<Call(Head(readers), "read", w), Call(w, "write", w)>>
<1>2. w \in Op /\ due \in [Op -> Seq(Callback)]
  BY DEF Op, TypeOK
<1>3. CASE readers = <<>>
  BY <1>2, <1>3 DEF WriteBody, Buffer, Call
<1>4. CASE readers # <<>>
  <2>1. messages = <<>> /\ writers = <<>>
    BY <1>4 DEF Inv, NobodyWaitsInVain
  <2>2. /\ Append(<<>>, w) # <<>> /\ Head(Append(<<>>, w)) = w
    OBVIOUS
  <2>3. Serve(w, Head(readers), Buffer(w).ms, Buffer(w).ws, Buffer(w).ack)
    BY <1>4 DEF WriteBody
  <2>4. CASE Room
    <3>1. /\ Buffer(w).ms = Append(<<>>, w) /\ Buffer(w).ws = <<>>
          /\ Buffer(w).ack = <<Call(w, "write", w)>>
      BY <2>1, <2>4 DEF Buffer, Call
    <3>2. due' = [due EXCEPT ![w] = <<Call(w, "write", w)>>
                     \o <<Call(Head(readers), "read", w)>> \o <<>>]
      BY <2>2, <2>3, <3>1 DEF Serve, Received, Call
    <3>3. QED
      BY <1>2, <1>4, <3>2, Tuples
  <2>5. CASE ~ Room
    <3>1. /\ Buffer(w).ms = <<>> /\ Buffer(w).ws = Append(<<>>, w)
          /\ Buffer(w).ack = <<>>
      BY <2>1, <2>5 DEF Buffer
    <3>2. Head(readers) # w
      BY <1>4, ChannelAssumption DEF Op, TypeOK
    <3>3. due' = [due EXCEPT ![w] = <<>> \o <<Call(Head(readers), "read", w)>>
                     \o <<Call(w, "write", w)>>]
      BY <2>2, <2>3, <3>1, <3>2 DEF Serve, Received, Call
    <3>4. QED
      BY <1>2, <1>4, <3>3, Tuples
  <2>6. QED
    BY <2>4, <2>5
<1>5. QED
  BY <1>3, <1>4

\* A read that finds something calls itself back, and the writer it has taken
\* from the queue of writers.
LEMMA ReadDue ==
  ASSUME TypeOK, NEW r \in Read, ReadBody(r)
  PROVE  /\ \A p \in Op : p # r => due'[p] = due[p]
         /\ messages = <<>> /\ writers = <<>> => due' = due
         /\ messages # <<>> \/ writers # <<>> =>
              LET m == Received(messages, writers) IN
                due'[r] = IF writers = <<>> THEN <<Call(r, "read", m)>>
                          ELSE <<Call(r, "read", m), Call(Head(writers), "write", m)>>
<1>1. r \in Op /\ due \in [Op -> Seq(Callback)]
  BY DEF Op, TypeOK
<1>2. CASE messages = <<>> /\ writers = <<>>
  BY <1>2 DEF ReadBody
<1>3. CASE messages # <<>> \/ writers # <<>>
  <2> DEFINE m == Received(messages, writers)
  <2>1. Serve(r, r, messages, writers, <<>>)
    BY <1>3 DEF ReadBody
  <2>2. CASE writers = <<>>
    <3>1. due' = [due EXCEPT ![r] = <<>> \o <<Call(r, "read", m)>> \o <<>>]
      BY <2>1, <2>2 DEF Serve, Call
    <3>2. QED
      BY <1>1, <1>3, <2>2, <3>1, Tuples
  <2>3. CASE writers # <<>>
    <3>1. due' = [due EXCEPT ![r] = <<>> \o <<Call(r, "read", m)>>
                     \o <<Call(Head(writers), "write", m)>>]
      BY <2>1, <2>3 DEF Serve, Call
    <3>2. QED
      BY <1>1, <1>3, <2>3, <3>1, Tuples
  <2>4. QED
    BY <2>2, <2>3
<1>4. QED
  BY <1>2, <1>3

-----------------------------------------------------------------------------
(* Every call is called back once. *)

Counted == Inv /\ Shape /\ \A o \in Op : Once(o)

\* Nothing is on its way to a call that has not been accepted.
LEMMA Fresh ==
  ASSUME Counted, NEW o \in Op, o \notin Accepted
  PROVE  /\ called[o] = 0 /\ o \notin Waiting
         /\ \A p \in Op, i \in {1, 2} : ~ Owes(p, i, o)
  BY DEF Counted, Once

\* The effect of a critical section on the queues, as sets.
LEMMA WriteSets ==
  ASSUME Counted, NEW w \in Write, WriteBody(w)
  PROVE  /\ IsInjective(readers') /\ IsInjective(writers')
         /\ Accepted' = Accepted \cup {w} /\ w \notin Accepted /\ w \in Op
         /\ UNCHANGED called
         /\ readers = <<>> /\ Room => Waiting' = Waiting
         /\ readers = <<>> /\ ~ Room => Waiting' = Waiting \cup {w}
         /\ readers # <<>> => /\ Head(readers) \in Waiting \cap Read
                              /\ Waiting' = Waiting \ {Head(readers)}
<1>1. /\ w \in Op /\ pc \in [Op -> Phase] /\ pc[w] = "body"
      /\ readers \in Seq(Read) /\ writers \in Seq(Write)
      /\ IsInjective(readers) /\ IsInjective(writers)
  BY DEF Counted, Shape, TypeOK, WriteBody, Op
<1>2. w \notin Accepted /\ Accepted' = Accepted \cup {w} /\ UNCHANGED called
  BY <1>1 DEF WriteBody, AfterWrite, Goto, Accepted
<1>3. w \notin Range(readers) /\ w \notin Range(writers)
  BY <1>1, <1>2, Fresh DEF Waiting
<1>4. CASE readers = <<>> /\ UNCHANGED readers /\ UNCHANGED writers /\ Room
  BY <1>1, <1>2, <1>4 DEF Waiting
<1>5. CASE readers = <<>> /\ UNCHANGED readers /\ ~ Room /\ writers' = Append(writers, w)
  <2>1. Range(writers') = Range(writers) \cup {w} /\ IsInjective(writers')
    BY <1>1, <1>3, <1>5, Pushed
  <2>2. QED
    BY <1>1, <1>2, <1>5, <2>1 DEF Waiting
<1>6. CASE readers # <<>> /\ readers' = Tail(readers) /\ UNCHANGED writers /\ writers = <<>>
  <2>1. /\ Head(readers) \in Range(readers) /\ Range(readers') = Range(readers) \ {Head(readers)}
        /\ IsInjective(readers')
    BY <1>1, <1>6, Dropped
  <2>2. Range(writers) = {} /\ Head(readers) \in Read
    BY <1>1, <1>6 DEF Range
  <2>3. QED
    BY <1>1, <1>2, <1>6, <2>1, <2>2 DEF Waiting
<1>7. QED
  BY <1>4, <1>5, <1>6, WriteCases DEF Counted

LEMMA ReadSets ==
  ASSUME Counted, NEW r \in Read, ReadBody(r)
  PROVE  /\ IsInjective(readers') /\ IsInjective(writers')
         /\ Accepted' = Accepted \cup {r} /\ r \notin Accepted /\ r \in Op
         /\ UNCHANGED called
         /\ messages = <<>> /\ writers = <<>> => Waiting' = Waiting \cup {r}
         /\ messages # <<>> /\ writers = <<>> => Waiting' = Waiting
         /\ writers # <<>> => /\ Head(writers) \in Waiting \cap Write
                              /\ Waiting' = Waiting \ {Head(writers)}
<1>1. /\ r \in Op /\ pc \in [Op -> Phase] /\ pc[r] = "body"
      /\ readers \in Seq(Read) /\ writers \in Seq(Write)
      /\ IsInjective(readers) /\ IsInjective(writers)
  BY DEF Counted, Shape, TypeOK, ReadBody, Op
<1>2. r \notin Accepted /\ Accepted' = Accepted \cup {r} /\ UNCHANGED called
  BY <1>1 DEF ReadBody, Goto, Accepted
<1>3. r \notin Range(readers)
  BY <1>1, <1>2, Fresh DEF Waiting
<1>4. CASE messages = <<>> /\ writers = <<>> /\ UNCHANGED writers /\ readers' = Append(readers, r)
  <2>1. Range(readers') = Range(readers) \cup {r} /\ IsInjective(readers')
    BY <1>1, <1>3, <1>4, Pushed
  <2>2. QED
    BY <1>1, <1>2, <1>4, <2>1 DEF Waiting
<1>5. CASE messages # <<>> /\ writers = <<>> /\ UNCHANGED readers /\ writers' = Popped(writers)
  BY <1>1, <1>2, <1>5 DEF Waiting, Popped
<1>6. CASE writers # <<>> /\ UNCHANGED readers /\ writers' = Popped(writers)
  <2>1. /\ Head(writers) \in Range(writers) /\ Range(writers') = Range(writers) \ {Head(writers)}
        /\ IsInjective(writers')
    BY <1>1, <1>6, Dropped DEF Popped
  <2>2. readers = <<>> /\ Head(writers) \in Write
    BY <1>1, <1>6 DEF Counted, Inv, NobodyWaitsInVain
  <2>3. Range(readers) = {}
    BY <2>2 DEF Range
  <2>4. QED
    BY <1>1, <1>2, <1>6, <2>1, <2>2, <2>3 DEF Waiting
<1>7. QED
  BY <1>4, <1>5, <1>6, ReadCases DEF Counted

\* The calls other than o are owed what they were.
LEMMA SameOwed ==
  ASSUME NEW o \in Op, \A p \in Op : p # o => due'[p] = due[p]
  PROVE  \A p \in Op, i \in {1, 2}, x \in Op : p # o => (Owes(p, i, x)' <=> Owes(p, i, x))
  BY DEF Owes

\* A list of at most two callbacks.
LEMMA OwedOne ==
  ASSUME NEW o \in Op, NEW a, due'[o] = <<a>>
  PROVE  \A i \in {1, 2}, x \in Op : Owes(o, i, x)' <=> i = 1 /\ a.to = x
  BY DEF Owes
LEMMA OwedTwo ==
  ASSUME NEW o \in Op, NEW a, NEW b, due'[o] = <<a, b>>
  PROVE  \A i \in {1, 2}, x \in Op :
           Owes(o, i, x)' <=> (i = 1 /\ a.to = x) \/ (i = 2 /\ b.to = x)
  BY DEF Owes
LEMMA OwedNone ==
  ASSUME NEW o \in Op, due[o] = <<>>
  PROVE  \A i \in {1, 2}, x \in Op : ~ Owes(o, i, x)
  BY DEF Owes


LEMMA InvokeOnce ==
  ASSUME Counted, NEW o \in Op, Invoke(o), NEW x \in Op
  PROVE  Once(x)'
<1>1. /\ due[o] \in Seq(Callback) /\ due[o] # <<>> /\ Len(due[o]) \in {1, 2}
      /\ DOMAIN due[o] = 1..Len(due[o])
  <2>1. due[o] \in Seq(Callback) /\ due[o] # <<>> /\ Len(due[o]) =< 2
    BY DEF Counted, Shape, TypeOK, Invoke
  <2>2. Len(due[o]) \in Nat \ {0} /\ DOMAIN due[o] = 1..Len(due[o])
    BY <2>1, EmptySeq, LenProperties
  <2>3. \A n \in Nat \ {0} : n =< 2 => n \in {1, 2}
    OBVIOUS
  <2>4. QED
    BY <2>1, <2>2, <2>3
<1>2. PICK c \in Callback : c = due[o][1] /\ c = Head(due[o]) /\ c.to \in Op
  <2>1. due[o][1] \in Callback /\ Head(due[o]) = due[o][1]
    BY <1>1, ElementOfSeq
  <2>2. QED
    BY <2>1 DEF Callback
<1>3. /\ Tail(due[o]) \in Seq(Callback) /\ Len(Tail(due[o])) = Len(due[o]) - 1
      /\ \A i \in 1..Len(Tail(due[o])) : Tail(due[o])[i] = due[o][i + 1]
  BY <1>1, HeadTailProperties
<1>4. /\ due'[o] = Tail(due[o]) /\ \A p \in Op : p # o => due'[p] = due[p]
      /\ called' = [called EXCEPT ![c.to] = @ + 1]
      /\ Accepted' = Accepted /\ Waiting' = Waiting /\ called \in [Op -> Nat]
  BY <1>2 DEF Invoke, Counted, Shape, TypeOK, Accepted, Waiting, queues
<1>5. /\ Owes(o, 1, x) <=> c.to = x
      /\ Owes(o, 1, x)' <=> Owes(o, 2, x)
      /\ ~ Owes(o, 2, x)'
  BY <1>1, <1>2, <1>3, <1>4 DEF Owes
<1>6. \A p \in Op, i \in {1, 2} : p # o => (Owes(p, i, x)' <=> Owes(p, i, x))
  BY <1>4, SameOwed
<1>7. Once(x)
  BY DEF Counted
<1>8. CASE x = c.to
  <2>1. x \in Accepted /\ x \notin Waiting /\ called[x] = 0
    BY <1>5, <1>7, <1>8 DEF Once
  <2>2. \A p \in Op, i \in {1, 2} : Owes(p, i, x) => p = o /\ i = 1
    BY <1>5, <1>7, <1>8 DEF Once
  <2>3. \A p \in Op, i \in {1, 2} : ~ Owes(p, i, x)'
    BY <1>5, <1>6, <2>2
  <2>4. called'[x] = 1
    BY <1>4, <1>8, <2>1
  <2>5. QED
    BY <1>4, <2>1, <2>3, <2>4 DEF Once
<1>9. CASE x # c.to
  <2>1. called'[x] = called[x]
    BY <1>4, <1>9
  <2>2. ~ Owes(o, 1, x)
    BY <1>5, <1>9
  <2>3. CASE Owes(o, 2, x)
    <3>1. \A p \in Op, i \in {1, 2} : Owes(p, i, x) => p = o /\ i = 2
      BY <1>7, <2>3 DEF Once
    <3>2. \A p \in Op, i \in {1, 2} : Owes(p, i, x)' <=> p = o /\ i = 1
      BY <1>5, <1>6, <2>3, <3>1
    <3>3. x \in Accepted /\ x \notin Waiting /\ called[x] = 0
      BY <1>7, <2>3 DEF Once
    <3>4. QED
      BY <1>4, <2>1, <3>2, <3>3 DEF Once
  <2>4. CASE ~ Owes(o, 2, x)
    <3>1. \A p \in Op, i \in {1, 2} : Owes(p, i, x)' <=> Owes(p, i, x)
      BY <1>5, <1>6, <2>2, <2>4
    <3>2. QED
      BY <1>4, <1>7, <2>1, <3>1 DEF Once
  <2>5. QED
    BY <2>3, <2>4
<1>10. QED
  BY <1>8, <1>9

LEMMA WriteOnce ==
  ASSUME Counted, NEW w \in Write, WriteBody(w), NEW x \in Op
  PROVE  Once(x)'
<1>1. /\ w \in Op /\ w \notin Accepted /\ Accepted' = Accepted \cup {w} /\ UNCHANGED called
      /\ Once(x) /\ Once(w) /\ Inv /\ TypeOK
  BY WriteSets DEF Counted, Shape
<1>2. due[w] = <<>> /\ \A p \in Op : p # w => due'[p] = due[p]
  BY <1>1, WriteDue DEF Counted, Shape, WriteBody
<1>3. \A i \in {1, 2} : ~ Owes(w, i, x)
  BY <1>1, <1>2, OwedNone
<1>4. \A p \in Op, i \in {1, 2} : p # w => (Owes(p, i, x)' <=> Owes(p, i, x))
  BY <1>1, <1>2, SameOwed
<1>5. /\ called[w] = 0 /\ w \notin Waiting
      /\ \A p \in Op, i \in {1, 2} : ~ Owes(p, i, w)
  BY <1>1, Fresh
<1>6. CASE readers = <<>> /\ Room
  <2>1. Waiting' = Waiting
    BY <1>6, WriteSets
  <2>2. due'[w] = <<Call(w, "write", w)>>
    BY <1>1, <1>6, WriteDue
  <2>3. \A i \in {1, 2} : Owes(w, i, x)' <=> i = 1 /\ w = x
    BY <1>1, <2>2, OwedOne DEF Call
  <2>4. CASE x = w
    BY <1>1, <1>4, <1>5, <2>1, <2>3, <2>4 DEF Once
  <2>5. CASE x # w
    BY <1>1, <1>3, <1>4, <2>1, <2>3, <2>5 DEF Once
  <2>6. QED
    BY <2>4, <2>5
<1>7. CASE readers = <<>> /\ ~ Room
  <2>1. Waiting' = Waiting \cup {w}
    BY <1>7, WriteSets
  <2>2. due'[w] = <<>>
    BY <1>1, <1>7, WriteDue
  <2>3. \A i \in {1, 2} : ~ Owes(w, i, x)'
    BY <1>1, <2>2 DEF Owes
  <2>4. CASE x = w
    BY <1>1, <1>4, <1>5, <2>1, <2>3, <2>4 DEF Once
  <2>5. CASE x # w
    BY <1>1, <1>3, <1>4, <2>1, <2>3, <2>5 DEF Once
  <2>6. QED
    BY <2>4, <2>5
<1>8. CASE readers # <<>>
  <2>1. PICK r \in Waiting \cap Read : r = Head(readers) /\ Waiting' = Waiting \ {r}
    BY <1>8, WriteSets
  <2>2. r \in Op /\ r # w /\ Once(r)
    BY <2>1, ChannelAssumption DEF Op, Counted
  <2>3. /\ called[r] = 0 /\ r \in Accepted
        /\ \A p \in Op, i \in {1, 2} : ~ Owes(p, i, r)
    BY <2>1, <2>2 DEF Once
  <2>4. PICK i \in {1, 2}, j \in {1, 2} :
          /\ i # j
          /\ Owes(w, i, x)' <=> x = w
          /\ Owes(w, j, x)' <=> x = r
    <3>1. CASE due'[w] = <<Call(w, "write", w), Call(r, "read", w)>>
      <4>1. /\ Owes(w, 1, x)' <=> x = w
            /\ Owes(w, 2, x)' <=> x = r
        BY <1>1, <3>1, OwedTwo DEF Call
      <4>2. QED
        BY <4>1
    <3>2. CASE due'[w] = <<Call(r, "read", w), Call(w, "write", w)>>
      <4>1. /\ Owes(w, 2, x)' <=> x = w
            /\ Owes(w, 1, x)' <=> x = r
        BY <1>1, <3>2, OwedTwo DEF Call
      <4>2. QED
        BY <4>1
    <3>3. QED
      BY <1>1, <1>8, <2>1, <3>1, <3>2, WriteDue
  <2>5. CASE x = w
    <3>1. \A p \in Op, k \in {1, 2} : Owes(p, k, x)' <=> p = w /\ k = i
      BY <1>1, <1>4, <1>5, <2>2, <2>4, <2>5
    <3>2. QED
      BY <1>1, <1>5, <2>1, <2>5, <3>1 DEF Once
  <2>6. CASE x = r
    <3>1. \A p \in Op, k \in {1, 2} : Owes(p, k, x)' <=> p = w /\ k = j
      BY <1>1, <1>4, <2>2, <2>3, <2>4, <2>6
    <3>2. QED
      BY <1>1, <2>1, <2>3, <2>6, <3>1 DEF Once
  <2>7. CASE x # w /\ x # r
    <3>1. \A p \in Op, k \in {1, 2} : Owes(p, k, x)' <=> Owes(p, k, x)
      BY <1>3, <1>4, <2>4, <2>7
    <3>2. QED
      BY <1>1, <2>1, <2>7, <3>1 DEF Once
  <2>8. QED
    BY <2>5, <2>6, <2>7
<1>9. QED
  BY <1>6, <1>7, <1>8

LEMMA ReadOnce ==
  ASSUME Counted, NEW r \in Read, ReadBody(r), NEW x \in Op
  PROVE  Once(x)'
<1>1. /\ r \in Op /\ r \notin Accepted /\ Accepted' = Accepted \cup {r} /\ UNCHANGED called
      /\ Once(x) /\ Once(r) /\ Inv /\ TypeOK
  BY ReadSets DEF Counted, Shape
<1>2. due[r] = <<>> /\ \A p \in Op : p # r => due'[p] = due[p]
  BY <1>1, ReadDue DEF Counted, Shape, ReadBody
<1>3. \A i \in {1, 2} : ~ Owes(r, i, x)
  BY <1>1, <1>2, OwedNone
<1>4. \A p \in Op, i \in {1, 2} : p # r => (Owes(p, i, x)' <=> Owes(p, i, x))
  BY <1>1, <1>2, SameOwed
<1>5. /\ called[r] = 0 /\ r \notin Waiting
      /\ \A p \in Op, i \in {1, 2} : ~ Owes(p, i, r)
  BY <1>1, Fresh
<1>6. CASE messages = <<>> /\ writers = <<>>
  <2>1. Waiting' = Waiting \cup {r} /\ due' = due
    BY <1>1, <1>6, ReadSets, ReadDue
  <2>2. \A p \in Op, i \in {1, 2} : Owes(p, i, x)' <=> Owes(p, i, x)
    BY <2>1 DEF Owes
  <2>3. CASE x = r
    BY <1>1, <1>5, <2>1, <2>2, <2>3 DEF Once
  <2>4. CASE x # r
    BY <1>1, <2>1, <2>2, <2>4 DEF Once
  <2>5. QED
    BY <2>3, <2>4
<1>7. CASE messages # <<>> /\ writers = <<>>
  <2>1. Waiting' = Waiting
    BY <1>7, ReadSets
  <2>2. due'[r] = <<Call(r, "read", Received(messages, writers))>>
    BY <1>1, <1>7, ReadDue
  <2>3. \A i \in {1, 2} : Owes(r, i, x)' <=> i = 1 /\ r = x
    BY <1>1, <2>2, OwedOne DEF Call
  <2>4. CASE x = r
    BY <1>1, <1>4, <1>5, <2>1, <2>3, <2>4 DEF Once
  <2>5. CASE x # r
    BY <1>1, <1>3, <1>4, <2>1, <2>3, <2>5 DEF Once
  <2>6. QED
    BY <2>4, <2>5
<1>8. CASE writers # <<>>
  <2>1. PICK w \in Waiting \cap Write : w = Head(writers) /\ Waiting' = Waiting \ {w}
    BY <1>8, ReadSets
  <2>2. w \in Op /\ r # w /\ Once(w)
    BY <2>1, ChannelAssumption DEF Op, Counted
  <2>3. /\ called[w] = 0 /\ w \in Accepted
        /\ \A p \in Op, i \in {1, 2} : ~ Owes(p, i, w)
    BY <2>1, <2>2 DEF Once
  <2>4. /\ Owes(r, 1, x)' <=> x = r
        /\ Owes(r, 2, x)' <=> x = w
    <3>1. PICK m : due'[r] = <<Call(r, "read", m), Call(w, "write", m)>>
      BY <1>1, <1>8, <2>1, ReadDue
    <3>2. QED
      BY <1>1, <3>1, OwedTwo DEF Call
  <2>5. CASE x = r
    <3>1. \A p \in Op, k \in {1, 2} : Owes(p, k, x)' <=> p = r /\ k = 1
      BY <1>1, <1>4, <1>5, <2>2, <2>4, <2>5
    <3>2. QED
      BY <1>1, <1>5, <2>1, <2>5, <3>1 DEF Once
  <2>6. CASE x = w
    <3>1. \A p \in Op, k \in {1, 2} : Owes(p, k, x)' <=> p = r /\ k = 2
      BY <1>1, <1>4, <2>2, <2>3, <2>4, <2>6
    <3>2. QED
      BY <1>1, <2>1, <2>3, <2>6, <3>1 DEF Once
  <2>7. CASE x # w /\ x # r
    <3>1. \A p \in Op, k \in {1, 2} : Owes(p, k, x)' <=> Owes(p, k, x)
      BY <1>3, <1>4, <2>4, <2>7
    <3>2. QED
      BY <1>1, <2>1, <2>7, <3>1 DEF Once
  <2>8. QED
    BY <2>5, <2>6, <2>7
<1>9. QED
  BY <1>6, <1>7, <1>8

\* close calls back everybody who waits, and nobody waits after it.
LEMMA CloseOnce ==
  ASSUME Counted, Close, NEW x \in Op
  PROVE  Once(x)'
<1>1. /\ Once(x) /\ UNCHANGED <<pc, due>>
      /\ called'[x] = IF x \in Waiting THEN called[x] + 1 ELSE called[x]
  BY DEF Counted, Close, Waiting
<1>2. Accepted' = Accepted /\ Waiting' = {}
  BY <1>1 DEF Close, Accepted, Waiting, Range
<1>3. \A p \in Op, i \in {1, 2} : Owes(p, i, x)' <=> Owes(p, i, x)
  BY <1>1 DEF Owes
<1>4. QED
  BY <1>1, <1>2, <1>3 DEF Once

LEMMA StepOnce ==
  ASSUME Counted, [Next]_vars, NEW x \in Op
  PROVE  Once(x)'
<1>0. ASSUME UNCHANGED <<queues, due, called>>, Accepted' = Accepted PROVE Once(x)'
  BY <1>0 DEF queues, Waiting, Once, Owes, Counted
<1>1. ASSUME NEW o \in Op, Enter(o) \/ Check(o) \/ Return(o) PROVE Once(x)'
  <2>1. Accepted' = Accepted
    BY <1>1 DEF Enter, Check, Return, Goto, Accepted, Counted, Shape, TypeOK
  <2>2. QED
    BY <1>0, <1>1, <2>1 DEF Enter, Check, Return
<1>2. ASSUME NEW r \in Read, Decode(r) PROVE Once(x)'
  BY <1>0, <1>2 DEF Decode, Accepted
<1>3. CASE UNCHANGED vars
  BY <1>0, <1>3 DEF vars, Accepted
<1>4. QED
  BY <1>1, <1>2, <1>3, InvokeOnce, WriteOnce, ReadOnce, CloseOnce DEF Next, Step

\* A critical section leaves lists of callbacks.
LEMMA BodyShape ==
  ASSUME Counted, NEW o \in Op, (o \in Write /\ WriteBody(o)) \/ (o \in Read /\ ReadBody(o))
  PROVE  Shape'
<1>1. Inv /\ TypeOK /\ Inv'
  BY StepInv DEF Counted, Shape, Next, Step
<1>2. pc' \in [Op -> Phase] /\ pc'[o] \in {"calling", "blocked"} /\ \A p \in Op : p # o => pc'[p] = pc[p]
  BY <1>1 DEF TypeOK, WriteBody, ReadBody, AfterWrite, Goto, Phase
<1>3. /\ \A p \in Op : p # o => due'[p] = due[p]
      /\ due'[o] = <<>> \/ (\E a \in Callback : due'[o] = <<a>>)
           \/ \E a, b \in Callback : due'[o] = <<a, b>>
  <2>1. CASE o \in Write /\ WriteBody(o)
    <3>1. Call(o, "write", o) \in Callback
      BY <2>1 DEF Call, Callback, Op
    <3>2. readers # <<>> => Call(Head(readers), "read", o) \in Callback
      BY <1>1, <2>1 DEF Call, Callback, Op, TypeOK
    <3>3. QED
      BY <1>1, <2>1, <3>1, <3>2, WriteDue
  <2>2. CASE o \in Read /\ ReadBody(o)
    <3>1. CASE messages = <<>> /\ writers = <<>>
      BY <1>1, <2>2, <3>1, ReadDue DEF Counted, Shape, ReadBody
    <3>2. CASE messages # <<>> \/ writers # <<>>
      <4>1. PICK m \in Write : m = Received(messages, writers)
        BY <1>1, <3>2 DEF Received, TypeOK
      <4>2. Call(o, "read", m) \in Callback
        BY <2>2 DEF Call, Callback, Op
      <4>3. writers # <<>> => Call(Head(writers), "write", m) \in Callback
        BY <1>1 DEF Call, Callback, Op, TypeOK
      <4>4. QED
        BY <1>1, <2>2, <3>2, <4>1, <4>2, <4>3, ReadDue
    <3>3. QED
      BY <3>1, <3>2
  <2>3. QED
    BY <2>1, <2>2
<1>4. due'[o] \in Seq(Callback) /\ Len(due'[o]) =< 2
  <2>1. \A a, b \in Callback :
          /\ <<>> \in Seq(Callback) /\ Len(<<>>) =< 2
          /\ <<a>> \in Seq(Callback) /\ Len(<<a>>) =< 2
          /\ <<a, b>> \in Seq(Callback) /\ Len(<<a, b>>) =< 2
    OBVIOUS
  <2>2. CASE due'[o] = <<>>
    BY <2>1, <2>2
  <2>3. ASSUME NEW a \in Callback, due'[o] = <<a>> PROVE due'[o] \in Seq(Callback) /\ Len(due'[o]) =< 2
    BY <2>1, <2>3
  <2>4. ASSUME NEW a \in Callback, NEW b \in Callback, due'[o] = <<a, b>>
        PROVE  due'[o] \in Seq(Callback) /\ Len(due'[o]) =< 2
    BY <2>1, <2>4
  <2>5. QED
    BY <1>3, <2>2, <2>3, <2>4
<1>5. due' \in [Op -> Seq(Callback)]
  <2>1. \E f : due' = [due EXCEPT ![o] = f]
    BY <1>1 DEF WriteBody, ReadBody, Serve, TypeOK
  <2>2. QED
    BY <1>1, <1>4, <2>1 DEF TypeOK
<1>6. /\ IsInjective(readers') /\ IsInjective(writers')
      /\ UNCHANGED <<status, buf_size, called, cleared, freed, decoded, fault>>
  BY WriteSets, ReadSets DEF WriteBody, ReadBody
<1>7. TypeOK'
  BY <1>1, <1>2, <1>5, <1>6 DEF TypeOK, Inv, QueuesOK
<1>8. QED
  BY <1>2, <1>3, <1>4, <1>6, <1>7 DEF Shape, Counted

LEMMA StepShape ==
  ASSUME Counted, [Next]_vars
  PROVE  Shape'
<1>1. Shape /\ TypeOK /\ Inv
  BY DEF Counted, Shape
<1>2. ASSUME NEW o \in Op, Enter(o) \/ Check(o) \/ Return(o) PROVE Shape'
  BY <1>1, <1>2 DEF Enter, Check, Return, Goto, Shape, TypeOK, Phase, queues
<1>3. ASSUME NEW o \in Op, Invoke(o) PROVE Shape'
  <2>1. /\ due[o] \in Seq(Callback) /\ due[o] # <<>> /\ Len(due[o]) \in Nat /\ Len(due[o]) =< 2
        /\ pc[o] \in {"calling", "blocked"}
    BY <1>1, <1>3 DEF Shape, TypeOK, Invoke
  <2>2. PICK c \in Callback : c = Head(due[o])
    BY <2>1
  <2>3. Tail(due[o]) \in Seq(Callback) /\ Len(Tail(due[o])) =< 2
    BY <2>1, HeadTailProperties
  <2>4. /\ due' = [due EXCEPT ![o] = Tail(due[o])]
        /\ called' = [called EXCEPT ![c.to] = @ + 1]
        /\ fault' \in {"frame", "message", fault}
        /\ freed' \in {freed, freed \cup {c.msg}}
        /\ decoded' = IF c.to \in Host \cap Read THEN decoded \cup {c.to} ELSE decoded
        /\ UNCHANGED <<status, buf_size, queues, pc, got, cleared>>
    BY <1>3, <2>2 DEF Invoke
  <2>5. c.to \in Op /\ c.msg \in Write
    BY <2>2 DEF Callback
  <2>6. TypeOK'
    <3>1. due' \in [Op -> Seq(Callback)] /\ called' \in [Op -> Nat]
      BY <1>1, <2>3, <2>4, <2>5 DEF TypeOK
    <3>2. fault' \in {"none", "frame", "message"} /\ freed' \subseteq Write /\ decoded' \subseteq Read
      BY <1>1, <2>4, <2>5 DEF TypeOK
    <3>3. QED
      BY <1>1, <2>4, <3>1, <3>2 DEF TypeOK, queues
  <2>7. QED
    BY <1>1, <2>1, <2>3, <2>4, <2>6 DEF Shape, queues, TypeOK
<1>4. ASSUME NEW r \in Read, Decode(r) PROVE Shape'
  BY <1>1, <1>4 DEF Decode, Shape, TypeOK, queues
<1>5. CASE Close
  <2>1. Range(messages) \subseteq Write /\ Range(writers) \subseteq Write
    BY <1>1 DEF TypeOK, Range
  <2>2. called' \in [Op -> Nat]
    BY <1>1, <1>5 DEF Close, TypeOK
  <2>3. TypeOK'
    BY <1>1, <1>5, <2>1, <2>2 DEF Close, TypeOK
  <2>4. QED
    BY <1>1, <1>5, <2>3 DEF Close, Shape, IsInjective
<1>6. CASE UNCHANGED vars
  BY <1>1, <1>6 DEF vars, queues, Shape, TypeOK
<1>7. QED
  BY <1>2, <1>3, <1>4, <1>5, <1>6, BodyShape DEF Next, Step, Op

LEMMA InitCounted == Init => Counted
<1> SUFFICES ASSUME Init PROVE Counted
  OBVIOUS
<1>1. Inv
  BY InitInv
<1>2. Shape
  BY DEF Init, Shape, TypeOK, Phase, IsInjective
<1>3. ASSUME NEW o \in Op PROVE Once(o)
  BY <1>3 DEF Init, Once, Accepted, Waiting, Owes, Range
<1>4. QED
  BY <1>1, <1>2, <1>3 DEF Counted

LEMMA CountedInvariance == Spec => []Counted
<1>1. Counted /\ [Next]_vars => Counted'
  BY StepInv, StepShape, StepOnce DEF Counted
<1>2. QED
  BY <1>1, InitCounted, PTL DEF Spec

\* The state of a channel is what the declarations of lc_channel.h say.
THEOREM TypeCorrect == Spec => []TypeOK
<1>1. Counted => TypeOK
  BY DEF Counted, Shape
<1>2. QED
  BY <1>1, CountedInvariance, PTL

\* Whoever calls read or write is called back exactly once: by the thread whose
\* critical section served it, by itself, or by close; and nobody else is.
THEOREM CallbacksExact == Spec => []CalledBackOnce
<1>1. ASSUME Counted, NEW o \in Op
      PROVE  called[o] + Cardinality(Owed(o)) + (IF o \in Waiting THEN 1 ELSE 0)
               = IF o \in Accepted THEN 1 ELSE 0
  <2>1. Once(o)
    BY <1>1 DEF Counted
  <2>2. \A p \in Op, i \in 1..3 : <<p, i>> \in Owed(o) <=> i \in {1, 2} /\ Owes(p, i, o)
    BY <1>1 DEF Counted, Shape, TypeOK, Owed, Owes
  <2>3. Owed(o) \subseteq Op \X (1..3)
    BY DEF Owed
  <2>4. CASE \A p \in Op, i \in {1, 2} : ~ Owes(p, i, o)
    <3>1. Owed(o) = {}
      <4>1. ASSUME NEW z \in Owed(o) PROVE FALSE
        <5>1. PICK p \in Op, i \in 1..3 : z = <<p, i>>
          BY <2>3, <4>1
        <5>2. QED
          BY <2>2, <2>4, <4>1, <5>1
      <4>2. QED
        BY <4>1
    <3>2. Cardinality(Owed(o)) = 0
      BY <3>1, FS_EmptySet
    <3>3. QED
      BY <2>1, <2>4, <3>2 DEF Once
  <2>5. CASE \E p \in Op, i \in {1, 2} : Owes(p, i, o)
    <3>1. PICK p \in Op, i \in {1, 2} : Owes(p, i, o)
      BY <2>5
    <3>2. \A q \in Op, j \in {1, 2} : Owes(q, j, o) => q = p /\ j = i
      BY <2>1, <3>1 DEF Once
    <3>3. Owed(o) = {<<p, i>>}
      <4>0. i \in 1..3
        OBVIOUS
      <4>1. <<p, i>> \in Owed(o)
        BY <2>2, <3>1, <4>0
      <4>2. ASSUME NEW z \in Owed(o) PROVE z = <<p, i>>
        <5>1. PICK q \in Op, j \in 1..3 : z = <<q, j>>
          BY <2>3, <4>2
        <5>2. j \in {1, 2} /\ Owes(q, j, o)
          BY <2>2, <4>2, <5>1
        <5>3. QED
          BY <3>2, <5>1, <5>2
      <4>3. QED
        BY <4>1, <4>2
    <3>4. Cardinality(Owed(o)) = 1
      BY <3>3, FS_Singleton
    <3>5. o \in Accepted /\ o \notin Waiting /\ called[o] = 0
      BY <2>1, <3>1 DEF Once
    <3>6. QED
      BY <3>4, <3>5
  <2>6. QED
    BY <2>4, <2>5
<1>2. Counted => CalledBackOnce
  BY <1>1 DEF CalledBackOnce
<1>3. QED
  BY <1>2, CountedInvariance, PTL

-----------------------------------------------------------------------------
(* Callbacks find their frames, and their messages. *)

\* What a step adds to the lists of callbacks.
LEMMA InvokeOwes ==
  ASSUME Counted, NEW o \in Op, Invoke(o)
  PROVE  /\ \E c \in Callback : c = Head(due[o]) /\ c = due[o][1] /\ Owes(o, 1, c.to) /\ c.to \in Op
         /\ \A p \in Op, i \in {1, 2} : i \in DOMAIN due'[p] =>
              \E j \in {1, 2} : j \in DOMAIN due[p] /\ due'[p][i] = due[p][j]
<1>1. /\ due[o] \in Seq(Callback) /\ due[o] # <<>> /\ Len(due[o]) =< 2
      /\ due' = [due EXCEPT ![o] = Tail(due[o])] /\ due \in [Op -> Seq(Callback)]
      /\ \A p \in Op : Len(due[p]) =< 2
  BY DEF Counted, Shape, TypeOK, Invoke
<1>2. Len(due[o]) \in Nat \ {0} /\ DOMAIN due[o] = 1..Len(due[o])
  BY <1>1, EmptySeq, LenProperties
<1>3. /\ Tail(due[o]) \in Seq(Callback) /\ Len(Tail(due[o])) = Len(due[o]) - 1
      /\ \A i \in 1..Len(Tail(due[o])) : Tail(due[o])[i] = due[o][i + 1]
  BY <1>1, HeadTailProperties
<1>4. \E c \in Callback : c = Head(due[o]) /\ c = due[o][1] /\ Owes(o, 1, c.to) /\ c.to \in Op
  <2>1. due[o][1] \in Callback /\ Head(due[o]) = due[o][1] /\ 1 \in DOMAIN due[o]
    BY <1>1, <1>2, ElementOfSeq
  <2>2. QED
    BY <2>1 DEF Owes, Callback
<1>5. ASSUME NEW p \in Op, NEW i \in {1, 2}, i \in DOMAIN due'[p]
      PROVE  \E j \in {1, 2} : j \in DOMAIN due[p] /\ due'[p][i] = due[p][j]
  <2>1. CASE p = o
    <3>1. DOMAIN Tail(due[o]) = 1..(Len(due[o]) - 1)
      BY <1>3, LenProperties
    <3>2. due'[p] = Tail(due[o])
      BY <1>1, <2>1
    <3>3. i = 1 /\ 2 \in DOMAIN due[o]
      BY <1>1, <1>2, <1>5, <2>1, <3>1, <3>2
    <3>4. due'[p][i] = due[o][2]
      BY <1>3, <1>5, <3>1, <3>2, <3>3
    <3>5. QED
      BY <2>1, <3>3, <3>4
  <2>2. CASE p # o
    BY <1>1, <1>5, <2>2
  <2>3. QED
    BY <2>1, <2>2
<1>6. QED
  BY <1>4, <1>5

LEMMA WriteOwes ==
  ASSUME Counted, NEW w \in Write, WriteBody(w)
  PROVE  \A p \in Op, i \in {1, 2} : i \in DOMAIN due'[p] =>
           \/ p # w /\ i \in DOMAIN due[p] /\ due'[p][i] = due[p][i]
           \/ p = w /\ due'[p][i] = Call(w, "write", w)
           \/ p = w /\ readers # <<>> /\ due'[p][i] = Call(Head(readers), "read", w)
<1>1. Inv /\ TypeOK
  BY DEF Counted, Shape
<1>2. ASSUME NEW i \in {1, 2}, i \in DOMAIN due'[w]
      PROVE  \/ due'[w][i] = Call(w, "write", w)
             \/ readers # <<>> /\ due'[w][i] = Call(Head(readers), "read", w)
  <2>1. CASE readers = <<>> /\ Room
    BY <1>1, <1>2, <2>1, WriteDue
  <2>2. CASE readers = <<>> /\ ~ Room
    BY <1>1, <1>2, <2>2, WriteDue
  <2>3. CASE readers # <<>>
    BY <1>1, <1>2, <2>3, WriteDue
  <2>4. QED
    BY <2>1, <2>2, <2>3
<1>3. \A p \in Op : p # w => due'[p] = due[p]
  BY <1>1, WriteDue
<1>4. QED
  BY <1>2, <1>3

LEMMA ReadOwes ==
  ASSUME Counted, NEW r \in Read, ReadBody(r)
  PROVE  \A p \in Op, i \in {1, 2} : i \in DOMAIN due'[p] =>
           \/ p # r /\ i \in DOMAIN due[p] /\ due'[p][i] = due[p][i]
           \/ p = r /\ (messages # <<>> \/ writers # <<>>)
                    /\ due'[p][i] = Call(r, "read", Received(messages, writers))
           \/ p = r /\ writers # <<>>
                    /\ due'[p][i] = Call(Head(writers), "write", Received(messages, writers))
<1>1. TypeOK /\ due[r] = <<>>
  BY DEF Counted, Shape, ReadBody, Op
<1>2. ASSUME NEW i \in {1, 2}, i \in DOMAIN due'[r]
      PROVE  \/ /\ messages # <<>> \/ writers # <<>>
                /\ due'[r][i] = Call(r, "read", Received(messages, writers))
             \/ /\ writers # <<>>
                /\ due'[r][i] = Call(Head(writers), "write", Received(messages, writers))
  <2>1. CASE messages = <<>> /\ writers = <<>>
    BY <1>1, <1>2, <2>1, ReadDue
  <2>2. CASE messages # <<>> /\ writers = <<>>
    BY <1>1, <1>2, <2>2, ReadDue
  <2>3. CASE writers # <<>>
    BY <1>1, <1>2, <2>3, ReadDue
  <2>4. QED
    BY <2>1, <2>2, <2>3
<1>3. \A p \in Op : p # r => due'[p] = due[p]
  BY <1>1, ReadDue
<1>4. QED
  BY <1>2, <1>3

\* As long as o is to be called back, its frame exists.
LEMMA FrameThere ==
  ASSUME Counted, NEW o \in Op, o \in Host => Framed(o),
         o \in Waiting \/ \E p \in Op, i \in {1, 2} : Owes(p, i, o)
  PROVE  ~ FrameGone(o)
  BY DEF FrameGone, Framed, Owes, Counted, Shape

FramesSafe == Counted /\ fault # "frame" /\ \A o \in Op \cap Host : Framed(o)

\* Provided reads are made by tasks, whose callbacks need no frame.
LEMMA StepFrames ==
  ASSUME Read \cap Host = {}, FramesSafe, [Next]_vars
  PROVE  fault' # "frame" /\ \A x \in Op \cap Host : Framed(x)'
<1>a. Counted /\ fault # "frame" /\ \A x \in Op \cap Host : Framed(x)
  BY DEF FramesSafe
<1>0. ASSUME UNCHANGED <<pc, queues, due>>, fault' # "frame"
      PROVE  fault' # "frame" /\ \A x \in Op \cap Host : Framed(x)'
  BY <1>a, <1>0 DEF Framed, Waiting, Owes, queues
<1>1. ASSUME NEW o \in Op, Enter(o) \/ Check(o) \/ Return(o)
      PROVE  fault' # "frame" /\ \A x \in Op \cap Host : Framed(x)'
  <2>0. fault' # "frame"
    BY <1>a, <1>1 DEF Enter, Check, Return
  <2> SUFFICES ASSUME NEW x \in Op \cap Host PROVE Framed(x)'
    BY <2>0
  <2>1. /\ UNCHANGED <<due, fault, readers, writers>> /\ \A p \in Op : p # o => pc'[p] = pc[p]
    BY <1>a, <1>1 DEF Enter, Check, Return, Goto, queues, Counted, Shape, TypeOK
  <2>2. Waiting' = Waiting /\ \A p \in Op, i \in {1, 2} : Owes(p, i, x)' <=> Owes(p, i, x)
    BY <2>1 DEF Waiting, Owes
  <2>3. CASE x # o
    BY <1>a, <2>1, <2>2, <2>3 DEF Framed
  <2>4. CASE x = o
    <3>1. x \notin Waiting /\ \A p \in Op, i \in {1, 2} : ~ Owes(p, i, x)
      <4>1. CASE Enter(o) \/ Check(o)
        <5>1. o \notin Accepted
          BY <4>1 DEF Enter, Check, Accepted
        <5>2. QED
          BY <1>a, <2>4, <5>1, Fresh
      <4>2. CASE Return(o) /\ pc[o] = "blocked"
        BY <1>a, <2>4, <4>2 DEF Return, Counted, Once, Shape, TypeOK
      <4>3. CASE Return(o) /\ pc[o] = "calling"
        BY <1>a, <2>4, <4>3 DEF Return, Framed, Owes
      <4>4. QED
        BY <1>1, <4>1, <4>2, <4>3 DEF Return
    <3>2. QED
      BY <1>a, <2>1, <2>2, <3>1 DEF Framed
  <2>5. QED
    BY <2>3, <2>4
<1>2. ASSUME NEW o \in Op, Invoke(o)
      PROVE  fault' # "frame" /\ \A x \in Op \cap Host : Framed(x)'
  <2>1. PICK c \in Callback : c = Head(due[o]) /\ Owes(o, 1, c.to) /\ c.to \in Op
    BY <1>a, <1>2, InvokeOwes
  <2>2. ~ FrameGone(c.to)
    BY <1>a, <2>1, FrameThere
  <2>3. fault' # "frame"
    BY <1>a, <1>2, <2>1, <2>2 DEF Invoke
  <2>4. UNCHANGED <<pc, queues>>
    BY <1>2 DEF Invoke
  <2>5. ASSUME NEW x \in Op, NEW p \in Op, NEW i \in {1, 2}, Owes(p, i, x)'
        PROVE  \E j \in {1, 2} : Owes(p, j, x)
    BY <1>a, <1>2, <2>5, InvokeOwes DEF Owes
  <2>6. QED
    BY <1>a, <2>3, <2>4, <2>5 DEF Framed, Waiting, queues
<1>3. ASSUME NEW w \in Write, WriteBody(w)
      PROVE  fault' # "frame" /\ \A x \in Op \cap Host : Framed(x)'
  <2>0. fault' # "frame"
    BY <1>a, <1>3 DEF WriteBody
  <2> SUFFICES ASSUME NEW x \in Op \cap Host PROVE Framed(x)'
    BY <2>0
  <2>1. UNCHANGED fault /\ w \in Op /\ x \in Write /\ w \notin Waiting
    BY <1>a, <1>3, WriteSets, Fresh DEF WriteBody, Op
  <2>2. \A p \in Op, i \in {1, 2} : Owes(p, i, x)' => Owes(p, i, x) \/ (p = w /\ x = w)
    <3>1. readers # <<>> => Head(readers) \in Read
      BY <1>a, <1>3, WriteSets
    <3>2. ASSUME NEW p \in Op, NEW i \in {1, 2}, Owes(p, i, x)'
          PROVE  Owes(p, i, x) \/ (p = w /\ x = w)
      <4>1. i \in DOMAIN due'[p] /\ due'[p][i].to = x
        BY <3>2 DEF Owes
      <4>2. Call(w, "write", w).to = w /\ Call(Head(readers), "read", w).to = Head(readers)
        BY DEF Call
      <4>3. x # Head(readers) \/ readers = <<>>
        BY <2>1, <3>1, ChannelAssumption
      <4>4. CASE p # w /\ i \in DOMAIN due[p] /\ due'[p][i] = due[p][i]
        BY <4>1, <4>4 DEF Owes
      <4>5. QED
        BY <1>a, <1>3, <4>1, <4>2, <4>3, <4>4, WriteOwes
    <3>3. QED
      BY <3>2
  <2>3. pc' = [pc EXCEPT ![w] = IF w \in Host /\ ~ Room THEN "blocked" ELSE "calling"]
    BY <1>3 DEF WriteBody, AfterWrite, Goto
  <2>4. pc \in [Op -> Phase]
    BY <1>a DEF Counted, Shape, TypeOK
  <2>5. CASE x = w
    <3>1. \A p \in Op, i \in {1, 2} : ~ Owes(p, i, x)
      BY <1>a, <1>3, <2>1, <2>5, WriteSets, Fresh
    <3>2. x \in Waiting' => ~ Room
      BY <1>a, <1>3, <2>1, <2>5, WriteSets
    <3>3. QED
      BY <1>a, <2>1, <2>2, <2>3, <2>4, <2>5, <3>1, <3>2 DEF Framed
  <2>6. CASE x # w
    <3>1. x \in Waiting' => x \in Waiting
      BY <1>a, <1>3, <2>6, WriteSets
    <3>2. QED
      BY <1>a, <2>1, <2>2, <2>3, <2>4, <2>6, <3>1 DEF Framed
  <2>7. QED
    BY <2>5, <2>6
<1>4. ASSUME NEW r \in Read, ReadBody(r)
      PROVE  fault' # "frame" /\ \A x \in Op \cap Host : Framed(x)'
  <2>0. fault' # "frame"
    BY <1>a, <1>4 DEF ReadBody
  <2> SUFFICES ASSUME NEW x \in Op \cap Host PROVE Framed(x)'
    BY <2>0
  <2>1. UNCHANGED fault /\ r \in Op /\ x # r
    BY <1>4 DEF ReadBody, Op
  <2>2. \A p \in Op, i \in {1, 2} : Owes(p, i, x)' => Owes(p, i, x) \/ x \in Waiting
    <3>1. writers # <<>> => Head(writers) \in Waiting
      BY <1>a, <1>4, ReadSets
    <3>2. ASSUME NEW p \in Op, NEW i \in {1, 2}, Owes(p, i, x)'
          PROVE  Owes(p, i, x) \/ x \in Waiting
      <4>1. i \in DOMAIN due'[p] /\ due'[p][i].to = x
        BY <3>2 DEF Owes
      <4>2. \A m : Call(r, "read", m).to = r /\ Call(Head(writers), "write", m).to = Head(writers)
        BY DEF Call
      <4>3. CASE p # r /\ i \in DOMAIN due[p] /\ due'[p][i] = due[p][i]
        BY <4>1, <4>3 DEF Owes
      <4>4. QED
        BY <1>a, <1>4, <2>1, <3>1, <4>1, <4>2, <4>3, ReadOwes
    <3>3. QED
      BY <3>2
  <2>3. pc'[x] = pc[x]
    BY <1>a, <1>4, <2>1 DEF ReadBody, Goto, Counted, Shape, TypeOK
  <2>4. x \in Waiting' => x \in Waiting
    BY <1>a, <1>4, <2>1, ReadSets
  <2>5. QED
    BY <1>a, <2>1, <2>2, <2>3, <2>4 DEF Framed
<1>5. ASSUME Close PROVE fault' # "frame" /\ \A x \in Op \cap Host : Framed(x)'
  <2>1. UNCHANGED <<pc, due>> /\ fault' = IF \E o \in Waiting : FrameGone(o) THEN "frame" ELSE fault
    BY <1>5 DEF Close, Waiting
  <2>2. \A o \in Waiting : o \in Op
    BY <1>a DEF Waiting, Range, Counted, Shape, TypeOK, Op
  <2>3. fault' # "frame"
    BY <1>a, <2>1, <2>2, FrameThere
  <2>4. Waiting' = {}
    BY <1>5 DEF Close, Waiting, Range
  <2>5. QED
    BY <1>a, <2>1, <2>3, <2>4 DEF Framed, Owes
<1>6. ASSUME NEW r \in Read, Decode(r)
      PROVE  fault' # "frame" /\ \A x \in Op \cap Host : Framed(x)'
  BY <1>a, <1>0, <1>6 DEF Decode
<1>7. CASE UNCHANGED vars
  BY <1>a, <1>0, <1>7 DEF vars
<1>8. QED
  BY <1>1, <1>2, <1>3, <1>4, <1>5, <1>6, <1>7 DEF Next, Step

\* If no thread of the host program reads, whatever threads write, the callback
\* of a write finds the frame of the write: luac_write does not return before.
THEOREM FramesSafety ==
  ASSUME Read \cap Host = {}
  PROVE  Spec => []FramesLive
<1>1. Init => FramesSafe
  BY InitCounted DEF Init, FramesSafe, Framed, Waiting, Owes, Range
<1>2. FramesSafe /\ [Next]_vars => FramesSafe'
  BY StepFrames, StepInv, StepShape, StepOnce DEF FramesSafe, Counted
<1>3. FramesSafe => FramesLive
  BY DEF FramesSafe, FramesLive
<1>4. QED
  BY <1>1, <1>2, <1>3, PTL DEF Spec

KeptSafe == Counted /\ Kept /\ fault # "message"

\* The message a read receives leaves the queues for it, and no other read has it.
LEMMA Taken ==
  ASSUME Counted, Kept, messages # <<>> \/ writers # <<>>,
         messages' = Popped(messages), writers' = Popped(writers)
  PROVE  LET m == Received(messages, writers) IN
           /\ m \in Write /\ m \in Accepted /\ m \notin freed
           /\ \A r \in Read : got[r] # m
           /\ IsInjective(messages')
           /\ Range(messages') \subseteq Range(messages) \ {m}
           /\ Range(writers') \subseteq Range(writers) \ {m}
<1> DEFINE m == Received(messages, writers)
<1>1. messages \in Seq(Write) /\ writers \in Seq(Write) /\ IsInjective(messages) /\ IsInjective(writers)
  BY DEF Counted, Shape, TypeOK, Kept
<1>2. m \in Range(messages) \/ m \in Range(writers)
  BY <1>1, Dropped DEF Received
<1>3. m \in Write
  BY <1>1 DEF Received
<1>4. m \in Accepted
  BY <1>2, <1>3 DEF Kept, Counted, Once, Waiting, Op
<1>5. m \notin freed /\ \A r \in Read : got[r] # m
  BY <1>2, <1>3, ChannelAssumption DEF Kept
<1>6. IsInjective(messages') /\ Range(messages') \subseteq Range(messages)
  BY <1>1, Dropped DEF Popped
<1>7. Range(writers') \subseteq Range(writers)
  BY <1>1, Dropped DEF Popped
<1>8. CASE messages # <<>>
  <2>1. m \in Range(messages) /\ m \notin Range(messages')
    BY <1>1, <1>8, Dropped DEF Popped, Received
  <2>2. QED
    BY <1>3, <1>4, <1>5, <1>6, <1>7, <2>1 DEF Kept
<1>9. CASE messages = <<>> /\ writers # <<>>
  <2>1. m \in Range(writers) /\ m \notin Range(writers')
    BY <1>1, <1>9, Dropped DEF Popped, Received
  <2>2. QED
    BY <1>3, <1>4, <1>5, <1>6, <1>7, <2>1 DEF Kept
<1>10. QED
  BY <1>8, <1>9

\* Provided writes are made by threads of the host program, whose callbacks do
\* not destroy the message.
LEMMA InvokeKept ==
  ASSUME Write \subseteq Host, Counted, Kept, fault # "message", NEW o \in Op, Invoke(o)
  PROVE  Kept' /\ fault' # "message"
<1>1. PICK c \in Callback : c = Head(due[o]) /\ c = due[o][1] /\ Owes(o, 1, c.to) /\ c.to \in Op
  BY InvokeOwes
<1>2. /\ Addressed(c, got) /\ called[c.to] = 0 /\ c.event \in {"read", "write"} /\ c.msg \in Write
  BY <1>1 DEF Kept, Owes, Counted, Once, Callback
<1>3. /\ called' = [called EXCEPT ![c.to] = @ + 1] /\ called \in [Op -> Nat]
      /\ fault' = IF FrameGone(c.to) THEN "frame"
                  ELSE IF Touches(c) /\ c.msg \in freed THEN "message" ELSE fault
      /\ freed' = IF c.to \notin Host /\ c.event = "write" THEN freed \cup {c.msg} ELSE freed
      /\ decoded' = IF c.to \in Host \cap Read THEN decoded \cup {c.to} ELSE decoded
      /\ UNCHANGED <<messages, readers, writers, pc, got>>
  BY <1>1 DEF Invoke, queues, Counted, Shape, TypeOK
<1>4. Touches(c) => c.msg \notin freed
  <2>1. CASE c.event = "write"
    BY <1>2, <2>1 DEF Touches, Addressed
  <2>2. CASE c.event = "read"
    <3>1. c.to \in Read /\ c.msg = got[c.to] /\ c.to \notin decoded
      BY <1>2, <2>2 DEF Addressed, Kept
    <3>2. QED
      BY <1>2, <3>1, ChannelAssumption DEF Kept
  <2>3. QED
    BY <1>2, <2>1, <2>2
<1>5. fault' # "message"
  BY <1>3, <1>4
<1>6. freed' = freed
  BY <1>2, <1>3 DEF Addressed
<1>7. \A r \in decoded' : called'[r] > 0
  <2>1. \A r \in decoded : r \in Op /\ called[r] > 0
    BY DEF Kept, Counted, Shape, TypeOK, Op
  <2>2. QED
    BY <1>1, <1>2, <1>3, <2>1
<1>8. \A p \in Op, i \in {1, 2} : i \in DOMAIN due'[p] => Addressed(due'[p][i], got')
  <2>1. ASSUME NEW p \in Op, NEW i \in {1, 2}, i \in DOMAIN due'[p]
        PROVE  Addressed(due'[p][i], got')
    <3>1. PICK j \in {1, 2} : j \in DOMAIN due[p] /\ due'[p][i] = due[p][j]
      BY <2>1, InvokeOwes
    <3>2. Addressed(due[p][j], got)
      BY <3>1 DEF Kept
    <3>3. QED
      BY <1>3, <3>1, <3>2 DEF Addressed
  <2>2. QED
    BY <2>1
<1>9. Accepted' = Accepted /\ decoded \subseteq decoded'
  BY <1>3 DEF Accepted
<1>10. QED
  BY <1>3, <1>5, <1>6, <1>7, <1>8, <1>9 DEF Kept

LEMMA WriteKept ==
  ASSUME Counted, Kept, NEW w \in Write, WriteBody(w)
  PROVE  Kept'
<1>1. /\ Inv /\ TypeOK /\ IsInjective(writers) /\ IsInjective(readers)
      /\ UNCHANGED <<called, freed, decoded>>
  BY DEF Counted, Shape, WriteBody
<1>2. /\ w \in Op /\ w \notin Accepted /\ Accepted' = Accepted \cup {w} /\ w \notin Waiting
      /\ w \notin Range(messages) /\ w \notin freed /\ w # NoMsg
      /\ \A r \in Read : got[r] # w
  BY WriteSets, Fresh, ChannelAssumption DEF Kept
<1>3. ASSUME UNCHANGED got,
             \A p \in Op, i \in {1, 2} : i \in DOMAIN due'[p] =>
               \/ p # w /\ i \in DOMAIN due[p] /\ due'[p][i] = due[p][i]
               \/ p = w /\ due'[p][i] = Call(w, "write", w)
      PROVE  \A p \in Op, i \in {1, 2} : i \in DOMAIN due'[p] => Addressed(due'[p][i], got')
  <2>1. Addressed(Call(w, "write", w), got')
    BY DEF Addressed, Call
  <2>2. \A p \in Op, i \in {1, 2} : i \in DOMAIN due[p] => Addressed(due[p][i], got')
    BY <1>3 DEF Kept, Addressed
  <2>3. QED
    BY <1>3, <2>1, <2>2
<1>4. CASE /\ readers = <<>> /\ UNCHANGED <<readers, got>> /\ Room
           /\ messages' = Append(messages, w) /\ UNCHANGED writers
  <2>1. Range(messages') = Range(messages) \cup {w} /\ IsInjective(messages')
    BY <1>1, <1>2, <1>4, Pushed DEF TypeOK, Kept
  <2>2. w \notin Range(writers)
    BY <1>2 DEF Waiting
  <2>3. \A p \in Op, i \in {1, 2} : i \in DOMAIN due'[p] => Addressed(due'[p][i], got')
    BY <1>3, <1>4, WriteOwes
  <2>4. QED
    BY <1>1, <1>2, <1>4, <2>1, <2>2, <2>3 DEF Kept
<1>5. CASE /\ readers = <<>> /\ UNCHANGED <<readers, got>> /\ ~ Room
           /\ writers' = Append(writers, w) /\ UNCHANGED messages
  <2>1. Range(writers') = Range(writers) \cup {w}
    BY <1>1, <1>2, <1>5, Pushed DEF TypeOK
  <2>2. \A p \in Op, i \in {1, 2} : i \in DOMAIN due'[p] => Addressed(due'[p][i], got')
    BY <1>3, <1>5, WriteOwes
  <2>3. QED
    BY <1>1, <1>2, <1>5, <2>1, <2>2 DEF Kept
<1>6. CASE /\ readers # <<>> /\ readers' = Tail(readers)
           /\ messages = <<>> /\ writers = <<>> /\ messages' = <<>> /\ writers' = <<>>
           /\ got' = [got EXCEPT ![Head(readers)] = w]
  <2>1. PICK h \in Waiting \cap Read : h = Head(readers)
    BY <1>6, WriteSets
  <2>2. \A p \in Op, i \in {1, 2} : ~ Owes(p, i, h)
    BY <2>1 DEF Counted, Once, Op
  <2>3. got'[h] = w /\ \A r \in Read : r # h => got'[r] = got[r]
    BY <1>1, <1>6, <2>1 DEF TypeOK
  <2>4. \A p \in Op, i \in {1, 2} : i \in DOMAIN due[p] => Addressed(due[p][i], got')
    BY <2>2, <2>3 DEF Kept, Addressed, Owes
  <2>5. Addressed(Call(w, "write", w), got') /\ Addressed(Call(h, "read", w), got')
    BY <2>3 DEF Addressed, Call
  <2>6. \A p \in Op, i \in {1, 2} : i \in DOMAIN due'[p] => Addressed(due'[p][i], got')
    BY <2>1, <2>4, <2>5, WriteOwes
  <2>7. Range(messages') = {} /\ Range(writers') = {} /\ IsInjective(messages')
    BY <1>6 DEF Range, IsInjective
  <2>8. QED
    BY <1>1, <1>2, <2>3, <2>6, <2>7 DEF Kept
<1>7. QED
  BY <1>1, <1>4, <1>5, <1>6, WriteCases

LEMMA ReadKept ==
  ASSUME Counted, Kept, NEW r \in Read, ReadBody(r)
  PROVE  Kept'
<1>1. /\ Inv /\ TypeOK /\ IsInjective(writers) /\ IsInjective(readers)
      /\ UNCHANGED <<called, freed, decoded>> /\ r \in Op
      /\ Accepted \subseteq Accepted'
  BY ReadSets DEF Counted, Shape, ReadBody
<1>2. CASE /\ messages = <<>> /\ writers = <<>> /\ UNCHANGED <<messages, writers, got>>
           /\ readers' = Append(readers, r)
  <2>1. due' = due
    BY <1>1, <1>2, ReadDue
  <2>2. \A p \in Op, i \in {1, 2} : i \in DOMAIN due'[p] => Addressed(due'[p][i], got')
    BY <1>2, <2>1 DEF Kept, Addressed
  <2>3. QED
    BY <1>1, <1>2, <2>2 DEF Kept
<1>3. CASE /\ messages # <<>> \/ writers # <<>>
           /\ messages' = Popped(messages) /\ writers' = Popped(writers)
           /\ got' = [got EXCEPT ![r] = Received(messages, writers)]
  <2>1. PICK m \in Write : m = Received(messages, writers)
    BY <1>3, Taken
  <2>2. /\ m \in Accepted /\ m \notin freed /\ m # NoMsg
        /\ \A s \in Read : got[s] # m
        /\ IsInjective(messages')
        /\ Range(messages') \subseteq Range(messages) \ {m}
        /\ Range(writers') \subseteq Range(writers) \ {m}
    BY <1>3, <2>1, Taken, ChannelAssumption
  <2>3. got'[r] = m /\ \A s \in Read : s # r => got'[s] = got[s]
    BY <1>1, <1>3, <2>1 DEF TypeOK
  <2>4. \A p \in Op, i \in {1, 2} : ~ Owes(p, i, r)
    BY <1>1, Fresh, ReadSets
  <2>5. \A p \in Op, i \in {1, 2} : i \in DOMAIN due[p] => Addressed(due[p][i], got')
    BY <2>3, <2>4 DEF Kept, Addressed, Owes
  <2>6. Addressed(Call(r, "read", m), got')
    BY <2>3 DEF Addressed, Call
  <2>7. writers # <<>> => Addressed(Call(Head(writers), "write", m), got')
    BY <1>1 DEF Addressed, Call, TypeOK
  <2>8. \A p \in Op, i \in {1, 2} : i \in DOMAIN due'[p] => Addressed(due'[p][i], got')
    BY <2>1, <2>5, <2>6, <2>7, ReadOwes
  <2>9. QED
    BY <1>1, <2>2, <2>3, <2>8 DEF Kept
<1>4. QED
  BY <1>1, <1>2, <1>3, ReadCases

LEMMA StepKept ==
  ASSUME Write \subseteq Host, KeptSafe, [Next]_vars
  PROVE  Kept' /\ fault' # "message"
<1>a. Counted /\ Kept /\ fault # "message"
  BY DEF KeptSafe
<1>0. ASSUME UNCHANGED <<queues, due, called, got, freed, decoded>>, Accepted \subseteq Accepted'
      PROVE  Kept'
  BY <1>a, <1>0 DEF Kept, Addressed, queues
<1>1. ASSUME NEW o \in Op, Enter(o) \/ Check(o) \/ Return(o) PROVE Kept' /\ fault' # "message"
  <2>1. Accepted \subseteq Accepted'
    BY <1>a, <1>1 DEF Enter, Check, Return, Goto, Accepted, Counted, Shape, TypeOK
  <2>2. QED
    BY <1>a, <1>0, <1>1, <2>1 DEF Enter, Check, Return
<1>2. ASSUME NEW o \in Op, Invoke(o) PROVE Kept' /\ fault' # "message"
  BY <1>a, <1>2, InvokeKept
<1>3. ASSUME NEW w \in Write, WriteBody(w) PROVE Kept' /\ fault' # "message"
  BY <1>a, <1>3, WriteKept DEF WriteBody
<1>4. ASSUME NEW r \in Read, ReadBody(r) PROVE Kept' /\ fault' # "message"
  BY <1>a, <1>4, ReadKept DEF ReadBody
<1>5. ASSUME NEW r \in Read, Decode(r) PROVE Kept' /\ fault' # "message"
  <2>1. /\ called[r] > 0 /\ got[r] # NoMsg /\ r \notin decoded
        /\ decoded' = decoded \cup {r} /\ freed' = freed \cup {got[r]}
        /\ fault' = IF got[r] \in freed THEN "message" ELSE fault
        /\ UNCHANGED <<messages, writers, pc, due, called, got>>
    BY <1>5 DEF Decode, queues
  <2>2. got[r] \notin freed /\ got[r] \in Accepted /\ got[r] \notin Range(messages) \cup Range(writers)
    BY <1>a, <2>1 DEF Kept
  <2>3. Accepted' = Accepted
    BY <2>1 DEF Accepted
  <2>4. QED
    BY <1>a, <2>1, <2>2, <2>3 DEF Kept, Addressed
<1>6. ASSUME Close PROVE Kept' /\ fault' # "message"
  <2>1. /\ freed' = freed \cup Range(messages) /\ messages' = <<>> /\ writers' = <<>>
        /\ UNCHANGED <<pc, due, got, decoded>>
        /\ fault' \in {"frame", fault}
    BY <1>6 DEF Close
  <2>2. Range(messages') = {} /\ Range(writers') = {} /\ IsInjective(messages') /\ Accepted' = Accepted
    BY <2>1 DEF Range, IsInjective, Accepted
  <2>3. \A r \in decoded : called'[r] > 0
    BY <1>a, <1>6 DEF Close, Kept, Counted, Shape, TypeOK, Op
  <2>4. QED
    BY <1>a, <2>1, <2>2, <2>3 DEF Kept, Addressed
<1>7. CASE UNCHANGED vars
  BY <1>a, <1>0, <1>7 DEF vars, Accepted
<1>8. QED
  BY <1>1, <1>2, <1>3, <1>4, <1>5, <1>6, <1>7 DEF Next, Step

\* If all writes are made by threads of the host program, whoever reads, no
\* message is decoded or destroyed after it was destroyed: each read has a
\* message of its own, and close destroys those nobody has received.
THEOREM MessagesSafety ==
  ASSUME Write \subseteq Host
  PROVE  Spec => []MessagesLive
<1>1. Init => KeptSafe
  BY InitCounted DEF Init, KeptSafe, Kept, Range, IsInjective
<1>2. KeptSafe /\ [Next]_vars => KeptSafe'
  BY StepKept, StepInv, StepShape, StepOnce DEF KeptSafe, Counted
<1>3. KeptSafe => MessagesLive
  BY DEF KeptSafe, MessagesLive
<1>4. QED
  BY <1>1, <1>2, <1>3, PTL DEF Spec

-----------------------------------------------------------------------------
(* A channel that uses one of its queues only. *)

\* A read that has not been served has no message that being served could
\* overwrite.
Unserved(r) == (r \notin Accepted \/ r \in Waiting) => got[r] = NoMsg

Unlost == Counted /\ (\A r \in Read : Unserved(r)) /\ (SingleQueue => NothingLost)

\* The places where an accepted message is.
Places == Range(messages) \cup Range(writers) \cup Range(got) \cup cleared

LEMMA WriteUnlost ==
  ASSUME Unlost, NEW w \in Write, WriteBody(w)
  PROVE  (\A r \in Read : Unserved(r)') /\ Places \cup {w} \subseteq Places' \cup {NoMsg}
<1>1. /\ Inv /\ TypeOK /\ IsInjective(readers) /\ w \in Op /\ w \notin Accepted
      /\ Accepted' = Accepted \cup {w} /\ cleared' = cleared /\ Counted
      /\ \A r \in Read : r # w
  BY WriteSets, ChannelAssumption DEF Unlost, Counted, Shape, WriteBody
<1>2. CASE /\ readers = <<>> /\ UNCHANGED <<readers, got>> /\ Room
           /\ messages' = Append(messages, w) /\ UNCHANGED writers
  <2>1. Range(messages') = Range(messages) \cup {w}
    BY <1>1, <1>2, Pushed DEF TypeOK
  <2>2. Waiting' = Waiting
    BY <1>1, <1>2, WriteSets
  <2>3. QED
    BY <1>1, <1>2, <2>1, <2>2 DEF Unlost, Unserved, Places
<1>3. CASE /\ readers = <<>> /\ UNCHANGED <<readers, got>> /\ ~ Room
           /\ writers' = Append(writers, w) /\ UNCHANGED messages
  <2>1. Range(writers') = Range(writers) \cup {w}
    BY <1>1, <1>3, Pushed DEF TypeOK
  <2>2. Waiting' = Waiting \cup {w}
    BY <1>1, <1>3, WriteSets
  <2>3. QED
    BY <1>1, <1>3, <2>1, <2>2 DEF Unlost, Unserved, Places
<1>4. CASE /\ readers # <<>> /\ readers' = Tail(readers)
           /\ messages = <<>> /\ writers = <<>> /\ messages' = <<>> /\ writers' = <<>>
           /\ got' = [got EXCEPT ![Head(readers)] = w]
  <2>1. PICK h \in Waiting \cap Read : h = Head(readers) /\ Waiting' = Waiting \ {h}
    BY <1>1, <1>4, WriteSets
  <2>2. /\ got \in [Read -> Write \cup {NoMsg}] /\ got[h] = NoMsg /\ got'[h] = w
        /\ \A r \in Read : r # h => got'[r] = got[r]
    BY <1>1, <1>4, <2>1 DEF TypeOK, Unlost, Unserved
  <2>3. DOMAIN got = Read /\ DOMAIN got' = Read
    BY <1>4, <2>2
  <2>4. Range(got) \cup {w} \subseteq Range(got') \cup {NoMsg}
    BY <2>1, <2>2, <2>3 DEF Range
  <2>5. h \in Accepted
    BY <1>1, <2>1 DEF Counted, Once, Op
  <2>6. \A r \in Read : Unserved(r)'
    BY <1>1, <2>1, <2>2, <2>5 DEF Unlost, Unserved
  <2>7. QED
    BY <1>1, <1>4, <2>4, <2>6 DEF Places
<1>5. QED
  BY <1>1, <1>2, <1>3, <1>4, WriteCases

\* The queue without its first element has the other ones.
LEMMA PoppedRange ==
  ASSUME NEW S, NEW q \in Seq(S), q # <<>>
  PROVE  Range(q) \subseteq Range(Popped(q)) \cup {Head(q)}
<1>1. /\ Tail(q) \in Seq(S) /\ Len(Tail(q)) = Len(q) - 1
      /\ \A i \in 1..Len(Tail(q)) : Tail(q)[i] = q[i + 1]
  BY HeadTailProperties
<1>2. /\ Len(q) \in Nat \ {0} /\ DOMAIN q = 1..Len(q) /\ DOMAIN Tail(q) = 1..(Len(q) - 1)
      /\ Head(q) = q[1] /\ Popped(q) = Tail(q)
  BY <1>1, LenProperties, EmptySeq DEF Popped
<1>3. ASSUME NEW i \in 1..Len(q), i # 1 PROVE q[i] \in Range(Tail(q))
  <2>1. i - 1 \in 1..(Len(q) - 1) /\ (i - 1) + 1 = i
    BY <1>2, <1>3
  <2>2. Tail(q)[i - 1] = q[i]
    BY <1>1, <2>1
  <2>3. QED
    BY <1>2, <2>1, <2>2 DEF Range
<1>4. QED
  BY <1>2, <1>3 DEF Range

LEMMA ReadUnlost ==
  ASSUME Unlost, NEW r \in Read, ReadBody(r)
  PROVE  (\A s \in Read : Unserved(s)') /\ (SingleQueue => Places \subseteq Places' \cup {NoMsg})
<1>1. /\ Inv /\ TypeOK /\ r \in Op /\ r \notin Accepted
      /\ Accepted' = Accepted \cup {r} /\ cleared' = cleared /\ Counted
      /\ got \in [Read -> Write \cup {NoMsg}] /\ got[r] = NoMsg
  BY ReadSets DEF Unlost, Unserved, Counted, Shape, TypeOK, ReadBody
<1>2. CASE /\ messages = <<>> /\ writers = <<>> /\ UNCHANGED <<messages, writers, got>>
           /\ readers' = Append(readers, r)
  <2>1. Waiting' = Waiting \cup {r}
    BY <1>1, <1>2, ReadSets
  <2>2. QED
    BY <1>1, <1>2, <2>1 DEF Unlost, Unserved, Places
<1>3. CASE /\ messages # <<>> \/ writers # <<>>
           /\ UNCHANGED readers
           /\ messages' = Popped(messages) /\ writers' = Popped(writers)
           /\ got' = [got EXCEPT ![r] = Received(messages, writers)]
  <2>1. PICK m : m = Received(messages, writers)
    OBVIOUS
  <2>2. /\ got'[r] = m /\ \A s \in Read : s # r => got'[s] = got[s]
        /\ DOMAIN got = Read /\ DOMAIN got' = Read
    BY <1>1, <1>3, <2>1
  <2>3. Range(got) \cup {m} \subseteq Range(got') \cup {NoMsg}
    BY <1>1, <2>2 DEF Range
  <2>4. Waiting' \subseteq Waiting /\ r \notin Waiting
    BY <1>1, <1>3, ReadSets, Fresh
  <2>5. \A s \in Read : Unserved(s)'
    BY <1>1, <2>2, <2>4 DEF Unlost, Unserved
  <2>6. ASSUME SingleQueue PROVE Places \subseteq Places' \cup {NoMsg}
    <3>1. messages = <<>> \/ writers = <<>>
      BY <1>1, <2>6 DEF SingleQueue, Inv, OneQueue, QueuesOK
    <3>2. CASE messages = <<>> /\ writers # <<>>
      <4>1. Range(writers) \subseteq Range(writers') \cup {m} /\ messages' = messages
        BY <1>1, <1>3, <2>1, <3>2, PoppedRange DEF TypeOK, Received, Popped
      <4>2. QED
        BY <1>1, <2>3, <4>1 DEF Places
    <3>3. CASE messages # <<>> /\ writers = <<>>
      <4>1. Range(messages) \subseteq Range(messages') \cup {m} /\ writers' = writers
        BY <1>1, <1>3, <2>1, <3>3, PoppedRange DEF TypeOK, Received, Popped
      <4>2. QED
        BY <1>1, <2>3, <4>1 DEF Places
    <3>4. QED
      BY <1>3, <3>1, <3>2, <3>3
  <2>7. QED
    BY <2>5, <2>6
<1>4. QED
  BY <1>1, <1>2, <1>3, ReadCases

LEMMA StepUnlost ==
  ASSUME Unlost, [Next]_vars
  PROVE  (\A r \in Read : Unserved(r)') /\ (SingleQueue => NothingLost)'
<1>1. /\ Counted /\ NoMsg \notin Write /\ UNCHANGED buf_size /\ \A r \in Read : Unserved(r)
      /\ SingleQueue => \A w \in Write \cap Accepted : w \in Places
  BY ChannelAssumption DEF Unlost, NothingLost, Places, Next, Step, Enter, Check, Invoke, Return,
     WriteBody, ReadBody, Decode, Close, vars
<1>2. ASSUME \A r \in Read : Unserved(r)',
             SingleQueue => \A v \in Write \cap Accepted' : v \in Places'
      PROVE  (\A r \in Read : Unserved(r)') /\ (SingleQueue => NothingLost)'
  BY <1>1, <1>2 DEF NothingLost, Places, SingleQueue
<1>3. ASSUME Accepted' = Accepted, Waiting' \subseteq Waiting, UNCHANGED got, Places \subseteq Places'
      PROVE  (\A r \in Read : Unserved(r)') /\ (SingleQueue => NothingLost)'
  <2>1. \A r \in Read : Unserved(r)'
    BY <1>1, <1>3 DEF Unserved
  <2>2. QED
    BY <1>1, <1>2, <1>3, <2>1
<1>4. ASSUME NEW o \in Op, Enter(o) \/ Check(o) \/ Return(o) \/ Invoke(o)
      PROVE  (\A r \in Read : Unserved(r)') /\ (SingleQueue => NothingLost)'
  <2>1. Accepted' = Accepted
    BY <1>1, <1>4 DEF Enter, Check, Return, Invoke, Goto, Accepted, Counted, Shape, TypeOK
  <2>2. UNCHANGED <<queues, got, cleared>>
    BY <1>4 DEF Enter, Check, Return, Invoke
  <2>3. QED
    BY <1>3, <2>1, <2>2 DEF queues, Waiting, Places
<1>5. ASSUME NEW w \in Write, WriteBody(w)
      PROVE  (\A r \in Read : Unserved(r)') /\ (SingleQueue => NothingLost)'
  <2>1. Accepted' = Accepted \cup {w}
    BY <1>1, <1>5, WriteSets
  <2>2. (\A r \in Read : Unserved(r)') /\ Places \cup {w} \subseteq Places' \cup {NoMsg}
    BY <1>5, WriteUnlost
  <2>3. QED
    BY <1>1, <1>2, <2>1, <2>2
<1>6. ASSUME NEW r \in Read, ReadBody(r)
      PROVE  (\A s \in Read : Unserved(s)') /\ (SingleQueue => NothingLost)'
  <2>1. Accepted' = Accepted \cup {r} /\ r \notin Write
    BY <1>1, <1>6, ReadSets, ChannelAssumption
  <2>2. (\A s \in Read : Unserved(s)') /\ (SingleQueue => Places \subseteq Places' \cup {NoMsg})
    BY <1>6, ReadUnlost
  <2>3. QED
    BY <1>1, <1>2, <2>1, <2>2
<1>7. ASSUME NEW r \in Read, Decode(r)
      PROVE  (\A s \in Read : Unserved(s)') /\ (SingleQueue => NothingLost)'
  BY <1>3, <1>7 DEF Decode, queues, Accepted, Waiting, Places
<1>8. ASSUME Close
      PROVE  (\A r \in Read : Unserved(r)') /\ (SingleQueue => NothingLost)'
  <2>1. Accepted' = Accepted /\ Waiting' = {} /\ UNCHANGED got
    BY <1>8 DEF Close, Accepted, Waiting, Range
  <2>2. Places \subseteq Places'
    BY <1>8 DEF Close, Places
  <2>3. QED
    BY <1>3, <2>1, <2>2
<1>9. CASE UNCHANGED vars
  BY <1>3, <1>9 DEF vars, queues, Accepted, Waiting, Places
<1>10. QED
  BY <1>4, <1>5, <1>6, <1>7, <1>8, <1>9 DEF Next, Step

\* A channel without a buffer, and one without a limit, loses no message it has
\* accepted; the run channel_lost shows that a channel with a buffer does.
THEOREM NothingLostWithoutLimit == Spec => [](SingleQueue => NothingLost)
<1>1. Init => Unlost
  BY InitCounted DEF Init, Unlost, Unserved, NothingLost, Accepted
<1>2. Unlost /\ [Next]_vars => Unlost'
  BY StepUnlost, StepInv, StepShape, StepOnce DEF Unlost, Counted
<1>3. Unlost => (SingleQueue => NothingLost)
  BY DEF Unlost
<1>4. QED
  BY <1>1, <1>2, <1>3, PTL DEF Spec

=============================================================================

------------------------------ MODULE Executor ------------------------------
(***************************************************************************)
(* What the thread pool of lc_thread.c promises to the code that calls     *)
(* lc_threadpool_run: payloads are taken over in the order in which they   *)
(* were submitted, each by exactly one pool thread, and a pool thread has  *)
(* at most one payload in hand.  ThreadPool implements this specification; *)
(* Session is written against it.                                          *)
(***************************************************************************)
EXTENDS Sequences

CONSTANTS Worker,   \* identities of pool threads
          Payload,  \* what a caller may submit
          None      \* marks an idle pool thread

VARIABLES queue,    \* payloads submitted and not yet taken over
          held      \* held[w]: the payload worker w is executing, or None

vars == <<queue, held>>

Init == /\ queue = <<>>
        /\ held = [w \in Worker |-> None]

Submit(p) == /\ queue' = Append(queue, p)
             /\ UNCHANGED held

Start(w) == /\ held[w] = None
            /\ queue # <<>>
            /\ held' = [held EXCEPT ![w] = Head(queue)]
            /\ queue' = Tail(queue)

Finish(w) == /\ held[w] # None
             /\ held' = [held EXCEPT ![w] = None]
             /\ UNCHANGED queue

Next == \/ \E p \in Payload : Submit(p)
        \/ \E w \in Worker : Start(w) \/ Finish(w)

Spec == Init /\ [][Next]_vars

=============================================================================

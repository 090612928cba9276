-------------------------------- MODULE Queue --------------------------------
(***************************************************************************)
(* The linked list of queue.c: queue_init, queue_push, queue_pop,          *)
(* queue_peek, queue_clear and queue_isempty.                              *)
(*                                                                         *)
(* A queue is used under the lock of whoever owns it, so an operation is   *)
(* one action; queue_clear, which calls the release callback after every   *)
(* pop, is one action per round of its loop.  Callers push no NULL (a      *)
(* message, a job or a copied struct), which queue_clear would stop at.    *)
(***************************************************************************)
EXTENDS Integers, Sequences, FiniteSets

CONSTANTS
  Cell,     \* the addresses malloc may return for a node
  HeadCell, \* the node inside the queue_t
  Null,     \* the null pointer
  Value,    \* what is pushed
  NoValue

Node == Cell \cup {HeadCell}

ASSUME QueueAssumption ==
  /\ IsFiniteSet(Cell)
  /\ HeadCell \notin Cell /\ Null \notin Node
  /\ NoValue \notin Value

VARIABLES
  next,      \* next[n]: node->next; a freed node keeps its contents
  data,      \* data[n]: node->data
  tail,      \* q->tail
  size,      \* q->size
  heap,      \* the nodes that are allocated
  taken,     \* the last element queue_pop returned, or the callback was given
  clearing   \* queue_clear is in its loop

queueVars == <<next, data, tail, size, heap, taken, clearing>>

QueueTypeOK ==
  /\ next \in [Node -> Node \cup {Null}]
  /\ data \in [Node -> Value \cup {NoValue}]
  /\ tail \in Node
  /\ size \in Nat
  /\ heap \subseteq Cell
  /\ taken \in Value \cup {NoValue}
  /\ clearing \in BOOLEAN

\* queue_init.
QueueInit ==
  /\ next = [n \in Node |-> Null]
  /\ data = [n \in Node |-> NoValue]
  /\ tail = HeadCell
  /\ size = 0
  /\ heap = {}
  /\ taken = NoValue
  /\ clearing = FALSE

-----------------------------------------------------------------------------
\* A mutant of Link: the next pointer of the new node keeps what malloc found.
LinkUnset(n, v) ==
  /\ next' = [next EXCEPT ![tail] = n]
  /\ data' = [data EXCEPT ![n] = v]

\* new_node, and the two assignments that append the node.
Link(n, v) ==
  /\ next' = [next EXCEPT ![n] = Null, ![tail] = n]
  /\ data' = [data EXCEPT ![n] = v]

\* queue_push.
QueuePush(v) ==
  /\ ~ clearing
  /\ \E n \in Cell \ heap :
       /\ heap' = heap \cup {n}
       /\ Link(n, v)
       /\ tail' = n
  /\ size' = size + 1
  /\ UNCHANGED <<taken, clearing>>

\* A mutant of Unlink: the tail keeps pointing to the node that is freed.
UnlinkOnly(n) ==
  /\ next' = [next EXCEPT ![HeadCell] = next[n]]
  /\ UNCHANGED tail

\* queue_pop of a queue whose first node is n.
Unlink(n) ==
  /\ next' = [next EXCEPT ![HeadCell] = next[n]]
  /\ tail' = IF tail = n THEN HeadCell ELSE tail

Remove(n) ==
  /\ Unlink(n)
  /\ taken' = data[n]
  /\ heap' = heap \ {n}
  /\ size' = size - 1
  /\ UNCHANGED data

\* queue_pop; of an empty queue it returns NULL and changes nothing.
QueuePop ==
  /\ ~ clearing
  /\ next[HeadCell] # Null
  /\ Remove(next[HeadCell])
  /\ UNCHANGED clearing

\* queue_clear begins.
QueueClear ==
  /\ ~ clearing
  /\ clearing' = TRUE
  /\ UNCHANGED <<next, data, tail, size, heap, taken>>

\* A round of its loop: the pop and the call of q->rel; it ends when queue_pop
\* has returned NULL.
ClearNext ==
  /\ clearing
  /\ IF next[HeadCell] # Null
       THEN Remove(next[HeadCell]) /\ UNCHANGED clearing
       ELSE clearing' = FALSE /\ UNCHANGED <<next, data, tail, size, heap, taken>>

QueueNext == QueuePop \/ QueueClear \/ ClearNext \/ \E v \in Value : QueuePush(v)

QueueSpec == QueueInit /\ [][QueueNext]_queueVars

-----------------------------------------------------------------------------
\* The i-th node met from the head on; nothing follows a null pointer.
Met[i \in 0..Cardinality(Cell)] ==
  IF i = 0 THEN HeadCell ELSE IF Met[i - 1] = Null THEN Null ELSE next[Met[i - 1]]

\* The nodes met up to a null pointer; in a list that is closed to a ring by
\* mistake, as many as there are.
Nodes ==
  LET Length == Cardinality({i \in 1..Cardinality(Cell) : Met[i] # Null})
  IN  [i \in 1..Length |-> Met[i]]

\* queue_isempty and queue_peek.
IsEmpty == tail = HeadCell
Peek == IF next[HeadCell] = Null THEN NoValue ELSE data[next[HeadCell]]

\* The three ways in which the code knows how long the queue is agree: the links,
\* the tail and the counter; and no node is lost, or used after it was freed.
WellLinked ==
  LET ns == Nodes IN
    /\ heap = {ns[i] : i \in DOMAIN ns} /\ Len(ns) = Cardinality(heap)
    /\ tail = IF ns = <<>> THEN HeadCell ELSE ns[Len(ns)]
    /\ next[tail] = Null
    /\ size = Len(ns)
    /\ IsEmpty <=> Peek = NoValue

\* The list is a FIFO of values, whatever addresses malloc reuses, and
\* queue_clear releases every element in order.
Abstract == INSTANCE Fifo WITH items <- LET ns == Nodes IN [i \in DOMAIN ns |-> data[ns[i]]]
FifoSpec == Abstract!Spec

=============================================================================

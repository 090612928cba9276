-------------------------------- MODULE Fifo ---------------------------------
(***************************************************************************)
(* What queue.h promises: elements leave in the order in which they came,  *)
(* each of them once, be it by queue_pop or by the release callback of     *)
(* queue_clear.                                                            *)
(***************************************************************************)
EXTENDS Sequences

CONSTANTS Value, NoValue

VARIABLES items,  \* what is in the queue
          taken   \* the element that left it last

vars == <<items, taken>>

Init == items = <<>> /\ taken = NoValue

Put(v) == items' = Append(items, v) /\ UNCHANGED taken

Take == /\ items # <<>>
        /\ taken' = items[1]
        /\ items' = Tail(items)

Next == Take \/ \E v \in Value : Put(v)

Spec == Init /\ [][Next]_vars

=============================================================================

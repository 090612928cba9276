------------------------------ MODULE Mailbox -------------------------------
(***************************************************************************)
(* What a channel promises to the tasks that use it (README, "Channels"):  *)
(* each message goes to one reader, readers are served in the order in     *)
(* which they came, messages in the order in which they were written.      *)
(* Clear is the close of the channel.                                      *)
(***************************************************************************)
EXTENDS Sequences

CONSTANTS Write,  \* messages, each identified with the write that sends it
          Read,   \* reads
          NoMsg

VARIABLES items,    \* messages written and not read
          waiting,  \* reads that found nothing
          got       \* got[r]: the message read r has received, or NoMsg

vars == <<items, waiting, got>>

Init == /\ items = <<>>
        /\ waiting = <<>>
        /\ got = [r \in Read |-> NoMsg]

Put(m) == \/ /\ waiting = <<>>
             /\ items' = Append(items, m)
             /\ UNCHANGED <<waiting, got>>
          \/ /\ waiting # <<>>
             /\ got' = [got EXCEPT ![Head(waiting)] = m]
             /\ waiting' = Tail(waiting)
             /\ UNCHANGED items

Get(r) == \/ /\ items = <<>>
             /\ waiting' = Append(waiting, r)
             /\ UNCHANGED <<items, got>>
          \/ /\ items # <<>>
             /\ got' = [got EXCEPT ![r] = Head(items)]
             /\ items' = Tail(items)
             /\ UNCHANGED waiting

Clear == items' = <<>> /\ waiting' = <<>> /\ UNCHANGED got

Next == \/ \E m \in Write : Put(m)
        \/ \E r \in Read : Get(r)
        \/ Clear

Spec == Init /\ [][Next]_vars

=============================================================================

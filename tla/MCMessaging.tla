----------------------------- MODULE MCMessaging ------------------------------
(* Constants of the Messaging runs. *)
EXTENDS Messaging

CONSTANTS m1, m2, r1, r2, main, other

\* Each write on a thread of its own.
Apart == [m \in Write |-> IF m = m1 THEN main ELSE other]

=============================================================================

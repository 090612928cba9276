------------------------------- MODULE MCTask --------------------------------
(* Constants of the Task runs. *)
EXTENDS Task, TLC

CONSTANTS tA, tB, s1, s2, main

\* Each task in a session of its own.
Apart == [k \in Task |-> IF k = tA THEN s1 ELSE s2]

\* The host program creates tA, and the code of tA creates tB.
Nested == [k \in Task |-> IF k = tA THEN main ELSE s1]

=============================================================================

------------------------------- MODULE MCQueue -------------------------------
(* Constants of the Queue run. *)
EXTENDS Queue

CONSTANTS c1, c2, c3, c4

=============================================================================

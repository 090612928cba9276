----------------------------- MODULE MCSpinLock ------------------------------
(* Constants of the SpinLock runs. *)
EXTENDS SpinLock

CONSTANTS t1, t2, t3

=============================================================================

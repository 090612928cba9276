-------------------------- MODULE MCChannelRegistry --------------------------
(* Constants of the ChannelRegistry runs. *)
EXTENDS ChannelRegistry

CONSTANTS p1, p2, p3

=============================================================================

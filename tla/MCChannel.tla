----------------------------- MODULE MCChannel ------------------------------
(* Constants of the Channel runs. *)
EXTENDS Channel

CONSTANTS m1, m2, m3, r1, r2

\* Writes are made by threads of the host program, reads by tasks.
HostWrites == Write

\* All calls are made by tasks.
NoHost == {}

\* All calls are made by the host program.
AllHost == Op

\* Without a buffer, and with a buffer of one message.
BothSizes == {0, 1}

=============================================================================

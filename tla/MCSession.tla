----------------------------- MODULE MCSession ------------------------------
(* Constants of the Session runs. *)
EXTENDS Session, TLC

CONSTANTS sA, sB, sC, main, k1, k2, k3, w1, w2

\* Two jobs meet in one session, a third runs beside them.
TwoAndOne == k1 :> sA @@ k2 :> sA @@ k3 :> sB

\* One job in each of three sessions.
OneEach == k1 :> sA @@ k2 :> sB @@ k3 :> sC

\* All jobs in one session.
AllInA == [k \in Job |-> sA]

\* Every session is created by the host program.
Flat == [s \in Session |-> main]

\* Code running in sA creates sB, code running in sB creates sC.
Chain == [s \in Session |-> CASE s = sA -> main [] s = sB -> sA [] OTHER -> sB]

=============================================================================

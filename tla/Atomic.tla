------------------------------- MODULE Atomic --------------------------------
(***************************************************************************)
(* What everybody expects of a lock: a critical section that reads a       *)
(* variable and writes it back takes effect at once, as in `++next`.       *)
(***************************************************************************)
EXTENDS Integers

CONSTANTS Thread,
          Modulus   \* the variable has so many values

VARIABLES value,    \* the variable the lock protects
          done      \* done[t]: critical sections thread t has been through

vars == <<value, done>>

Init == value = 0 /\ done = [t \in Thread |-> 0]

Section(t) == /\ value' = (value + 1) % Modulus
              /\ done' = [done EXCEPT ![t] = (@ + 1) % Modulus]

Next == \E t \in Thread : Section(t)

Spec == Init /\ [][Next]_vars

=============================================================================

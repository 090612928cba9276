------------------------------- MODULE KeySet -------------------------------
(***************************************************************************)
(* What a map promises to its users: a key is found exactly while it is in *)
(* the map, and map_size is the number of keys.  Two uses are outside the  *)
(* promise.  A removal from an empty map makes map_size one too small, for *)
(* as long as the map is in use.  And to insert a key that is in a map of  *)
(* copies leaves a map of which nothing is said any more.                  *)
(***************************************************************************)
EXTENDS Integers

CONSTANTS Key,
          dup      \* whether the map holds copies

VARIABLES present,  \* the keys in the map
          size,     \* what map_size returns
          answer,   \* whether map_find has found the key it was last asked for
          sound     \* whether the map still keeps its promise

vars == <<present, size, answer, sound>>

Init == present = {} /\ size = 0 /\ answer = FALSE /\ sound = TRUE

Lookup(k) == answer' = (k \in present) /\ UNCHANGED <<present, size>>

Add(k) ==
  k \notin present /\ present' = present \cup {k} /\ size' = size + 1 /\ UNCHANGED answer

Delete(k) ==
  k \in present /\ present' = present \ {k} /\ size' = size - 1 /\ UNCHANGED answer

DeleteFromEmpty == present = {} /\ size' = size - 1 /\ UNCHANGED <<present, answer>>

Empty == present' = {} /\ size' = 0 /\ UNCHANGED answer

Operation ==
  Empty \/ DeleteFromEmpty \/ \E k \in Key : Lookup(k) \/ Add(k) \/ Delete(k)

\* The insert of a key that is in a map of copies.
Spoil(k) ==
  dup /\ k \in present /\ sound' = FALSE /\ UNCHANGED <<present, size, answer>>

Next ==
  \/ sound /\ sound' /\ Operation
  \/ sound /\ \E k \in Key : Spoil(k)
  \/ ~ sound /\ ~ sound'

Spec == Init /\ [][Next]_vars

=============================================================================

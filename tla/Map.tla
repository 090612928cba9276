--------------------------------- MODULE Map ---------------------------------
(***************************************************************************)
(* The Andersson tree of map.c, which holds the registries of sessions,    *)
(* tasks and channels and the references of a message.                     *)
(*                                                                         *)
(* A tree is a value: Nil, or a record of a level, a key and two subtrees. *)
(* An operation is a loop down the tree, with the nodes it passes saved in *)
(* path, and for a change a loop back over path.  The code changes nodes   *)
(* in place; here the walk back builds the changed subtree in it, and the  *)
(* tree is replaced when the walk is over.  The callers hold a lock for    *)
(* the whole of an operation, so that one follows another.                 *)
(***************************************************************************)
EXTENDS Integers, Sequences, FiniteSets, SequencesExt

CONSTANTS
  Key,        \* integers, as the ids are that cmp_session and cmp_task compare
  dup,        \* whether map->dup is set: the map holds copies of what is inserted
  MaxDeficit  \* bound of the model: removals from a map while it is empty

ASSUME KeyAssumption == Key \subseteq Int /\ IsFiniteSet(Key)
ASSUME DupAssumption == dup \in BOOLEAN /\ MaxDeficit \in Nat

VARIABLES tree,    \* map->root
          size,    \* map->size
          answer,  \* whether the last map_find found its key
          fault,   \* the memory the map refers to though it was freed
          pc,      \* the loop the operation is in
          key,     \* what the operation is about
          it,      \* the node it is at, or the subtree it has rebuilt
          path,    \* the nodes above it
          heir,    \* the key that takes the place of the key removed
          dir,     \* the direction of a cursor: 1 is ascending
          keys,    \* history: the keys in the map
          todo     \* history: the keys still to be released, or ahead of a cursor

map == <<tree, size, answer, fault, keys>>
vars == <<tree, size, answer, fault, pc, key, it, path, heir, dir, keys, todo>>

-----------------------------------------------------------------------------
(* Nodes. *)

\* The sentinel: its level is 0 and both its links lead to itself.
Nil == [level |-> 0]

Left(t)  == IF t = Nil THEN Nil ELSE t.left
Right(t) == IF t = Nil THEN Nil ELSE t.right
Child(t, d) == IF d = 1 THEN Right(t) ELSE Left(t)

Leaf(k) == [level |-> 1, key |-> k, left |-> Nil, right |-> Nil]

\* The macro skew: a left child of the same level is rotated up.
Skew(t) ==
  IF t # Nil /\ Left(t).level = t.level
    THEN [t.left EXCEPT !.right = [t EXCEPT !.left = t.left.right]]
    ELSE t

\* The macro split: the second of three nodes of one level is rotated up.
Split(t) ==
  IF t # Nil /\ Right(Right(t)).level = t.level
    THEN [t.right EXCEPT !.left = [t EXCEPT !.right = t.right.left], !.level = @ + 1]
    ELSE t

\* The macros applied to the right child.
SkewRight(t)  == IF t = Nil THEN t ELSE [t EXCEPT !.right = Skew(@)]
SplitRight(t) == IF t = Nil THEN t ELSE [t EXCEPT !.right = Split(@)]

\* What map_remove does first at a node that has lost a level on one side.
Lowered(t) ==
  LET low == t.level - 1
  IN [t EXCEPT !.level = low,
               !.right = IF @.level > low THEN [@ EXCEPT !.level = low] ELSE @]

\* A mutant of Rebalance: the second right child is not skewed.
RebalanceShort(t) ==
  IF Left(t).level < t.level - 1 \/ Right(t).level < t.level - 1
    THEN SplitRight(Split(SkewRight(Skew(Lowered(t)))))
    ELSE t

\* The step of map_remove at every node on the way back.
Rebalance(t) ==
  LET once == SkewRight(Skew(Lowered(t)))
      skewed == [once EXCEPT !.right = SkewRight(@)]
  IN IF Left(t).level < t.level - 1 \/ Right(t).level < t.level - 1
       THEN SplitRight(Split(skewed))
       ELSE t

\* The side of the key, and a node with what has become of that child.
Side(t) == IF t.key =< key THEN 1 ELSE 0
With(t, c) == IF Side(t) = 1 THEN [t EXCEPT !.right = c] ELSE [t EXCEPT !.left = c]

-----------------------------------------------------------------------------
Init ==
  /\ tree = Nil /\ size = 0 /\ answer = FALSE /\ fault = "none" /\ keys = {}
  /\ pc = "idle" /\ key = 0 /\ it = Nil /\ path = <<>> /\ heir = 0 /\ dir = 0
  /\ todo = {}

\* Nobody is inside an operation; a cursor that is at a node may be left there.
Ready == pc \in {"idle", "at"} /\ fault = "none"

Begin(loop, k) ==
  /\ Ready
  /\ pc' = loop /\ key' = k /\ it' = tree /\ path' = <<>>
  /\ UNCHANGED <<map, heir, dir, todo>>

\* The operation returns.
Return ==
  /\ pc' = "idle" /\ key' = 0 /\ it' = Nil /\ path' = <<>> /\ heir' = 0 /\ dir' = 0
  /\ todo' = {}

MapFind(k)   == Begin("find", k)
MapInsert(k) == Begin("insert", k)

MapRemove(k) == tree # Nil /\ Begin("remove", k)

\* map_remove of an empty map removes nothing, and counts it all the same.
RemoveFromEmpty ==
  /\ Ready /\ tree = Nil
  /\ size > -MaxDeficit
  /\ size' = size - 1
  /\ Return /\ UNCHANGED <<tree, answer, fault, keys>>

\* Down towards the key; map_find saves no path.
Descend ==
  /\ pc \in {"find", "insert", "remove"}
  /\ it # Nil /\ it.key # key
  /\ it' = Child(it, Side(it))
  /\ path' = IF pc = "find" THEN path ELSE Append(path, it)
  /\ UNCHANGED <<map, pc, key, heir, dir, todo>>

Found ==
  /\ pc = "find"
  /\ it # Nil => it.key = key
  /\ answer' = (it # Nil)
  /\ Return /\ UNCHANGED <<tree, size, fault, keys>>

\* map_insert of an equal key releases the data of the node.  Without dup other
\* data takes its place.  With dup, which is passed node->data instead of its
\* address, a pointer is written over the key in the block just released, and the
\* node keeps that block ("data"); if dup fails, the node itself is freed and
\* stays in the tree ("node").
Overwrite ==
  /\ pc = "insert"
  /\ it # Nil /\ it.key = key
  /\ fault' \in IF dup THEN {"data", "node"} ELSE {fault}
  /\ Return /\ UNCHANGED <<tree, size, answer, keys>>

\* What map_find then makes of the freed memory it meets: anything.  Such a map
\* is followed no further than that.
Astray ==
  /\ fault # "none"
  /\ answer' \in BOOLEAN
  /\ UNCHANGED <<tree, size, fault, pc, key, it, path, heir, dir, keys, todo>>

\* new_node fails, and the tree stays as it is.
NoNode ==
  /\ pc = "insert"
  /\ it = Nil
  /\ Return /\ UNCHANGED map

NewNode ==
  /\ pc = "insert"
  /\ it = Nil
  /\ it' = Leaf(key) /\ pc' = "grow"
  /\ UNCHANGED <<map, key, path, heir, dir, todo>>

\* A mutant of Grow: nothing is split.
GrowUnsplit ==
  /\ pc = "grow" /\ path # <<>>
  /\ it' = Skew(With(Last(path), it)) /\ path' = Front(path)
  /\ UNCHANGED <<map, pc, key, heir, dir, todo>>

\* map_insert, back at the parent.
Grow ==
  /\ pc = "grow" /\ path # <<>>
  /\ it' = Split(Skew(With(Last(path), it))) /\ path' = Front(path)
  /\ UNCHANGED <<map, pc, key, heir, dir, todo>>

Inserted ==
  /\ pc = "grow" /\ path = <<>>
  /\ tree' = it /\ size' = size + 1 /\ keys' = keys \cup {key}
  /\ Return /\ UNCHANGED <<answer, fault>>

\* map_remove of a key that is not there (the sentinel, which the code saves in
\* path before it looks at it, is left out).
Absent ==
  /\ pc = "remove"
  /\ it = Nil
  /\ Return /\ UNCHANGED map

\* The node to remove has at most one child, which takes its place; at the root
\* it is always the right one.
Unlink ==
  /\ pc = "remove"
  /\ it # Nil /\ it.key = key /\ (Left(it) = Nil \/ Right(it) = Nil)
  /\ it' = IF path = <<>> \/ Left(it) = Nil THEN Right(it) ELSE Left(it)
  /\ heir' = key /\ pc' = "shrink"
  /\ UNCHANGED <<map, key, path, dir, todo>>

\* It has two: the least key on its right, its heir, takes the place of its key.
SeekHeir ==
  /\ pc = "remove"
  /\ it # Nil /\ it.key = key /\ Left(it) # Nil /\ Right(it) # Nil
  /\ it' = Right(it) /\ path' = Append(path, it) /\ pc' = "heir"
  /\ UNCHANGED <<map, key, heir, dir, todo>>

NextHeir ==
  /\ pc = "heir" /\ Left(it) # Nil
  /\ it' = Left(it) /\ path' = Append(path, it)
  /\ UNCHANGED <<map, pc, key, heir, dir, todo>>

\* A mutant of TakeHeir: the right child of the heir goes with it.
TakeHeirTree ==
  /\ pc = "heir" /\ Left(it) = Nil
  /\ heir' = it.key /\ it' = Nil /\ pc' = "shrink"
  /\ UNCHANGED <<map, key, path, dir, todo>>

TakeHeir ==
  /\ pc = "heir" /\ Left(it) = Nil
  /\ heir' = it.key /\ it' = Right(it) /\ pc' = "shrink"
  /\ UNCHANGED <<map, key, path, dir, todo>>

\* map_remove, back at the parent; the node found has the data of the heir.
Shrink ==
  /\ pc = "shrink" /\ path # <<>>
  /\ LET up == With(Last(path), it)
     IN it' = Rebalance(IF up.key = key THEN [up EXCEPT !.key = heir] ELSE up)
  /\ path' = Front(path)
  /\ UNCHANGED <<map, pc, key, heir, dir, todo>>

Removed ==
  /\ pc = "shrink" /\ path = <<>>
  /\ tree' = it /\ size' = size - 1 /\ keys' = keys \ {key}
  /\ Return /\ UNCHANGED <<answer, fault>>

-----------------------------------------------------------------------------
(* map_free, which is what calls map_clear. *)

MapFree ==
  /\ Ready
  /\ pc' = "clear" /\ it' = tree /\ path' = <<>> /\ todo' = keys
  /\ UNCHANGED <<map, key, heir, dir>>

\* A node with a left child is rotated to the right.
Rotate ==
  /\ pc = "clear" /\ it # Nil /\ Left(it) # Nil
  /\ it' = [it.left EXCEPT !.right = [it EXCEPT !.left = it.left.right]]
  /\ UNCHANGED <<map, pc, key, path, heir, dir, todo>>

\* A mutant of Release: a node is released before its left child is rotated.
ReleaseEarly ==
  /\ pc = "clear" /\ it # Nil
  /\ it' = Right(it) /\ todo' = todo \ {it.key}
  /\ UNCHANGED <<map, pc, key, path, heir, dir>>

\* One without is released.
Release ==
  /\ pc = "clear" /\ it # Nil /\ Left(it) = Nil
  /\ it' = Right(it) /\ todo' = todo \ {it.key}
  /\ UNCHANGED <<map, pc, key, path, heir, dir>>

\* The map is gone; the next map is a new one (map_new).
Freed ==
  /\ pc = "clear" /\ it = Nil
  /\ tree' = Nil /\ size' = 0 /\ keys' = {}
  /\ Return /\ UNCHANGED <<answer, fault>>

-----------------------------------------------------------------------------
(* Cursors: map_next and map_prev move in directions 1 and 0. *)

\* map_first goes down to the left, to move in direction 1; map_last to the
\* right, in direction 0.
Start(d) ==
  /\ Ready
  /\ pc' = "down" /\ it' = tree /\ path' = <<>> /\ dir' = d /\ todo' = keys
  /\ UNCHANGED <<map, key, heir>>

\* The keys beyond a node in a direction.
Beyond(t, d) == {k \in keys : t # Nil /\ IF d = 1 THEN t.key < k ELSE k < t.key}

\* A mutant of Move: after the step to the side it does not go down.
MoveOnce(d) ==
  /\ pc = "at"
  /\ dir' = d /\ todo' = Beyond(it, d)
  /\ IF Child(it, d) # Nil
       THEN it' = Child(it, d) /\ path' = Append(path, it) /\ pc' = "at"
       ELSE pc' = "up" /\ UNCHANGED <<it, path>>
  /\ UNCHANGED <<map, key, heir>>

Move(d) ==
  /\ pc = "at"
  /\ dir' = d /\ todo' = Beyond(it, d)
  /\ IF Child(it, d) # Nil
       THEN it' = Child(it, d) /\ path' = Append(path, it) /\ pc' = "down"
       ELSE pc' = "up" /\ UNCHANGED <<it, path>>
  /\ UNCHANGED <<map, key, heir>>

\* Down against the direction, to the nearest key.
Down ==
  /\ pc = "down"
  /\ IF Child(it, 1 - dir) # Nil
       THEN it' = Child(it, 1 - dir) /\ path' = Append(path, it) /\ pc' = pc
       ELSE pc' = "at" /\ UNCHANGED <<it, path>>
  /\ UNCHANGED <<map, key, heir, dir, todo>>

\* Up past every node whose subtree in the direction the cursor leaves.
Up ==
  /\ pc = "up"
  /\ IF path = <<>>
       THEN it' = Nil /\ path' = path /\ pc' = "at"
       ELSE /\ it' = Last(path) /\ path' = Front(path)
            /\ pc' = IF it = Child(Last(path), dir) THEN "up" ELSE "at"
  /\ UNCHANGED <<map, key, heir, dir, todo>>

-----------------------------------------------------------------------------
Next ==
  \/ \E k \in Key : MapFind(k) \/ MapInsert(k) \/ MapRemove(k)
  \/ RemoveFromEmpty
  \/ Descend \/ Found
  \/ Overwrite \/ Astray \/ NoNode \/ NewNode \/ Grow \/ Inserted
  \/ Absent \/ Unlink \/ SeekHeir \/ NextHeir \/ TakeHeir \/ Shrink \/ Removed
  \/ MapFree \/ Rotate \/ Release \/ Freed
  \/ \E d \in {0, 1} : Start(d) \/ Move(d)
  \/ Down \/ Up

Spec == Init /\ [][Next]_vars

-----------------------------------------------------------------------------
\* Finding a key is the inverse of inserting it: after any sequence of inserts
\* and removals map_find finds the keys that are in the map, and no other; and
\* map_size is their number, less the removals from an empty map.  A map that
\* holds copies keeps that up to the first insert of a key it has.
Abstract == INSTANCE KeySet WITH present <- keys, sound <- (fault = "none")
KeySetSpec == Abstract!Spec

\* "will overwite and existing element with the same key" (map.c:125): an insert
\* leaves nothing in the map that was freed.  False with dup.
InsertOverwrites == fault = "none"

\* map_size is the number of keys in the map.  False after a removal from an
\* empty map.
SizeCounts == size = Cardinality(keys)

\* The rules of an Andersson tree: the left child is one level down, the right
\* child at most one, the right grandchild at least one.
Rule(t) ==
  /\ t.left.level = t.level - 1
  /\ t.right.level \in {t.level - 1, t.level}
  /\ Right(t.right).level < t.level

\* Every insert and every removal leaves an Andersson tree: each node a walk
\* down it meets keeps the rules (and map_find comes to every node).
StaysBalanced == pc \in {"find", "insert", "remove"} /\ it # Nil => Rule(it)

\* Powers of two.
Pow[n \in Nat] == IF n = 0 THEN 1 ELSE 2 * Pow[n - 1]

\* The array path[HEIGHT_LIMIT] is long enough: for a path of h nodes there are
\* at least 2^((h+1)/2) - 1 keys, 2^32 - 1 for the 64 places of the array.
PathFits == Pow[(Len(path) + 1) \div 2] =< Cardinality(keys) + 1

\* map_clear releases every element once, whatever the shape of the tree.
ReleasedOnce ==
  pc = "clear" => IF it = Nil THEN todo = {} ELSE Left(it) = Nil => it.key \in todo

\* A cursor comes to the next key in its direction, and to the end when there is
\* none: from map_first map_next visits every key once in ascending order, from
\* map_last map_prev in descending order.
CursorsVisitAll ==
  pc = "at" =>
    IF it = Nil THEN todo = {}
    ELSE /\ it.key \in todo
         /\ \A k \in todo \ {it.key} : IF dir = 1 THEN it.key < k ELSE k < it.key

=============================================================================

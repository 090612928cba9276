------------------------------ MODULE MapProofs ------------------------------
(***************************************************************************)
(* Proofs about Map.                                                       *)
(*                                                                         *)
(* A tree is a value of any depth, and what it holds is not defined by     *)
(* recursion: Tree(u, S, r) says that there is a certificate, a set of     *)
(* pairs of a node and its keys that is closed under children and in which *)
(* u has the keys S.  Such certificates are put together (MakeTree) and    *)
(* taken apart (OpenTree) one node at a time, and a node has one set of    *)
(* keys only (OneKeys), so that Keys(u) is well defined.  The rotations    *)
(* are then equations between nodes.                                       *)
(***************************************************************************)
EXTENDS Map, FiniteSetTheorems, SequenceTheorems, WellFoundedInduction, TLAPS

-----------------------------------------------------------------------------
\* A set of naturals that is not empty has a least element.
LEMMA Least ==
  ASSUME NEW T, T \subseteq Nat, T # {}
  PROVE  \E n \in T : \A m \in T : n =< m
<1>1. PICK R : IsWellFoundedOn(R, Nat) /\ \A x, y \in Nat : x < y => <<x, y>> \in R
  <2>1. IsWellFoundedOn(OpToRel(<, Nat), Nat)
    BY NatLessThanWellFounded
  <2>2. \A x, y \in Nat : x < y => <<x, y>> \in OpToRel(<, Nat)
    BY DEF OpToRel
  <2>3. QED
    BY <2>1, <2>2
<1>2. PICK n \in T : \A m \in T : ~ (<<m, n>> \in R)
  <2>1. IsWellFoundedOn(R, Nat)
    BY <1>1
  <2>2. QED
    BY <2>1, WFMin
<1>3. ASSUME NEW m \in T PROVE n =< m
  <2>1. m \in Nat /\ n \in Nat /\ ~ (m < n)
    BY <1>1, <1>2
  <2>2. QED
    BY <2>1
<1>4. QED
  BY <1>3

\* Induction: a set that has 0 and the successors of its elements.
LEMMA Ind ==
  ASSUME NEW S, 0 \in S, \A n \in Nat : n \in S => n + 1 \in S
  PROVE  Nat \subseteq S
<1> SUFFICES ASSUME ~ (Nat \subseteq S) PROVE FALSE
  OBVIOUS
<1>1. PICK n \in Nat \ S : \A m \in Nat \ S : n =< m
  <2>1. Nat \ S \subseteq Nat /\ Nat \ S # {}
    OBVIOUS
  <2>2. QED
    BY <2>1, Least
<1>2. n - 1 \in Nat /\ n - 1 \in S /\ n = (n - 1) + 1
  BY <1>1
<1>3. QED
  BY <1>1, <1>2

-----------------------------------------------------------------------------
(* Trees and their keys. *)

Node(l, k, a, b) == [level |-> l, key |-> k, left |-> a, right |-> b]

\* u is empty, or a node with its keys in order whose children are in G; under
\* "aa" it keeps the rules of an Andersson tree.
Made(G, u, S, r) ==
  \/ u = Nil /\ S = {}
  \/ \E a, b : \E l \in Nat \ {0}, k \in Key, A, B \in SUBSET Key :
       /\ u = Node(l, k, a, b)
       /\ <<a, A>> \in G /\ <<b, B>> \in G
       /\ S = A \cup {k} \cup B
       /\ \A x \in A : x < k
       /\ \A x \in B : k < x
       /\ r = "aa" => Rule(u)

\* A set of such pairs, and a tree in one.
Certificate(G, r) == \A u, S : <<u, S>> \in G => Made(G, u, S, r)

Tree(u, S, r) == \E G : Certificate(G, r) /\ <<u, S>> \in G

-----------------------------------------------------------------------------
\* The fields of a node.
LEMMA NodeFields ==
  ASSUME NEW l, NEW k, NEW a, NEW b
  PROVE  /\ Node(l, k, a, b) # Nil
         /\ Node(l, k, a, b).level = l /\ Node(l, k, a, b).key = k
         /\ Node(l, k, a, b).left = a /\ Node(l, k, a, b).right = b
         /\ Left(Node(l, k, a, b)) = a /\ Right(Node(l, k, a, b)) = b
         /\ Nil.level = 0 /\ Left(Nil) = Nil /\ Right(Nil) = Nil
<1>1. Node(l, k, a, b) # Nil
  <2>1. "key" \in DOMAIN Node(l, k, a, b) /\ "key" \notin DOMAIN Nil
    BY DEF Node, Nil
  <2>2. QED
    BY <2>1
<1>2. QED
  BY <1>1 DEF Node, Nil, Left, Right

\* The empty tree has no keys, and every other has one.
LEMMA NilTree ==
  ASSUME NEW r
  PROVE  /\ Tree(Nil, {}, r)
         /\ \A S : Tree(Nil, S, r) => S = {}
<1>1. Tree(Nil, {}, r)
  <2>1. Certificate({<<Nil, {}>>}, r)
    BY DEF Certificate, Made
  <2>2. QED
    BY <2>1 DEF Tree
<1>2. ASSUME NEW S, Tree(Nil, S, r) PROVE S = {}
  <2>1. PICK G : Certificate(G, r) /\ <<Nil, S>> \in G
    BY <1>2 DEF Tree
  <2>2. Made(G, Nil, S, r)
    BY <2>1 DEF Certificate
  <2>3. \A l, k, a, b : Node(l, k, a, b) # Nil
    BY NodeFields
  <2>4. QED
    BY <2>2, <2>3 DEF Made
<1>3. QED
  BY <1>1, <1>2

\* The keys of a tree are keys.
LEMMA TreeKeys ==
  ASSUME NEW r, NEW u, NEW S, Tree(u, S, r)
  PROVE  S \in SUBSET Key /\ IsFiniteSet(S)
<1>1. S \in SUBSET Key
  <2>1. PICK G : Certificate(G, r) /\ <<u, S>> \in G
    BY DEF Tree
  <2>2. Made(G, u, S, r)
    BY <2>1 DEF Certificate
  <2>3. QED
    BY <2>2 DEF Made
<1>2. QED
  BY <1>1, KeyAssumption, FS_Subset

\* A node made of two trees is a tree.
LEMMA MakeTree ==
  ASSUME NEW r, NEW l \in Nat \ {0}, NEW k \in Key,
         NEW a, NEW b, NEW A, NEW B, Tree(a, A, r), Tree(b, B, r),
         \A x \in A : x < k, \A x \in B : k < x,
         r = "aa" => Rule(Node(l, k, a, b))
  PROVE  Tree(Node(l, k, a, b), A \cup {k} \cup B, r)
<1>1. PICK G : Certificate(G, r) /\ <<a, A>> \in G
  BY DEF Tree
<1>2. PICK H : Certificate(H, r) /\ <<b, B>> \in H
  BY DEF Tree
<1> DEFINE u == Node(l, k, a, b)
           S == A \cup {k} \cup B
           F == G \cup H \cup {<<u, S>>}
<1>3. A \in SUBSET Key /\ B \in SUBSET Key
  BY TreeKeys
<1>4. Made(F, u, S, r)
  BY <1>1, <1>2, <1>3 DEF Made
<1>5. ASSUME NEW v, NEW T, <<v, T>> \in F PROVE Made(F, v, T, r)
  <2>1. CASE <<v, T>> \in G
    <3>1. Made(G, v, T, r)
      BY <1>1, <2>1 DEF Certificate
    <3>2. G \subseteq F
      OBVIOUS
    <3> HIDE DEF F
    <3>3. QED
      BY <3>1, <3>2 DEF Made
  <2>2. CASE <<v, T>> \in H
    <3>1. Made(H, v, T, r)
      BY <1>2, <2>2 DEF Certificate
    <3>2. H \subseteq F
      OBVIOUS
    <3> HIDE DEF F
    <3>3. QED
      BY <3>1, <3>2 DEF Made
  <2>3. CASE <<v, T>> = <<u, S>>
    <3>1. v = u /\ T = S
      BY <2>3
    <3>2. QED
      BY <3>1, <1>4
  <2>4. QED
    BY <1>5, <2>1, <2>2, <2>3
<1>6. Certificate(F, r) /\ <<u, S>> \in F
  BY <1>5 DEF Certificate
<1>7. QED
  BY <1>6 DEF Tree

\* A tree that is not empty is a node with two trees.
LEMMA OpenTree ==
  ASSUME NEW r, NEW u, NEW S, Tree(u, S, r), u # Nil
  PROVE  \E a, b : \E l \in Nat \ {0}, k \in Key, A, B \in SUBSET Key :
           /\ u = Node(l, k, a, b)
           /\ Tree(a, A, r) /\ Tree(b, B, r)
           /\ S = A \cup {k} \cup B
           /\ \A x \in A : x < k
           /\ \A x \in B : k < x
           /\ r = "aa" => Rule(u)
<1>1. PICK G : Certificate(G, r) /\ <<u, S>> \in G
  BY DEF Tree
<1>2. \A v, T : <<v, T>> \in G => Tree(v, T, r)
  BY <1>1 DEF Tree
<1>3. Made(G, u, S, r)
  BY <1>1 DEF Certificate
<1>4. QED
  BY <1>2, <1>3 DEF Made

\* The rules aside, an Andersson tree is a search tree.
LEMMA SearchTree ==
  ASSUME NEW u, NEW S, Tree(u, S, "aa")
  PROVE  Tree(u, S, "any")
<1>1. PICK G : Certificate(G, "aa") /\ <<u, S>> \in G
  BY DEF Tree
<1>2. Certificate(G, "any")
  <2>1. ASSUME NEW v, NEW T, <<v, T>> \in G PROVE Made(G, v, T, "any")
    <3>1. Made(G, v, T, "aa")
      BY <1>1, <2>1 DEF Certificate
    <3>2. QED
      BY <3>1 DEF Made
  <2>2. QED
    BY <2>1 DEF Certificate
<1>3. QED
  BY <1>1, <1>2 DEF Tree

\* The keys of a part of a tree are fewer.
LEMMA Fewer ==
  ASSUME NEW n \in Nat, NEW S, IsFiniteSet(S), Cardinality(S) =< n + 1,
         NEW k \in S, NEW A, A \subseteq S, k \notin A
  PROVE  IsFiniteSet(A) /\ Cardinality(A) =< n
<1>1. IsFiniteSet(S \ {k}) /\ Cardinality(S \ {k}) = Cardinality(S) - 1 /\ Cardinality(S) \in Nat
  BY FS_RemoveElement, FS_CardinalityType
<1>2. A \in SUBSET (S \ {k})
  OBVIOUS
<1>3. IsFiniteSet(A) /\ Cardinality(A) =< Cardinality(S \ {k}) /\ Cardinality(A) \in Nat
  BY <1>1, <1>2, FS_Subset, FS_CardinalityType
<1>4. QED
  BY <1>1, <1>3

\* A tree has one set of keys.
LEMMA OneKeys ==
  ASSUME NEW u, NEW S, NEW T, Tree(u, S, "any"), Tree(u, T, "any")
  PROVE  S = T
<1> DEFINE N == {n \in Nat : \A v, X, Y : Tree(v, X, "any") /\ Tree(v, Y, "any")
                                          /\ Cardinality(X) =< n => X = Y}
<1>1. 0 \in N
  <2>1. ASSUME NEW v, NEW X, NEW Y, Tree(v, X, "any"), Tree(v, Y, "any"), Cardinality(X) =< 0
        PROVE  X = Y
    <3>1. IsFiniteSet(X) /\ Cardinality(X) \in Nat
      BY <2>1, TreeKeys, FS_CardinalityType
    <3>2. X = {}
      BY <2>1, <3>1, FS_EmptySet
    <3>3. v = Nil
      BY <2>1, <3>2, OpenTree
    <3>4. QED
      BY <2>1, <3>2, <3>3, NilTree
  <2>2. QED
    BY <2>1
<1>2. ASSUME NEW n \in Nat, n \in N PROVE n + 1 \in N
  <2>1. ASSUME NEW v, NEW X, NEW Y, Tree(v, X, "any"), Tree(v, Y, "any"),
               Cardinality(X) =< n + 1
        PROVE  X = Y
    <3>1. CASE v = Nil
      BY <2>1, <3>1, NilTree
    <3>2. CASE v # Nil
      <4>1. PICK a, b : \E l \in Nat \ {0}, k \in Key, A, B \in SUBSET Key :
              /\ v = Node(l, k, a, b)
              /\ Tree(a, A, "any") /\ Tree(b, B, "any")
              /\ X = A \cup {k} \cup B
              /\ \A x \in A : x < k
              /\ \A x \in B : k < x
        BY <2>1, <3>2, OpenTree
      <4>2. PICK l \in Nat \ {0}, k \in Key, A, B \in SUBSET Key :
              /\ v = Node(l, k, a, b)
              /\ Tree(a, A, "any") /\ Tree(b, B, "any")
              /\ X = A \cup {k} \cup B
              /\ \A x \in A : x < k
              /\ \A x \in B : k < x
        BY <4>1
      <4>3. PICK a1, b1 : \E l1 \in Nat \ {0}, k1 \in Key, A1, B1 \in SUBSET Key :
              /\ v = Node(l1, k1, a1, b1)
              /\ Tree(a1, A1, "any") /\ Tree(b1, B1, "any")
              /\ Y = A1 \cup {k1} \cup B1
        BY <2>1, <3>2, OpenTree
      <4>4. PICK l1 \in Nat \ {0}, k1 \in Key, A1, B1 \in SUBSET Key :
              /\ v = Node(l1, k1, a1, b1)
              /\ Tree(a1, A1, "any") /\ Tree(b1, B1, "any")
              /\ Y = A1 \cup {k1} \cup B1
        BY <4>3
      <4>5. k1 = k /\ a1 = a /\ b1 = b
        <5>1. v.key = k /\ v.left = a /\ v.right = b
          BY <4>2, NodeFields
        <5>2. v.key = k1 /\ v.left = a1 /\ v.right = b1
          BY <4>4, NodeFields
        <5>3. QED
          BY <5>1, <5>2
      <4>6. k \in X /\ A \subseteq X /\ B \subseteq X /\ k \notin A /\ k \notin B
        <5>1. k \in Int
          BY KeyAssumption
        <5>2. QED
          BY <4>2, <5>1
      <4>7. Cardinality(A) =< n /\ Cardinality(B) =< n
        BY <2>1, <4>6, TreeKeys, Fewer
      <4>8. A = A1 /\ B = B1
        BY <1>2, <4>2, <4>4, <4>5, <4>7
      <4>9. QED
        BY <4>2, <4>4, <4>5, <4>8
    <3>3. QED
      BY <3>1, <3>2
  <2>2. QED
    BY <2>1
<1>3. Nat \subseteq N
  <2> HIDE DEF N
  <2> QED
    BY <1>1, <1>2, Ind
<1>4. Cardinality(S) \in Nat
  BY TreeKeys, FS_CardinalityType
<1>5. QED
  BY <1>3, <1>4

-----------------------------------------------------------------------------
(* The keys of a tree, and search trees and Andersson trees without naming   *)
(* them.                                                                     *)

Keys(u) == CHOOSE S : Tree(u, S, "any")
\* Search trees, and Andersson trees.
Search(u) == Tree(u, Keys(u), "any")
AA(u) == Tree(u, Keys(u), "aa")

\* Whatever is a set of keys of a tree is its set of keys.
LEMMA KeysOf ==
  ASSUME NEW u, NEW S
  PROVE  /\ Tree(u, S, "any") => S = Keys(u) /\ Search(u)
         /\ Tree(u, S, "aa") => S = Keys(u) /\ AA(u) /\ Search(u)
<1>1. Tree(u, S, "any") => Tree(u, Keys(u), "any")
  BY DEF Keys
<1>2. Tree(u, S, "any") => S = Keys(u)
  BY <1>1, OneKeys
<1>3. Tree(u, S, "aa") => Tree(u, S, "any")
  BY SearchTree
<1>4. QED
  BY <1>1, <1>2, <1>3 DEF Search, AA

\* The keys of a search tree.
LEMMA KeysFinite ==
  ASSUME NEW u, Search(u)
  PROVE  Keys(u) \in SUBSET Key /\ Keys(u) \subseteq Int /\ IsFiniteSet(Keys(u))
BY TreeKeys, KeyAssumption DEF Search

\* The sentinel is an Andersson tree without keys.
LEMMA NilKeys == Search(Nil) /\ AA(Nil) /\ Keys(Nil) = {}
BY NilTree, KeysOf

\* An Andersson tree is a search tree.
LEMMA AASearch ==
  ASSUME NEW u, AA(u)
  PROVE  Search(u)
BY KeysOf DEF AA

\* A search tree taken apart.
LEMMA SearchOpen ==
  ASSUME NEW u, Search(u), u # Nil
  PROVE  /\ u = Node(u.level, u.key, u.left, u.right)
         /\ u.level \in Nat \ {0} /\ u.key \in Key /\ u.key \in Int
         /\ Search(u.left) /\ Search(u.right)
         /\ Left(u) = u.left /\ Right(u) = u.right
         /\ Keys(u) = Keys(u.left) \cup {u.key} \cup Keys(u.right)
         /\ \A x \in Keys(u.left) : x < u.key
         /\ \A x \in Keys(u.right) : u.key < x
<1>1. PICK a, b : \E l \in Nat \ {0}, k \in Key, A, B \in SUBSET Key :
        /\ u = Node(l, k, a, b)
        /\ Tree(a, A, "any") /\ Tree(b, B, "any")
        /\ Keys(u) = A \cup {k} \cup B
        /\ \A x \in A : x < k
        /\ \A x \in B : k < x
  BY OpenTree DEF Search
<1>2. PICK l \in Nat \ {0}, k \in Key, A, B \in SUBSET Key :
        /\ u = Node(l, k, a, b)
        /\ Tree(a, A, "any") /\ Tree(b, B, "any")
        /\ Keys(u) = A \cup {k} \cup B
        /\ \A x \in A : x < k
        /\ \A x \in B : k < x
  BY <1>1
<1>3. u.level = l /\ u.key = k /\ u.left = a /\ u.right = b
  BY <1>2, NodeFields
<1>4. A = Keys(a) /\ B = Keys(b) /\ Search(a) /\ Search(b)
  BY <1>2, KeysOf
<1>5. QED
  BY <1>2, <1>3, <1>4, KeyAssumption DEF Left, Right

\* A search tree put together.
LEMMA SearchMake ==
  ASSUME NEW l \in Nat \ {0}, NEW k \in Key, NEW a, NEW b, Search(a), Search(b),
         \A x \in Keys(a) : x < k, \A x \in Keys(b) : k < x
  PROVE  /\ Search(Node(l, k, a, b))
         /\ Keys(Node(l, k, a, b)) = Keys(a) \cup {k} \cup Keys(b)
<1>1. Tree(Node(l, k, a, b), Keys(a) \cup {k} \cup Keys(b), "any")
  BY MakeTree DEF Search
<1>2. QED
  BY <1>1, KeysOf

\* An Andersson tree taken apart.
LEMMA AAOpen ==
  ASSUME NEW u, AA(u), u # Nil
  PROVE  AA(u.left) /\ AA(u.right) /\ Rule(u)
<1>1. PICK a, b : \E l \in Nat \ {0}, k \in Key, A, B \in SUBSET Key :
        u = Node(l, k, a, b) /\ Tree(a, A, "aa") /\ Tree(b, B, "aa") /\ Rule(u)
  BY OpenTree DEF AA
<1>2. u.left = a /\ u.right = b /\ AA(a) /\ AA(b) /\ Rule(u)
  BY <1>1, NodeFields, KeysOf
<1>3. QED
  BY <1>2

\* An Andersson tree put together.
LEMMA AAMake ==
  ASSUME NEW l \in Nat \ {0}, NEW k \in Key, NEW a, NEW b, AA(a), AA(b),
         \A x \in Keys(a) : x < k, \A x \in Keys(b) : k < x,
         a.level = l - 1, b.level \in {l - 1, l}, Right(b).level < l
  PROVE  AA(Node(l, k, a, b)) /\ Keys(Node(l, k, a, b)) = Keys(a) \cup {k} \cup Keys(b)
<1>1. Rule(Node(l, k, a, b))
  BY NodeFields DEF Rule
<1>2. Tree(Node(l, k, a, b), Keys(a) \cup {k} \cup Keys(b), "aa")
  BY <1>1, MakeTree DEF AA
<1>3. QED
  BY <1>2, KeysOf

\* The levels at and below the root of an Andersson tree.
LEMMA Levels ==
  ASSUME NEW u, AA(u)
  PROVE  /\ u.level \in Nat /\ Left(u).level \in Nat /\ Right(u).level \in Nat
         /\ u = Nil <=> u.level = 0
         /\ u # Nil => /\ Left(u).level = u.level - 1
                       /\ Right(u).level \in {u.level - 1, u.level}
                       /\ Right(Right(u)).level < u.level
         /\ Right(u).level =< u.level
<1>1. CASE u = Nil
  BY <1>1, NodeFields
<1>2. CASE u # Nil
  BY <1>2, AASearch, SearchOpen, AAOpen, NodeFields DEF Rule
<1>3. QED
  BY <1>1, <1>2

-----------------------------------------------------------------------------
(* The macros on nodes. *)

\* skew leaves a node alone whose left child is lower.
LEMMA SkewStay ==
  ASSUME NEW l, NEW k, NEW a, NEW b, a.level # l
  PROVE  Skew(Node(l, k, a, b)) = Node(l, k, a, b)
BY NodeFields DEF Skew

\* skew of a node whose left child has its level.
LEMMA SkewTurn ==
  ASSUME NEW l, NEW k, NEW b, NEW k1, NEW a1, NEW b1
  PROVE  Skew(Node(l, k, Node(l, k1, a1, b1), b)) = Node(l, k1, a1, Node(l, k, b1, b))
<1> DEFINE t == Node(l, k, Node(l, k1, a1, b1), b)
<1>1. t # Nil /\ Left(t).level = t.level /\ t.left = Node(l, k1, a1, b1) /\ t.left.right = b1
  BY NodeFields
<1>2. Skew(t) = [t.left EXCEPT !.right = [t EXCEPT !.left = t.left.right]]
  BY <1>1 DEF Skew
<1>3. [t EXCEPT !.left = b1] = Node(l, k, b1, b)
  BY DEF Node
<1>4. [Node(l, k1, a1, b1) EXCEPT !.right = Node(l, k, b1, b)] = Node(l, k1, a1, Node(l, k, b1, b))
  BY DEF Node
<1> HIDE DEF t
<1>5. QED
  BY <1>1, <1>2, <1>3, <1>4 DEF t

\* split leaves a node alone whose right grandchild is lower.
LEMMA SplitStay ==
  ASSUME NEW l, NEW k, NEW a, NEW b, Right(b).level # l
  PROVE  Split(Node(l, k, a, b)) = Node(l, k, a, b)
BY NodeFields DEF Split

\* split of a node whose right grandchild has its level.
LEMMA SplitTurn ==
  ASSUME NEW l \in Nat, NEW k, NEW a, NEW k1, NEW a1, NEW b1, b1.level = l
  PROVE  Split(Node(l, k, a, Node(l, k1, a1, b1))) = Node(l + 1, k1, Node(l, k, a, a1), b1)
<1> DEFINE t == Node(l, k, a, Node(l, k1, a1, b1))
<1>1. /\ t # Nil /\ Right(Right(t)).level = t.level
      /\ t.right = Node(l, k1, a1, b1) /\ t.right.left = a1
  BY NodeFields
<1>2. Split(t) = [t.right EXCEPT !.left = [t EXCEPT !.right = t.right.left], !.level = @ + 1]
  BY <1>1 DEF Split
<1>3. [t EXCEPT !.right = a1] = Node(l, k, a, a1)
  BY DEF Node
<1>4. [Node(l, k1, a1, b1) EXCEPT !.left = Node(l, k, a, a1), !.level = @ + 1]
        = Node(l + 1, k1, Node(l, k, a, a1), b1)
  <2> DEFINE d == Node(l, k, a, a1)
  <2> HIDE DEF d
  <2>1. [Node(l, k1, a1, b1) EXCEPT !.left = d, !.level = @ + 1] = Node(l + 1, k1, d, b1)
    <3>1. [Node(l, k1, a1, b1) EXCEPT !.left = d] = Node(l, k1, d, b1)
      BY DEF Node
    <3>2. [Node(l, k1, d, b1) EXCEPT !.level = @ + 1] = Node(l + 1, k1, d, b1)
      BY DEF Node
    <3>3. [Node(l, k1, a1, b1) EXCEPT !.left = d, !.level = @ + 1]
            = [[Node(l, k1, a1, b1) EXCEPT !.left = d] EXCEPT !.level = @ + 1]
      BY DEF Node
    <3>4. QED
      BY <3>1, <3>2, <3>3
  <2>2. QED
    BY <2>1 DEF d
<1> HIDE DEF t
<1>5. Split(t) = [Node(l, k1, a1, b1) EXCEPT !.left = Node(l, k, a, a1), !.level = @ + 1]
  BY <1>1, <1>2, <1>3
<1>6. QED
  BY <1>4, <1>5 DEF t

-----------------------------------------------------------------------------
(* The walk back of map_insert. *)

\* How a subtree changes: it may rise by a level, and then it had a horizontal
\* link and has none.
Rise(o, n) ==
  \/ n.level = o.level
  \/ n.level = o.level + 1 /\ Right(o).level = o.level /\ Right(n).level < n.level

\* A node whose left child has changed like this, after skew and split.
LEMMA GrowLeft ==
  ASSUME NEW l \in Nat \ {0}, NEW k \in Key, NEW a, NEW b, NEW c, AA(a), AA(b), AA(c),
         a.level = l - 1, b.level \in {l - 1, l}, Right(b).level < l,
         \A x \in Keys(c) : x < k, \A x \in Keys(b) : k < x, Rise(a, c)
  PROVE  LET r == Split(Skew(Node(l, k, c, b)))
         IN  AA(r) /\ Keys(r) = Keys(c) \cup {k} \cup Keys(b) /\ Rise(Node(l, k, a, b), r)
<1> DEFINE r == Split(Skew(Node(l, k, c, b)))
<1>1. CASE c.level = l - 1
  <2>1. r = Node(l, k, c, b)
    BY <1>1, SkewStay, SplitStay, Levels
  <2>2. QED
    BY <1>1, <2>1, AAMake, NodeFields DEF Rise
<1>2. CASE c.level = l /\ Right(c).level < l
  <2>0. c # Nil
    BY <1>2, NodeFields
  <2> DEFINE k1 == c.key  a1 == c.left  b1 == c.right
  <2>1. /\ c = Node(l, k1, a1, b1) /\ AA(a1) /\ AA(b1) /\ a1.level = l - 1 /\ b1.level = l - 1
        /\ Keys(c) = Keys(a1) \cup {k1} \cup Keys(b1) /\ k1 \in Key
        /\ \A x \in Keys(a1) : x < k1
        /\ \A x \in Keys(b1) : k1 < x
    BY <1>2, <2>0, AAOpen, AASearch, SearchOpen, Levels
  <2>2. Keys(a1) \subseteq Int /\ Keys(b1) \subseteq Int /\ Keys(b) \subseteq Int /\ k \in Int /\ k1 \in Int
    BY <2>1, AASearch, KeysFinite, KeyAssumption
  <2> HIDE DEF k1, a1, b1
  <2>3. Right(b1).level < l /\ Right(a1).level < l /\ Right(b).level \in Nat
    BY <2>1, Levels
  <2>4. CASE b.level = l - 1
    <3> DEFINE d == Node(l, k, b1, b)
    <3>1. AA(d) /\ Keys(d) = Keys(b1) \cup {k} \cup Keys(b)
      BY <2>1, <2>2, <2>3, <2>4, AAMake
    <3>2. AA(Node(l, k1, a1, d)) /\ Keys(Node(l, k1, a1, d)) = Keys(a1) \cup {k1} \cup Keys(d)
      <4>1. \A x \in Keys(d) : k1 < x
        BY <2>1, <2>2, <3>1
      <4>2. d.level = l /\ Right(d).level < l
        BY <2>4, NodeFields
      <4> HIDE DEF d
      <4>3. QED
        BY <2>1, <3>1, <4>1, <4>2, AAMake
    <3>3. r = Node(l, k1, a1, d)
      <4>1. Skew(Node(l, k, c, b)) = Node(l, k1, a1, d)
        BY <2>1, SkewTurn
      <4>2. Right(d).level # l
        BY <2>4, NodeFields
      <4>3. QED
        BY <4>1, <4>2, SplitStay
    <3>4. r.level = l
      BY <3>3, NodeFields
    <3>5. QED
      BY <2>1, <3>1, <3>2, <3>3, <3>4, NodeFields DEF Rise
  <2>5. CASE b.level = l
    <3> DEFINE d == Node(l, k1, a1, b1)
    <3>1. AA(d) /\ Keys(d) = Keys(c)
      BY <2>1
    <3>2. /\ AA(Node(l + 1, k, c, b))
          /\ Keys(Node(l + 1, k, c, b)) = Keys(c) \cup {k} \cup Keys(b)
      <4>1. l + 1 \in Nat \ {0} /\ (l + 1) - 1 = l /\ Right(b).level < l + 1
        BY <2>3
      <4>2. QED
        BY <1>2, <2>5, <4>1, AAMake
    <3>3. r = Node(l + 1, k, c, b)
      <4>1. Skew(Node(l, k, c, b)) = Node(l, k1, a1, Node(l, k, b1, b))
        BY <2>1, SkewTurn
      <4>2. Split(Node(l, k1, a1, Node(l, k, b1, b))) = Node(l + 1, k, Node(l, k1, a1, b1), b)
        BY <2>5, SplitTurn
      <4>3. QED
        BY <2>1, <4>1, <4>2
    <3>4. r.level = l + 1 /\ Right(r).level = l
      BY <2>5, <3>3, NodeFields
    <3>5. QED
      BY <2>5, <3>2, <3>3, <3>4, NodeFields DEF Rise
  <2>6. QED
    BY <2>4, <2>5
<1>3. QED
  BY <1>1, <1>2 DEF Rise

\* The same for its right child.
LEMMA GrowRight ==
  ASSUME NEW l \in Nat \ {0}, NEW k \in Key, NEW a, NEW b, NEW c, AA(a), AA(b), AA(c),
         a.level = l - 1, b.level \in {l - 1, l}, Right(b).level < l,
         \A x \in Keys(a) : x < k, \A x \in Keys(c) : k < x, Rise(b, c)
  PROVE  LET r == Split(Skew(Node(l, k, a, c)))
         IN  AA(r) /\ Keys(r) = Keys(a) \cup {k} \cup Keys(c) /\ Rise(Node(l, k, a, b), r)
<1> DEFINE r == Split(Skew(Node(l, k, a, c)))
<1>0. Skew(Node(l, k, a, c)) = Node(l, k, a, c)
  BY SkewStay
<1>1. c.level \in {l - 1, l} /\ Right(c).level \in Nat /\ Right(c).level =< c.level
  BY Levels DEF Rise
<1>2. CASE Right(c).level < l
  <2>1. r = Node(l, k, a, c)
    BY <1>0, <1>2, SplitStay
  <2>2. QED
    BY <1>1, <1>2, <2>1, AAMake, NodeFields DEF Rise
<1>3. CASE Right(c).level = l
  <2>1. c.level = l /\ b.level = l /\ c # Nil
    BY <1>1, <1>3, Levels DEF Rise
  <2> DEFINE k1 == c.key  a1 == c.left  b1 == c.right
  <2>2. /\ c = Node(l, k1, a1, b1) /\ AA(a1) /\ AA(b1) /\ a1.level = l - 1 /\ b1.level = l
        /\ Keys(c) = Keys(a1) \cup {k1} \cup Keys(b1) /\ k1 \in Key
        /\ \A x \in Keys(a1) : x < k1
        /\ \A x \in Keys(b1) : k1 < x
        /\ Right(b1).level < l
    BY <1>3, <2>1, AAOpen, AASearch, SearchOpen, Levels
  <2>3. Keys(a1) \subseteq Int /\ Keys(b1) \subseteq Int /\ Keys(a) \subseteq Int /\ k \in Int /\ k1 \in Int
    BY <2>2, AASearch, KeysFinite, KeyAssumption
  <2> HIDE DEF k1, a1, b1
  <2> DEFINE d == Node(l, k, a, a1)
  <2>4. Right(a1).level < l
    BY <2>2, Levels
  <2>5. AA(d) /\ Keys(d) = Keys(a) \cup {k} \cup Keys(a1) /\ d.level = l
    BY <2>2, <2>3, <2>4, AAMake, NodeFields
  <2> HIDE DEF d
  <2>6. /\ AA(Node(l + 1, k1, d, b1))
        /\ Keys(Node(l + 1, k1, d, b1)) = Keys(d) \cup {k1} \cup Keys(b1)
    <3>1. \A x \in Keys(d) : x < k1
      BY <2>2, <2>3, <2>5
    <3>2. l + 1 \in Nat \ {0} /\ (l + 1) - 1 = l /\ Right(b1).level < l + 1
      BY <2>2, Levels
    <3>3. QED
      BY <2>2, <2>5, <3>1, <3>2, AAMake
  <2>7. r = Node(l + 1, k1, d, b1)
    BY <1>0, <2>2, SplitTurn DEF d
  <2>8. r.level = l + 1 /\ Right(r).level = l
    BY <2>2, <2>7, NodeFields
  <2>9. QED
    BY <2>1, <2>2, <2>5, <2>6, <2>7, <2>8, NodeFields DEF Rise
<1>4. QED
  BY <1>1, <1>2, <1>3

-----------------------------------------------------------------------------
(* The walk back of map_remove. *)

\* What is known of a node of an Andersson tree.
LEMMA AAParts ==
  ASSUME NEW u, AA(u), u # Nil
  PROVE  /\ u = Node(u.level, u.key, u.left, u.right)
         /\ u.level \in Nat \ {0} /\ u.key \in Key /\ u.key \in Int
         /\ AA(u.left) /\ AA(u.right)
         /\ u.left.level = u.level - 1 /\ u.right.level \in {u.level - 1, u.level}
         /\ Right(u.right).level < u.level /\ Right(u.right).level \in Nat
         /\ Keys(u) = Keys(u.left) \cup {u.key} \cup Keys(u.right)
         /\ Keys(u.left) \subseteq Int /\ Keys(u.right) \subseteq Int
         /\ \A x \in Keys(u.left) : x < u.key
         /\ \A x \in Keys(u.right) : u.key < x
BY AAOpen, AASearch, SearchOpen, KeysFinite, Levels DEF Rule

\* The macros leave Andersson trees alone.
LEMMA MacrosStay ==
  ASSUME NEW u, AA(u)
  PROVE  Skew(u) = u /\ Split(u) = u /\ SkewRight(u) = u
<1>1. CASE u = Nil
  BY <1>1 DEF Skew, Split, SkewRight
<1>2. CASE u # Nil
  <2> DEFINE l == u.level  k == u.key  a == u.left  b == u.right
  <2>1. /\ u = Node(l, k, a, b) /\ l \in Nat \ {0} /\ a.level = l - 1 /\ Right(b).level < l
        /\ Right(b).level \in Nat /\ AA(b)
    BY <1>2, AAParts
  <2>2. Skew(b) = b
    <3>1. CASE b = Nil
      BY <3>1 DEF Skew
    <3>2. CASE b # Nil
      <4>1. b = Node(b.level, b.key, b.left, b.right) /\ b.left.level = b.level - 1 /\ b.level \in Nat
        BY <2>1, <3>2, AAParts
      <4>2. QED
        BY <4>1, SkewStay
    <3>3. QED
      BY <3>1, <3>2
  <2> HIDE DEF l, k, a, b
  <2>3. Skew(u) = u /\ Split(u) = u
    BY <2>1, SkewStay, SplitStay
  <2>4. SkewRight(u) = [Node(l, k, a, b) EXCEPT !.right = Skew(b)]
    BY <1>2, <2>1, NodeFields DEF SkewRight
  <2>5. [Node(l, k, a, b) EXCEPT !.right = b] = Node(l, k, a, b)
    BY DEF Node
  <2>6. QED
    BY <2>1, <2>2, <2>3, <2>4, <2>5
<1>3. QED
  BY <1>1, <1>2

\* The macros on the right child of a node.
LEMMA OnRight ==
  ASSUME NEW l, NEW k, NEW a, NEW b
  PROVE  /\ SkewRight(Node(l, k, a, b)) = Node(l, k, a, Skew(b))
         /\ SplitRight(Node(l, k, a, b)) = Node(l, k, a, Split(b))
<1>1. SkewRight(Node(l, k, a, b)) = [Node(l, k, a, b) EXCEPT !.right = Skew(b)]
  BY NodeFields DEF SkewRight
<1>2. SplitRight(Node(l, k, a, b)) = [Node(l, k, a, b) EXCEPT !.right = Split(b)]
  BY NodeFields DEF SplitRight
<1>3. \A c : [Node(l, k, a, b) EXCEPT !.right = c] = Node(l, k, a, c)
  BY DEF Node
<1>4. QED
  BY <1>1, <1>2, <1>3

\* A node that has lost a level on one side is lowered, a right child of its
\* level with it.
LEMMA LoweredNode ==
  ASSUME NEW l \in Nat, NEW k, NEW a, NEW b, b.level \in Nat
  PROVE  /\ b.level =< l - 1 => Lowered(Node(l, k, a, b)) = Node(l - 1, k, a, b)
         /\ \A k1, a1, b1 : b = Node(l, k1, a1, b1) =>
              Lowered(Node(l, k, a, b)) = Node(l - 1, k, a, Node(l - 1, k1, a1, b1))
<1> DEFINE c == IF b.level > l - 1 THEN [b EXCEPT !.level = l - 1] ELSE b
<1>1. Lowered(Node(l, k, a, b)) = Node(l - 1, k, a, c)
  <2>1. Lowered(Node(l, k, a, b)) =
          [Node(l, k, a, b) EXCEPT !.level = l - 1,
                                   !.right = IF @.level > l - 1 THEN [@ EXCEPT !.level = l - 1] ELSE @]
    <3> DEFINE t == Node(l, k, a, b)
    <3>1. t.level = l
      BY NodeFields
    <3> HIDE DEF t
    <3>2. Lowered(t) =
            [t EXCEPT !.level = t.level - 1,
                      !.right = IF @.level > t.level - 1 THEN [@ EXCEPT !.level = t.level - 1] ELSE @]
      BY DEF Lowered
    <3>3. QED
      BY <3>1, <3>2 DEF t
  <2>2. [Node(l, k, a, b) EXCEPT !.level = l - 1,
                                 !.right = IF @.level > l - 1 THEN [@ EXCEPT !.level = l - 1] ELSE @]
          = [[Node(l, k, a, b) EXCEPT !.level = l - 1]
               EXCEPT !.right = IF @.level > l - 1 THEN [@ EXCEPT !.level = l - 1] ELSE @]
    BY DEF Node
  <2>3. [Node(l, k, a, b) EXCEPT !.level = l - 1] = Node(l - 1, k, a, b)
    BY DEF Node
  <2>4. [Node(l - 1, k, a, b) EXCEPT !.right = IF @.level > l - 1 THEN [@ EXCEPT !.level = l - 1] ELSE @]
          = [Node(l - 1, k, a, b) EXCEPT !.right = c]
    BY NodeFields
  <2>5. \A d : [Node(l - 1, k, a, b) EXCEPT !.right = d] = Node(l - 1, k, a, d)
    BY DEF Node
  <2> HIDE DEF c
  <2>6. Lowered(Node(l, k, a, b))
          = [Node(l - 1, k, a, b) EXCEPT !.right = IF @.level > l - 1 THEN [@ EXCEPT !.level = l - 1] ELSE @]
    BY <2>1, <2>2, <2>3
  <2>7. Lowered(Node(l, k, a, b)) = [Node(l - 1, k, a, b) EXCEPT !.right = c]
    BY <2>4, <2>6
  <2>8. QED
    BY <2>5, <2>7
<1>2. ASSUME b.level =< l - 1 PROVE c = b
  BY <1>2
<1>3. ASSUME NEW k1, NEW a1, NEW b1, b = Node(l, k1, a1, b1) PROVE c = Node(l - 1, k1, a1, b1)
  <2>1. c = [Node(l, k1, a1, b1) EXCEPT !.level = l - 1]
    BY <1>3, NodeFields
  <2>2. [Node(l, k1, a1, b1) EXCEPT !.level = l - 1] = Node(l - 1, k1, a1, b1)
    BY DEF Node
  <2>3. QED
    BY <2>1, <2>2
<1> HIDE DEF c
<1>4. QED
  BY <1>1, <1>2, <1>3

\* Rebalance, in terms of the node once its right child has been skewed.
LEMMA RebalanceNode ==
  ASSUME NEW l, NEW k, NEW a, NEW b
  PROVE  /\ ~ (a.level < l - 1) /\ ~ (b.level < l - 1) => Rebalance(Node(l, k, a, b)) = Node(l, k, a, b)
         /\ a.level < l - 1 \/ b.level < l - 1 =>
              \A m, q, e, f : SkewRight(Skew(Lowered(Node(l, k, a, b)))) = Node(m, q, e, f)
                 => Rebalance(Node(l, k, a, b)) = SplitRight(Split(Node(m, q, e, SkewRight(f))))
<1> DEFINE t == Node(l, k, a, b)
<1>1. t.level = l /\ Left(t) = a /\ Right(t) = b
  BY NodeFields
<1>2. ASSUME a.level < l - 1 \/ b.level < l - 1, NEW m, NEW q, NEW e, NEW f,
             SkewRight(Skew(Lowered(t))) = Node(m, q, e, f)
      PROVE  Rebalance(t) = SplitRight(Split(Node(m, q, e, SkewRight(f))))
  <2>1. [Node(m, q, e, f) EXCEPT !.right = SkewRight(@)] = [Node(m, q, e, f) EXCEPT !.right = SkewRight(f)]
    BY NodeFields
  <2>2. \A c : [Node(m, q, e, f) EXCEPT !.right = c] = Node(m, q, e, c)
    BY DEF Node
  <2> HIDE DEF t
  <2>3. QED
    BY <1>1, <1>2, <2>1, <2>2 DEF Rebalance
<1>3. ASSUME ~ (a.level < l - 1), ~ (b.level < l - 1) PROVE Rebalance(t) = t
  <2> HIDE DEF t
  <2> QED
    BY <1>1, <1>3 DEF Rebalance
<1>4. QED
  BY <1>2, <1>3

\* How a subtree changes: it may fall by a level, and otherwise it has a
\* horizontal link only if it had one.
Fall(o, n) ==
  \/ n.level = o.level /\ (Right(n).level = n.level => Right(o).level = o.level)
  \/ o # Nil /\ n.level = o.level - 1

\* The same of a node of level l with the right child b.
FallNode(l, b, n) ==
  \/ n.level = l /\ (Right(n).level = l => b.level = l)
  \/ n.level = l - 1

\* A node whose left child has changed like this, after its step.
LEMMA ShrinkLeft ==
  ASSUME NEW l \in Nat \ {0}, NEW k \in Key, NEW a, NEW b, NEW c, AA(a), AA(b), AA(c),
         a.level = l - 1, b.level \in {l - 1, l}, Right(b).level < l,
         \A x \in Keys(c) : x < k, \A x \in Keys(b) : k < x, Fall(a, c)
  PROVE  LET r == Rebalance(Node(l, k, c, b))
         IN  AA(r) /\ Keys(r) = Keys(c) \cup {k} \cup Keys(b) /\ FallNode(l, b, r)
<1> DEFINE r == Rebalance(Node(l, k, c, b))
           t == Node(l, k, c, b)
<1>0. k \in Int /\ Keys(c) \subseteq Int /\ Keys(b) \subseteq Int
  BY KeyAssumption, KeysFinite, AASearch
<1>1. CASE c.level = l - 1
  <2>1. r = Node(l, k, c, b)
    BY <1>1, RebalanceNode
  <2>2. QED
    BY <1>1, <2>1, AAMake, NodeFields DEF FallNode
<1>2. CASE c.level = l - 2 /\ a # Nil
  <2>0. l - 1 \in Nat \ {0} /\ (l - 1) - 1 = l - 2 /\ (l - 1) + 1 = l /\ b # Nil
    BY <1>2, Levels
  <2>1. CASE b.level = l - 1
    <3>1. SkewRight(Skew(Lowered(t))) = Node(l - 1, k, c, b)
      <4>1. Lowered(t) = Node(l - 1, k, c, b)
        BY <2>0, <2>1, LoweredNode
      <4>2. Skew(Node(l - 1, k, c, b)) = Node(l - 1, k, c, b)
        BY <1>2, <2>0, SkewStay
      <4>3. QED
        BY <4>1, <4>2, OnRight, MacrosStay
    <3>2. r = SplitRight(Split(Node(l - 1, k, c, b)))
      BY <1>2, <2>0, <3>1, RebalanceNode, MacrosStay
    <3> DEFINE kb == b.key  ba == b.left  bb == b.right
    <3>3. /\ b = Node(l - 1, kb, ba, bb) /\ kb \in Key /\ kb \in Int /\ AA(ba) /\ AA(bb)
          /\ ba.level = l - 2 /\ bb.level \in {l - 2, l - 1} /\ Right(bb).level < l - 1
          /\ Keys(b) = Keys(ba) \cup {kb} \cup Keys(bb) /\ bb = Right(b)
          /\ Keys(ba) \subseteq Int /\ Keys(bb) \subseteq Int
          /\ \A x \in Keys(ba) : x < kb
          /\ \A x \in Keys(bb) : kb < x
      BY <2>0, <2>1, AAParts DEF Right
    <3> HIDE DEF kb, ba, bb
    <3>4. CASE bb.level = l - 2
      <4>1. r = Node(l - 1, k, c, b)
        BY <2>0, <3>2, <3>3, <3>4, SplitStay, OnRight, MacrosStay
      <4>2. QED
        BY <1>2, <2>0, <2>1, <3>3, <3>4, <4>1, AAMake, NodeFields DEF FallNode
    <3>5. CASE bb.level = l - 1
      <4> DEFINE d == Node(l - 1, k, c, ba)
      <4>1. Split(Node(l - 1, k, c, b)) = Node(l, kb, d, bb)
        BY <2>0, <3>3, <3>5, SplitTurn
      <4>2. r = Node(l, kb, d, bb)
        BY <3>2, <3>3, <4>1, OnRight, MacrosStay
      <4>3. AA(d) /\ Keys(d) = Keys(c) \cup {k} \cup Keys(ba) /\ d.level = l - 1
        <5>1. Right(ba).level < l - 1
          BY <2>0, <3>3, Levels
        <5>2. QED
          BY <1>2, <2>0, <3>3, <5>1, AAMake, NodeFields
      <4> HIDE DEF d
      <4>4. AA(r) /\ Keys(r) = Keys(d) \cup {kb} \cup Keys(bb)
        <5>1. \A x \in Keys(d) : x < kb
          BY <1>0, <3>3, <4>3
        <5>2. Right(bb).level < l
          BY <2>0, <3>3, Levels
        <5>3. QED
          BY <3>3, <3>5, <4>2, <4>3, <5>1, <5>2, AAMake
      <4>5. r.level = l /\ Right(r).level = l - 1
        BY <3>5, <4>2, NodeFields
      <4>6. QED
        BY <3>3, <4>3, <4>4, <4>5 DEF FallNode
    <3>6. QED
      BY <3>3, <3>4, <3>5
  <2>2. CASE b.level = l
    <3> DEFINE kb == b.key  ba == b.left  bb == b.right
               kx == ba.key  xa == ba.left  xb == ba.right
    <3>1. /\ b = Node(l, kb, ba, bb) /\ kb \in Key /\ kb \in Int /\ AA(ba) /\ AA(bb)
          /\ ba.level = l - 1 /\ bb.level = l - 1
          /\ Keys(b) = Keys(ba) \cup {kb} \cup Keys(bb)
          /\ Keys(ba) \subseteq Int /\ Keys(bb) \subseteq Int
          /\ \A x \in Keys(ba) : x < kb
          /\ \A x \in Keys(bb) : kb < x
      BY <2>0, <2>2, AAParts DEF Right
    <3>2. /\ ba = Node(l - 1, kx, xa, xb) /\ kx \in Key /\ kx \in Int /\ AA(xa) /\ AA(xb)
          /\ xa.level = l - 2 /\ xb.level \in {l - 2, l - 1} /\ Right(xb).level < l - 1
          /\ Keys(ba) = Keys(xa) \cup {kx} \cup Keys(xb)
          /\ Keys(xa) \subseteq Int /\ Keys(xb) \subseteq Int
          /\ \A x \in Keys(xa) : x < kx
          /\ \A x \in Keys(xb) : kx < x
      <4>1. ba # Nil
        BY <2>0, <3>1, Levels
      <4>2. QED
        BY <2>0, <3>1, <4>1, AAParts
    <3> HIDE DEF kb, ba, bb, kx, xa, xb
    <3>3. Right(xa).level < l - 1 /\ Right(bb).level =< l - 1 /\ Right(bb).level \in Nat
      BY <2>0, <3>1, <3>2, Levels
    <3> DEFINE n == Node(l - 1, kb, xb, bb)
               d == Node(l - 1, k, c, xa)
    <3>4. r = SplitRight(Split(Node(l - 1, k, c, Node(l - 1, kx, xa, Skew(n)))))
      <4>1. Lowered(t) = Node(l - 1, k, c, Node(l - 1, kb, ba, bb))
        BY <2>0, <2>2, <3>1, LoweredNode
      <4>2. Skew(Lowered(t)) = Lowered(t)
        BY <1>2, <2>0, <4>1, SkewStay
      <4>3. Skew(Node(l - 1, kb, ba, bb)) = Node(l - 1, kx, xa, n)
        BY <3>2, SkewTurn
      <4> HIDE DEF n, t
      <4>4. SkewRight(Skew(Lowered(t))) = Node(l - 1, k, c, Node(l - 1, kx, xa, n))
        BY <4>1, <4>2, <4>3, OnRight
      <4>5. SkewRight(Node(l - 1, kx, xa, n)) = Node(l - 1, kx, xa, Skew(n))
        BY OnRight
      <4>6. QED
        BY <1>2, <2>0, <4>4, <4>5, RebalanceNode DEF t
    <3>5. AA(d) /\ Keys(d) = Keys(c) \cup {k} \cup Keys(xa) /\ d.level = l - 1
      BY <1>2, <2>0, <3>1, <3>2, <3>3, AAMake, NodeFields
    <3> HIDE DEF d
    <3>6. \A x \in Keys(d) : x < kx
      BY <1>0, <3>1, <3>2, <3>5
    <3>7. Keys(c) \cup {k} \cup Keys(b) = Keys(d) \cup {kx} \cup Keys(xb) \cup {kb} \cup Keys(bb)
      BY <3>1, <3>2, <3>5
    <3>7a. Keys(d) \subseteq Int /\ kx < kb /\ \A x \in Keys(xb) : kx < x /\ x < kb
      BY <1>0, <3>1, <3>2, <3>5
    <3>8. CASE xb.level = l - 2
      <4>1. Skew(n) = n
        BY <2>0, <3>8, SkewStay
      <4>2. Split(Node(l - 1, k, c, Node(l - 1, kx, xa, n))) = Node(l, kx, d, n)
        <5>1. n.level = l - 1
          BY NodeFields
        <5> HIDE DEF n
        <5>2. QED
          BY <2>0, <5>1, SplitTurn DEF d
      <4>3. r = Node(l, kx, d, Split(n))
        BY <3>4, <4>1, <4>2, OnRight
      <4>4. CASE Right(bb).level < l - 1
        <5>1. Split(n) = n
          BY <2>0, <4>4, SplitStay
        <5>2. AA(n) /\ Keys(n) = Keys(xb) \cup {kb} \cup Keys(bb) /\ n.level = l - 1 /\ Right(n) = bb
          <6>1. \A x \in Keys(xb) : x < kb
            BY <3>7a
          <6>2. QED
            BY <2>0, <3>1, <3>2, <3>8, <4>4, <6>1, AAMake, NodeFields
        <5> HIDE DEF n
        <5>3. AA(r) /\ Keys(r) = Keys(d) \cup {kx} \cup Keys(n)
          <6>1. \A x \in Keys(n) : kx < x
            BY <3>1, <3>2, <3>7a, <5>2
          <6>2. Right(n).level < l
            BY <2>0, <3>1, <5>2
          <6>3. QED
            BY <3>2, <3>5, <3>6, <4>3, <5>1, <5>2, <6>1, <6>2, AAMake
        <5>4. r.level = l /\ Right(r).level = l - 1
          BY <4>3, <5>1, <5>2, NodeFields
        <5>5. QED
          BY <3>7, <5>2, <5>3, <5>4 DEF FallNode
      <4>5. CASE Right(bb).level = l - 1
        <5> DEFINE ky == bb.key  ya == bb.left  yb == bb.right
        <5>1. /\ bb = Node(l - 1, ky, ya, yb) /\ ky \in Key /\ ky \in Int /\ AA(ya) /\ AA(yb)
              /\ ya.level = l - 2 /\ yb.level = l - 1 /\ Right(yb).level < l - 1
              /\ Keys(bb) = Keys(ya) \cup {ky} \cup Keys(yb)
              /\ Keys(ya) \subseteq Int /\ Keys(yb) \subseteq Int
              /\ \A x \in Keys(ya) : x < ky
              /\ \A x \in Keys(yb) : ky < x
          <6>1. bb # Nil
            BY <2>0, <3>1, Levels
          <6>2. QED
            BY <2>0, <3>1, <4>5, <6>1, AAParts DEF Right
        <5> HIDE DEF ky, ya, yb
        <5> DEFINE e == Node(l - 1, kb, xb, ya)
                   f == Node(l, ky, e, yb)
        <5>2. Split(n) = f
          BY <2>0, <5>1, SplitTurn
        <5>3. AA(e) /\ Keys(e) = Keys(xb) \cup {kb} \cup Keys(ya) /\ e.level = l - 1
          <6>1. \A x \in Keys(xb) : x < kb
            BY <3>7a
          <6>2. \A x \in Keys(ya) : kb < x
            BY <3>1, <5>1
          <6>3. Right(ya).level < l - 1
            BY <2>0, <5>1, Levels
          <6>4. QED
            BY <2>0, <3>1, <3>2, <3>8, <5>1, <6>1, <6>2, <6>3, AAMake, NodeFields
        <5> HIDE DEF e
        <5>4. AA(f) /\ Keys(f) = Keys(e) \cup {ky} \cup Keys(yb) /\ f.level = l /\ Right(f) = yb
          <6>1. \A x \in Keys(e) : x < ky
            BY <3>1, <3>2, <3>7a, <5>1, <5>3
          <6>2. Right(yb).level < l
            BY <2>0, <5>1, Levels
          <6>3. QED
            BY <5>1, <5>3, <6>1, <6>2, AAMake, NodeFields
        <5> HIDE DEF f
        <5>5. AA(r) /\ Keys(r) = Keys(d) \cup {kx} \cup Keys(f)
          <6>1. \A x \in Keys(f) : kx < x
            BY <3>1, <3>2, <3>7a, <5>1, <5>3, <5>4
          <6>2. Right(f).level < l
            BY <5>1, <5>4
          <6>3. QED
            BY <3>2, <3>5, <3>6, <4>3, <5>2, <5>4, <6>1, <6>2, AAMake
        <5>6. r.level = l
          BY <4>3, NodeFields
        <5>7. Keys(r) = Keys(c) \cup {k} \cup Keys(b)
          BY <3>7, <5>1, <5>3, <5>4, <5>5
        <5>8. QED
          BY <2>2, <5>5, <5>6, <5>7 DEF FallNode
      <4>6. QED
        BY <2>0, <3>3, <4>4, <4>5
    <3>9. CASE xb.level = l - 1
      <4> DEFINE kz == xb.key  za == xb.left  zb == xb.right
      <4>1. /\ xb = Node(l - 1, kz, za, zb) /\ kz \in Key /\ kz \in Int /\ AA(za) /\ AA(zb)
            /\ za.level = l - 2 /\ zb.level = l - 2 /\ Right(zb).level < l - 1
            /\ Keys(xb) = Keys(za) \cup {kz} \cup Keys(zb)
            /\ Keys(za) \subseteq Int /\ Keys(zb) \subseteq Int
            /\ \A x \in Keys(za) : x < kz
            /\ \A x \in Keys(zb) : kz < x
        <5>1. xb # Nil
          BY <2>0, <3>9, NodeFields
        <5>2. QED
          BY <2>0, <3>2, <3>9, <5>1, AAParts DEF Right
      <4> HIDE DEF kz, za, zb
      <4> DEFINE g == Node(l, kb, xb, bb)
      <4>2. Skew(n) = Node(l - 1, kz, za, Node(l - 1, kb, zb, bb))
        BY <4>1, SkewTurn
      <4>3. Split(Node(l - 1, k, c, Node(l - 1, kx, xa, Skew(n)))) = Node(l, kx, d, Skew(n))
        <5>1. Skew(n).level = l - 1
          BY <4>2, NodeFields
        <5> HIDE DEF n
        <5>2. QED
          BY <2>0, <5>1, SplitTurn DEF d
      <4>4. Split(Skew(n)) = g
        BY <2>0, <3>1, <4>1, <4>2, SplitTurn
      <4>5. r = Node(l, kx, d, g)
        BY <3>4, <4>3, <4>4, OnRight
      <4>6. AA(g) /\ Keys(g) = Keys(xb) \cup {kb} \cup Keys(bb) /\ g.level = l /\ Right(g) = bb
        <5>1. \A x \in Keys(xb) : x < kb
          BY <3>7a
        <5>2. Right(bb).level < l
          BY <2>0, <3>3
        <5>3. QED
          BY <3>1, <3>2, <3>9, <5>1, <5>2, AAMake, NodeFields
      <4> HIDE DEF g
      <4>7. AA(r) /\ Keys(r) = Keys(d) \cup {kx} \cup Keys(g)
        <5>1. \A x \in Keys(g) : kx < x
          BY <3>1, <3>2, <3>7a, <4>6
        <5>2. Right(g).level < l
          BY <2>0, <3>1, <4>6
        <5>3. QED
          BY <3>2, <3>5, <3>6, <4>5, <4>6, <5>1, <5>2, AAMake
      <4>8. r.level = l
        BY <4>5, NodeFields
      <4>9. Keys(r) = Keys(c) \cup {k} \cup Keys(b)
        BY <3>7, <4>6, <4>7
      <4>10. QED
        BY <2>2, <4>7, <4>8, <4>9 DEF FallNode
    <3>10. QED
      BY <3>2, <3>8, <3>9
  <2>3. QED
    BY <2>1, <2>2
<1>3. c.level \in Nat /\ (c.level = l - 1 \/ (c.level = l - 2 /\ a # Nil))
  BY Levels DEF Fall
<1>4. QED
  BY <1>1, <1>2, <1>3

\* The same for its right child.
LEMMA ShrinkRight ==
  ASSUME NEW l \in Nat \ {0}, NEW k \in Key, NEW a, NEW b, NEW c, AA(a), AA(b), AA(c),
         a.level = l - 1, b.level \in {l - 1, l}, Right(b).level < l,
         \A x \in Keys(a) : x < k, \A x \in Keys(c) : k < x, Fall(b, c)
  PROVE  LET r == Rebalance(Node(l, k, a, c))
         IN  AA(r) /\ Keys(r) = Keys(a) \cup {k} \cup Keys(c) /\ FallNode(l, b, r)
<1> DEFINE r == Rebalance(Node(l, k, a, c))
           t == Node(l, k, a, c)
<1>0. k \in Int /\ Keys(a) \subseteq Int /\ Keys(c) \subseteq Int
  BY KeyAssumption, KeysFinite, AASearch
<1>1. CASE c.level \in {l - 1, l}
  <2>1. r = Node(l, k, a, c)
    BY <1>1, RebalanceNode
  <2>2. Right(c).level < l /\ (c.level = l => b.level = l)
    BY <1>1, Levels DEF Fall
  <2>3. QED
    BY <1>1, <2>1, <2>2, AAMake, NodeFields DEF FallNode
<1>2. CASE c.level = l - 2 /\ b.level = l - 1 /\ b # Nil
  <2>0. l - 1 \in Nat \ {0} /\ (l - 1) - 1 = l - 2 /\ (l - 1) + 1 = l /\ a # Nil
    BY <1>2, Levels
  <2>1. Right(c).level < l - 1
    BY <1>2, <2>0, Levels
  <2> DEFINE ka == a.key  aa == a.left  ab == a.right
             n == Node(l - 1, k, ab, c)
  <2>2. /\ a = Node(l - 1, ka, aa, ab) /\ ka \in Key /\ ka \in Int /\ AA(aa) /\ AA(ab)
        /\ aa.level = l - 2 /\ ab.level \in {l - 2, l - 1} /\ Right(ab).level < l - 1
        /\ Keys(a) = Keys(aa) \cup {ka} \cup Keys(ab)
        /\ Keys(aa) \subseteq Int /\ Keys(ab) \subseteq Int
        /\ \A x \in Keys(aa) : x < ka
        /\ \A x \in Keys(ab) : ka < x
    BY <2>0, AAParts DEF Right
  <2> HIDE DEF ka, aa, ab
  <2>3. Skew(Lowered(t)) = Node(l - 1, ka, aa, n)
    <3>1. Lowered(t) = Node(l - 1, k, a, c)
      BY <1>2, <2>0, LoweredNode
    <3>2. QED
      BY <2>2, <3>1, SkewTurn
  <2>4. CASE ab.level = l - 2
    <3>1. SkewRight(Skew(Lowered(t))) = Node(l - 1, ka, aa, n)
      <4>1. Skew(n) = n
        BY <2>0, <2>4, SkewStay
      <4> HIDE DEF n, t
      <4>2. QED
        BY <2>3, <4>1, OnRight
    <3>2. SkewRight(n) = n
      BY OnRight, MacrosStay
    <3>3. r = SplitRight(Split(Node(l - 1, ka, aa, n)))
      <4> HIDE DEF n
      <4>1. QED
        BY <1>2, <2>0, <3>1, <3>2, RebalanceNode
    <3>4. Split(n) = n
      BY <2>1, SplitStay
    <3>5. n.level = l - 1 /\ Right(n) = c
      BY NodeFields
    <3>6. AA(n) /\ Keys(n) = Keys(ab) \cup {k} \cup Keys(c)
      BY <1>2, <2>0, <2>1, <2>2, <2>4, AAMake
    <3> HIDE DEF n
    <3>7. r = Node(l - 1, ka, aa, n)
      <4>1. Split(Node(l - 1, ka, aa, n)) = Node(l - 1, ka, aa, n)
        BY <1>2, <2>0, <3>5, SplitStay
      <4>2. QED
        BY <3>3, <3>4, <4>1, OnRight
    <3>8. AA(r) /\ Keys(r) = Keys(aa) \cup {ka} \cup Keys(n)
      <4>1. \A x \in Keys(n) : ka < x
        BY <1>0, <2>2, <3>6
      <4>2. QED
        BY <1>2, <2>0, <2>2, <3>5, <3>6, <3>7, <4>1, AAMake
    <3>9. r.level = l - 1
      BY <3>7, NodeFields
    <3>10. QED
      BY <2>2, <3>6, <3>8, <3>9 DEF FallNode
  <2>5. CASE ab.level = l - 1
    <3> DEFINE kx == ab.key  xa == ab.left  xb == ab.right
               d == Node(l - 1, ka, aa, xa)
               e == Node(l - 1, k, xb, c)
    <3>1. /\ ab = Node(l - 1, kx, xa, xb) /\ kx \in Key /\ kx \in Int /\ AA(xa) /\ AA(xb)
          /\ xa.level = l - 2 /\ xb.level = l - 2
          /\ Keys(ab) = Keys(xa) \cup {kx} \cup Keys(xb)
          /\ Keys(xa) \subseteq Int /\ Keys(xb) \subseteq Int
          /\ \A x \in Keys(xa) : x < kx
          /\ \A x \in Keys(xb) : kx < x
      <4>1. ab # Nil
        BY <2>0, <2>5, NodeFields
      <4>2. QED
        BY <2>0, <2>2, <2>5, <4>1, AAParts DEF Right
    <3> HIDE DEF kx, xa, xb
    <3>2. SkewRight(Skew(Lowered(t))) = Node(l - 1, ka, aa, Node(l - 1, kx, xa, e))
      <4>1. Skew(n) = Node(l - 1, kx, xa, e)
        BY <3>1, SkewTurn
      <4> HIDE DEF n, t, e
      <4>2. QED
        BY <2>3, <4>1, OnRight
    <3>3. SkewRight(Node(l - 1, kx, xa, e)) = Node(l - 1, kx, xa, e)
      <4>1. Skew(e) = e
        BY <2>0, <3>1, SkewStay
      <4> HIDE DEF e
      <4>2. QED
        BY <4>1, OnRight
    <3>4. r = SplitRight(Split(Node(l - 1, ka, aa, Node(l - 1, kx, xa, e))))
      <4> HIDE DEF e
      <4>1. QED
        BY <1>2, <2>0, <3>2, <3>3, RebalanceNode
    <3>5. Split(e) = e
      BY <2>1, SplitStay
    <3>6. e.level = l - 1 /\ Right(e) = c
      BY NodeFields
    <3>7. AA(e) /\ Keys(e) = Keys(xb) \cup {k} \cup Keys(c)
      <4>1. \A x \in Keys(xb) : x < k
        BY <2>2, <3>1
      <4>2. QED
        BY <1>2, <2>0, <2>1, <3>1, <4>1, AAMake
    <3> HIDE DEF e
    <3>8. AA(d) /\ Keys(d) = Keys(aa) \cup {ka} \cup Keys(xa) /\ d.level = l - 1
      <4>1. \A x \in Keys(xa) : ka < x
        BY <2>2, <3>1
      <4>2. Right(xa).level < l - 1
        BY <2>0, <3>1, Levels
      <4>3. QED
        BY <2>0, <2>2, <3>1, <4>1, <4>2, AAMake, NodeFields
    <3>9. r = Node(l, kx, d, e)
      <4>1. Split(Node(l - 1, ka, aa, Node(l - 1, kx, xa, e))) = Node(l, kx, d, e)
        BY <2>0, <3>6, SplitTurn
      <4> HIDE DEF d
      <4>2. QED
        BY <3>4, <3>5, <4>1, OnRight
    <3> HIDE DEF d
    <3>10. AA(r) /\ Keys(r) = Keys(d) \cup {kx} \cup Keys(e)
      <4>1. \A x \in Keys(d) : x < kx
        BY <2>2, <3>1, <3>8
      <4>2. \A x \in Keys(e) : kx < x
        <5>1. kx < k
          BY <2>2, <3>1
        <5>2. QED
          BY <1>0, <3>1, <3>7, <5>1
      <4>3. Right(e).level < l
        BY <1>2, <2>0, <3>6
      <4>4. QED
        BY <3>1, <3>6, <3>7, <3>8, <3>9, <4>1, <4>2, <4>3, AAMake
    <3>11. r.level = l /\ Right(r).level = l - 1
      BY <3>6, <3>9, NodeFields
    <3>12. Keys(r) = Keys(a) \cup {k} \cup Keys(c)
      BY <2>2, <3>1, <3>7, <3>8, <3>10
    <3>13. QED
      BY <3>10, <3>11, <3>12 DEF FallNode
  <2>6. QED
    BY <2>2, <2>4, <2>5
<1>3. c.level \in {l - 1, l} \/ (c.level = l - 2 /\ b.level = l - 1 /\ b # Nil)
  BY Levels DEF Fall
<1>4. QED
  BY <1>1, <1>2, <1>3

-----------------------------------------------------------------------------
(* Walks. *)

\* How many nodes a path down from u can have.
Rank(u) == 2 * u.level - (IF Right(u).level = u.level THEN 0 ELSE 1)

\* A child has a lower rank, so that paths end.
LEMMA Ranks ==
  ASSUME NEW u, AA(u)
  PROVE  /\ Rank(u) \in Nat /\ Rank(u) =< 2 * u.level
         /\ u # Nil => Rank(u) >= 1 /\ Rank(Left(u)) < Rank(u) /\ Rank(Right(u)) < Rank(u)
<1>1. CASE u = Nil
  BY <1>1, NodeFields DEF Rank
<1>2. CASE u # Nil
  <2>1. AA(u.left) /\ AA(u.right) /\ Left(u) = u.left /\ Right(u) = u.right
    BY <1>2, AAParts DEF Left, Right
  <2>2. /\ u.level \in Nat \ {0} /\ Left(u).level = u.level - 1
        /\ Right(u).level \in {u.level - 1, u.level}
        /\ Right(Right(u)).level < u.level
    BY <1>2, Levels
  <2>3. Right(Left(u)).level \in Nat /\ Right(Right(u)).level \in Nat
    BY <2>1, Levels
  <2>4. QED
    BY <2>2, <2>3 DEF Rank
<1>3. QED
  BY <1>1, <1>2

\* The child of u on the side of k.
Toward(u, k) == Child(u, IF u.key =< k THEN 1 ELSE 0)

\* u is the root, or a child of the last node of the path.
Below(p, t, u) == IF p = <<>> THEN u = t ELSE u \in {Left(Last(p)), Right(Last(p))}

\* The nodes of a path are nodes of the tree, each lower than the one before it.
Frames(p, t, K) ==
  /\ \E S : p \in Seq(S)
  /\ \A i \in 1..Len(p) : /\ AA(p[i]) /\ p[i] # Nil /\ Keys(p[i]) \subseteq K
                          /\ i + Rank(p[i]) =< Rank(t) + 1

\* A path from the root towards k.
Linked(p, t, k) ==
  p # <<>> => p[1] = t /\ \A i \in 1..(Len(p) - 1) : p[i + 1] = Toward(p[i], k)

\* Where it leads.
At(p, t, k) == IF p = <<>> THEN t ELSE Toward(Last(p), k)

\* A sequence with one element more.
LEMMA Pushed ==
  ASSUME NEW S, NEW p \in Seq(S), NEW x, NEW q, q = Append(p, x)
  PROVE  /\ q \in Seq(S \cup {x}) /\ Len(q) = Len(p) + 1 /\ Len(p) \in Nat
         /\ \A i \in 1..Len(p) : q[i] = p[i]
         /\ q[Len(p) + 1] = x /\ Last(q) = x /\ q # <<>>
         /\ (p = <<>> => q[1] = x) /\ (p # <<>> => q[1] = p[1])
<1>1. p \in Seq(S \cup {x}) /\ x \in S \cup {x}
  BY SeqMonotonic
<1>2. q \in Seq(S \cup {x}) /\ Len(q) = Len(p) + 1 /\ Len(p) \in Nat
  BY <1>1, AppendProperties, LenProperties
<1>3. (\A i \in 1..Len(p) : q[i] = p[i]) /\ q[Len(p) + 1] = x
  BY <1>1, AppendProperties
<1>4. p # <<>> => Len(p) >= 1
  BY <1>2, EmptySeq
<1>5. p = <<>> => Len(p) = 0
  BY EmptySeq
<1>6. QED
  BY <1>2, <1>3, <1>4, <1>5, EmptySeq DEF Last

\* A sequence without its last element.
LEMMA Popped ==
  ASSUME NEW S, NEW p \in Seq(S), p # <<>>, NEW q, q = Front(p)
  PROVE  /\ q \in Seq(S) /\ Len(q) = Len(p) - 1 /\ Len(p) \in Nat \ {0}
         /\ \A i \in 1..Len(q) : q[i] = p[i]
         /\ Last(p) = p[Len(p)] /\ (q = <<>> <=> Len(p) = 1)
         /\ q # <<>> => Last(q) = p[Len(p) - 1] /\ Len(p) - 1 \in 1..Len(p) /\ q[1] = p[1]
<1>1. Len(p) \in Nat \ {0} /\ Last(p) = p[Len(p)]
  BY EmptySeq, LenProperties DEF Last
<1>2. q = SubSeq(p, 1, Len(p) - 1)
  BY DEF Front
<1>3. /\ q \in Seq(S) /\ Len(q) = Len(p) - 1
      /\ \A i \in 1..Len(q) : q[i] = p[i]
  <2> DEFINE n == Len(p) - 1
  <2>1. 1 \in Int /\ n \in Int /\ n \in Nat /\ \A i \in 1..n : p[i] \in S
    BY <1>1, ElementOfSeq
  <2> HIDE DEF n
  <2>2. q \in Seq(S) /\ Len(q) = (IF 1 =< n THEN n - 1 + 1 ELSE 0)
        /\ \A i \in 1..(n - 1 + 1) : q[i] = p[1 + i - 1]
    BY <1>2, <2>1, SubSeqProperties DEF n
  <2>3. Len(q) = n /\ \A i \in 1..n : i \in 1..(n - 1 + 1) /\ 1 + i - 1 = i
    BY <2>1, <2>2
  <2>4. QED
    BY <2>2, <2>3 DEF n
<1>4. q = <<>> <=> Len(q) = 0
  BY <1>3, EmptySeq
<1>5. ASSUME q # <<>> PROVE Last(q) = p[Len(p) - 1] /\ Len(p) - 1 \in 1..Len(p) /\ q[1] = p[1]
  <2>1. Len(q) \in 1..Len(q) /\ 1 \in 1..Len(q) /\ Len(p) - 1 \in 1..Len(p)
    BY <1>1, <1>3, <1>4, <1>5
  <2>2. Last(q) = q[Len(q)]
    BY DEF Last
  <2>3. QED
    BY <1>3, <2>1, <2>2
<1>6. q = <<>> <=> Len(p) = 1
  BY <1>1, <1>3, <1>4
<1>7. QED
  BY <1>1, <1>3, <1>5, <1>6

\* One node more.
LEMMA FramesPush ==
  ASSUME NEW p, NEW t, NEW K, NEW u, NEW q, Frames(p, t, K), AA(t), AA(u), u # Nil,
         Keys(u) \subseteq K, Below(p, t, u), q = Append(p, u)
  PROVE  Frames(q, t, K)
<1>1. PICK S : p \in Seq(S)
  BY DEF Frames
<1>2. /\ q \in Seq(S \cup {u}) /\ Len(q) = Len(p) + 1 /\ Len(p) \in Nat
      /\ \A i \in 1..Len(p) : q[i] = p[i]
      /\ q[Len(p) + 1] = u
  BY <1>1, Pushed
<1>3. Len(p) + Rank(u) =< Rank(t)
  <2>1. CASE p = <<>>
    BY <2>1, Ranks DEF Below
  <2>2. CASE p # <<>>
    <3>1. Len(p) \in 1..Len(p) /\ Last(p) = p[Len(p)]
      BY <1>1, <2>2, EmptySeq, LenProperties DEF Last
    <3>2. AA(Last(p)) /\ Last(p) # Nil /\ Len(p) + Rank(Last(p)) =< Rank(t) + 1
      BY <3>1 DEF Frames
    <3>3. Rank(u) < Rank(Last(p)) /\ Rank(u) \in Nat /\ Rank(Last(p)) \in Nat /\ Rank(t) \in Nat
      BY <2>2, <3>2, Ranks DEF Below
    <3>4. QED
      BY <1>2, <3>2, <3>3
  <2>3. QED
    BY <2>1, <2>2
<1>4. ASSUME NEW i \in 1..Len(q)
      PROVE  AA(q[i]) /\ q[i] # Nil /\ Keys(q[i]) \subseteq K /\ i + Rank(q[i]) =< Rank(t) + 1
  <2>1. CASE i \in 1..Len(p)
    BY <1>2, <2>1 DEF Frames
  <2>2. CASE i = Len(p) + 1
    <3>1. Rank(u) \in Nat /\ Rank(t) \in Nat
      BY Ranks
    <3>2. QED
      BY <1>2, <1>3, <2>2, <3>1
  <2>3. QED
    BY <1>2, <2>1, <2>2
<1>5. QED
  BY <1>2, <1>4 DEF Frames

\* One node less.
LEMMA FramesPop ==
  ASSUME NEW p, NEW t, NEW K, NEW q, Frames(p, t, K), p # <<>>, q = Front(p)
  PROVE  /\ Frames(q, t, K)
         /\ AA(Last(p)) /\ Last(p) # Nil /\ Keys(Last(p)) \subseteq K
         /\ Len(p) \in 1..Len(p) /\ Last(p) = p[Len(p)]
<1>1. PICK S : p \in Seq(S)
  BY DEF Frames
<1>2. /\ q \in Seq(S) /\ Len(q) = Len(p) - 1 /\ Len(p) \in Nat \ {0}
      /\ \A i \in 1..Len(q) : q[i] = p[i]
      /\ Last(p) = p[Len(p)]
  BY <1>1, Popped
<1>3. \A i \in 1..Len(q) : i \in 1..Len(p)
  BY <1>2
<1>4. Frames(q, t, K)
  BY <1>2, <1>3 DEF Frames
<1>5. QED
  BY <1>2, <1>4 DEF Frames

\* The walk goes on to where the path leads.
LEMMA LinkedPush ==
  ASSUME NEW p, NEW t, NEW k, NEW K, NEW q, NEW u,
         Frames(p, t, K), Linked(p, t, k), u = At(p, t, k), q = Append(p, u)
  PROVE  Linked(q, t, k) /\ At(q, t, k) = Toward(u, k) /\ Below(p, t, u)
<1>1. PICK S : p \in Seq(S)
  BY DEF Frames
<1>2. /\ q \in Seq(S \cup {u}) /\ Len(q) = Len(p) + 1 /\ Len(p) \in Nat
      /\ \A i \in 1..Len(p) : q[i] = p[i]
      /\ q[Len(p) + 1] = u
  BY <1>1, Pushed
<1>2a. Last(q) = u /\ q # <<>>
  BY <1>2, EmptySeq DEF Last
<1>2b. (p = <<>> => q[1] = u) /\ (p # <<>> => q[1] = p[1])
  BY <1>1, Pushed
<1>3. q[1] = t
  BY <1>2b DEF Linked, At
<1>4. ASSUME NEW i \in 1..(Len(q) - 1) PROVE q[i + 1] = Toward(q[i], k)
  <2>1. CASE i < Len(p)
    <3>1. p # <<>> /\ i \in 1..(Len(p) - 1) /\ i \in 1..Len(p) /\ i + 1 \in 1..Len(p)
      BY <1>2, <2>1, EmptySeq
    <3>2. QED
      BY <1>2, <3>1 DEF Linked
  <2>2. CASE i = Len(p)
    <3>1. p # <<>> /\ i \in 1..Len(p)
      BY <1>2, <2>2, EmptySeq
    <3>2. Last(p) = p[i]
      BY <2>2 DEF Last
    <3>3. QED
      BY <1>2, <2>2, <3>1, <3>2 DEF At
  <2>3. QED
    BY <1>2, <2>1, <2>2
<1>5. At(q, t, k) = Toward(u, k)
  BY <1>2a DEF At
<1>6. Below(p, t, u)
  BY DEF At, Below, Toward, Child
<1>7. QED
  BY <1>2, <1>3, <1>4, <1>5, <1>6 DEF Linked

\* The walk back is at the node above.
LEMMA LinkedPop ==
  ASSUME NEW p, NEW t, NEW k, NEW K, NEW q, Frames(p, t, K), Linked(p, t, k), p # <<>>,
         q = Front(p)
  PROVE  Linked(q, t, k) /\ At(q, t, k) = Last(p)
<1>1. PICK S : p \in Seq(S)
  BY DEF Frames
<1>2. /\ Len(q) = Len(p) - 1 /\ Len(p) \in Nat \ {0}
      /\ \A i \in 1..Len(q) : q[i] = p[i]
      /\ Last(p) = p[Len(p)] /\ (q = <<>> <=> Len(p) = 1)
      /\ q # <<>> => Last(q) = p[Len(p) - 1] /\ Len(p) - 1 \in 1..Len(p) /\ q[1] = p[1]
  BY <1>1, Popped
<1>3. CASE q = <<>>
  BY <1>2, <1>3 DEF Linked, At
<1>4. CASE q # <<>>
  <2>1. q[1] = t
    BY <1>2, <1>4 DEF Linked
  <2>2. ASSUME NEW i \in 1..(Len(q) - 1) PROVE q[i + 1] = Toward(q[i], k)
    <3>1. i \in 1..(Len(p) - 1) /\ i \in 1..Len(q) /\ i + 1 \in 1..Len(q)
      BY <1>2
    <3>2. QED
      BY <1>2, <3>1 DEF Linked
  <2>3. At(q, t, k) = Last(p)
    <3>1. Len(p) - 1 \in 1..(Len(p) - 1) /\ (Len(p) - 1) + 1 = Len(p)
      BY <1>2, <1>4
    <3>2. QED
      BY <1>2, <1>4, <3>1 DEF Linked, At
  <2>4. QED
    BY <2>1, <2>2, <2>3 DEF Linked
<1>5. QED
  BY <1>3, <1>4

\* A node with another child on the side of the key.
LEMMA WithNode ==
  ASSUME NEW l, NEW k, NEW a, NEW b, NEW c
  PROVE  /\ k =< key => With(Node(l, k, a, b), c) = Node(l, k, a, c) /\ Toward(Node(l, k, a, b), key) = b
         /\ ~ (k =< key) => With(Node(l, k, a, b), c) = Node(l, k, c, b) /\ Toward(Node(l, k, a, b), key) = a
<1> DEFINE t == Node(l, k, a, b)
<1>1. [t EXCEPT !.right = c] = Node(l, k, a, c) /\ [t EXCEPT !.left = c] = Node(l, k, c, b)
  BY DEF Node
<1>2. t.key = k /\ Left(t) = a /\ Right(t) = b
  BY NodeFields
<1> HIDE DEF t
<1>3. k =< key => With(t, c) = [t EXCEPT !.right = c] /\ Toward(t, key) = b
  BY <1>2 DEF With, Side, Toward, Child
<1>4. ~ (k =< key) => With(t, c) = [t EXCEPT !.left = c] /\ Toward(t, key) = a
  BY <1>2 DEF With, Side, Toward, Child
<1>5. QED
  BY <1>1, <1>3, <1>4 DEF t

\* The children of an Andersson tree on the side of a key.
LEMMA TowardParts ==
  ASSUME NEW u, AA(u), u # Nil, NEW k \in Int
  PROVE  /\ AA(Toward(u, k)) /\ Toward(u, k) \in {Left(u), Right(u)}
         /\ Keys(Toward(u, k)) \subseteq Keys(u)
         /\ u.key # k => (k \in Keys(u) <=> k \in Keys(Toward(u, k)))
         /\ u.key = k => Toward(u, k) = Right(u)
         /\ u.key > k => Toward(u, k) = Left(u)
         /\ u.key < k => Toward(u, k) = Right(u)
<1>1. /\ Left(u) = u.left /\ Right(u) = u.right /\ u.key \in Int
      /\ AA(u.left) /\ AA(u.right)
      /\ Keys(u) = Keys(u.left) \cup {u.key} \cup Keys(u.right)
      /\ Keys(u.left) \subseteq Int /\ Keys(u.right) \subseteq Int
      /\ \A x \in Keys(u.left) : x < u.key
      /\ \A x \in Keys(u.right) : u.key < x
  BY AAParts DEF Left, Right
<1>2. CASE u.key =< k
  <2>1. Toward(u, k) = u.right
    BY <1>1, <1>2 DEF Toward, Child
  <2>2. QED
    BY <1>1, <1>2, <2>1
<1>3. CASE ~ (u.key =< k)
  <2>1. Toward(u, k) = u.left
    BY <1>1, <1>3 DEF Toward, Child
  <2>2. QED
    BY <1>1, <1>3, <2>1
<1>4. QED
  BY <1>2, <1>3

\* One node of the walk back of map_insert.
LEMMA GrowStep ==
  ASSUME NEW u, AA(u), u # Nil, NEW c, AA(c), key \in Key, key \notin Keys(u),
         Rise(Toward(u, key), c), Keys(c) = Keys(Toward(u, key)) \cup {key}
  PROVE  LET r == Split(Skew(With(u, c)))
         IN  AA(r) /\ Keys(r) = Keys(u) \cup {key} /\ Rise(u, r)
<1> DEFINE l == u.level  k == u.key  a == u.left  b == u.right
           r == Split(Skew(With(u, c)))
<1>1. /\ u = Node(l, k, a, b) /\ l \in Nat \ {0} /\ k \in Key /\ k \in Int
      /\ AA(a) /\ AA(b) /\ a.level = l - 1 /\ b.level \in {l - 1, l} /\ Right(b).level < l
      /\ Keys(u) = Keys(a) \cup {k} \cup Keys(b)
      /\ \A x \in Keys(a) : x < k
      /\ \A x \in Keys(b) : k < x
  BY AAParts
<1> HIDE DEF l, k, a, b
<1>2. key \in Int /\ key # k
  BY <1>1, KeyAssumption
<1>3. CASE k =< key
  <2>1. With(u, c) = Node(l, k, a, c) /\ Toward(u, key) = b
    BY <1>1, <1>3, WithNode
  <2>2. \A x \in Keys(c) : k < x
    BY <1>1, <1>2, <1>3, <2>1
  <2>3. AA(r) /\ Keys(r) = Keys(a) \cup {k} \cup Keys(c) /\ Rise(Node(l, k, a, b), r)
    BY <1>1, <2>1, <2>2, GrowRight
  <2> HIDE DEF r
  <2>4. QED
    BY <1>1, <2>1, <2>3 DEF r
<1>4. CASE ~ (k =< key)
  <2>1. With(u, c) = Node(l, k, c, b) /\ Toward(u, key) = a
    BY <1>1, <1>4, WithNode
  <2>2. \A x \in Keys(c) : x < k
    BY <1>1, <1>2, <1>4, <2>1
  <2>3. AA(r) /\ Keys(r) = Keys(c) \cup {k} \cup Keys(b) /\ Rise(Node(l, k, a, b), r)
    BY <1>1, <2>1, <2>2, GrowLeft
  <2> HIDE DEF r
  <2>4. QED
    BY <1>1, <2>1, <2>3 DEF r
<1>5. QED
  BY <1>3, <1>4

\* What a subtree loses: the key removed where it was in it; below that, the
\* heir, which was its least key.
Loss(o, n, k, h) ==
  IF k \in Keys(o) THEN Keys(n) = Keys(o) \ {k}
  ELSE h \in Keys(o) /\ Keys(n) = Keys(o) \ {h} /\ \A x \in Keys(o) : h =< x

\* One node of the walk back of map_remove.
LEMMA ShrinkStep ==
  ASSUME NEW u, AA(u), u # Nil, NEW c, AA(c), key \in Int,
         key \in Keys(u) \/ key < u.key,
         Fall(Toward(u, key), c), Loss(Toward(u, key), c, key, heir)
  PROVE  LET up == With(u, c)
             r == Rebalance(IF up.key = key THEN [up EXCEPT !.key = heir] ELSE up)
         IN  AA(r) /\ Loss(u, r, key, heir) /\ Fall(u, r)
<1> DEFINE l == u.level  k == u.key  a == u.left  b == u.right
           up == With(u, c)
           v == IF up.key = key THEN [up EXCEPT !.key = heir] ELSE up
           r == Rebalance(v)
<1>1. /\ u = Node(l, k, a, b) /\ l \in Nat \ {0} /\ k \in Key /\ k \in Int
      /\ AA(a) /\ AA(b) /\ a.level = l - 1 /\ b.level \in {l - 1, l} /\ Right(b).level < l
      /\ Keys(u) = Keys(a) \cup {k} \cup Keys(b)
      /\ Keys(a) \subseteq Int /\ Keys(b) \subseteq Int
      /\ \A x \in Keys(a) : x < k
      /\ \A x \in Keys(b) : k < x
      /\ Right(u) = b
  BY AAParts DEF Right
<1> HIDE DEF l, k, a, b
<1>2. ASSUME FallNode(l, b, r) PROVE Fall(u, r)
  <2>1. u.level = l
    BY <1>1, NodeFields
  <2> HIDE DEF r
  <2>2. QED
    BY <1>1, <1>2, <2>1 DEF FallNode, Fall
<1>3. CASE k = key
  <2>1. up = Node(l, k, a, c) /\ Toward(u, key) = b
    BY <1>1, <1>3, WithNode
  <2>2. v = Node(l, heir, a, c)
    <3>1. up.key = key
      BY <1>3, <2>1, NodeFields
    <3>2. [Node(l, k, a, c) EXCEPT !.key = heir] = Node(l, heir, a, c)
      BY DEF Node
    <3> HIDE DEF up
    <3>3. QED
      BY <2>1, <3>1, <3>2
  <2>3. heir \in Keys(b) /\ Keys(c) = Keys(b) \ {heir} /\ \A x \in Keys(b) : heir =< x
    BY <1>1, <1>3, <2>1 DEF Loss
  <2>4. heir \in Int /\ heir \in Key
    BY <1>1, <2>3, KeysFinite, AASearch
  <2>5. (\A x \in Keys(a) : x < heir) /\ (\A x \in Keys(c) : heir < x)
    BY <1>1, <2>3, <2>4
  <2>6. r = Rebalance(Node(l, heir, a, c)) /\ Fall(b, c)
    BY <2>1, <2>2
  <2> HIDE DEF r, v, up
  <2>7. AA(r) /\ Keys(r) = Keys(a) \cup {heir} \cup Keys(c) /\ FallNode(l, b, r)
    <3>1. /\ l \in Nat \ {0} /\ AA(a) /\ AA(b) /\ a.level = l - 1
          /\ b.level \in {l - 1, l} /\ Right(b).level < l
      BY <1>1
    <3>2. /\ AA(Rebalance(Node(l, heir, a, c))) /\ FallNode(l, b, Rebalance(Node(l, heir, a, c)))
          /\ Keys(Rebalance(Node(l, heir, a, c))) = Keys(a) \cup {heir} \cup Keys(c)
      BY <2>4, <2>5, <2>6, <3>1, ShrinkRight
    <3>3. QED
      BY <2>6, <3>2
  <2>8. Keys(r) = Keys(u) \ {key} /\ key \in Keys(u)
    BY <1>1, <1>3, <2>3, <2>7
  <2>9. QED
    BY <1>2, <2>7, <2>8 DEF r, v, up, Loss
<1>4. CASE k # key
  <2>1. v = up
    <3>1. up.key = k
      BY <1>1, WithNode, NodeFields
    <3>2. QED
      BY <1>4, <3>1
  <2>2. CASE k < key
    <3>1. up = Node(l, k, a, c) /\ Toward(u, key) = b
      BY <1>1, <2>2, WithNode
    <3>2. key \in Keys(b) /\ key \notin Keys(a)
      BY <1>1, <2>2, NodeFields
    <3>3. Keys(c) = Keys(b) \ {key}
      BY <3>1, <3>2 DEF Loss
    <3>4. AA(r) /\ Keys(r) = Keys(a) \cup {k} \cup Keys(c) /\ FallNode(l, b, r)
      <4>1. \A x \in Keys(c) : k < x
        BY <1>1, <3>3
      <4>2. r = Rebalance(Node(l, k, a, c)) /\ Fall(b, c)
        BY <2>1, <3>1
      <4> HIDE DEF r, v, up
      <4>3. /\ l \in Nat \ {0} /\ k \in Key /\ AA(a) /\ AA(b) /\ a.level = l - 1
            /\ b.level \in {l - 1, l} /\ Right(b).level < l /\ \A x \in Keys(a) : x < k
        BY <1>1
      <4>4. /\ AA(Rebalance(Node(l, k, a, c))) /\ FallNode(l, b, Rebalance(Node(l, k, a, c)))
            /\ Keys(Rebalance(Node(l, k, a, c))) = Keys(a) \cup {k} \cup Keys(c)
        BY <4>1, <4>2, <4>3, ShrinkRight
      <4>5. QED
        BY <4>2, <4>4
    <3> HIDE DEF r
    <3>5. Keys(r) = Keys(u) \ {key} /\ key \in Keys(u)
      BY <1>1, <1>4, <3>2, <3>3, <3>4
    <3>6. QED
      BY <1>2, <3>4, <3>5 DEF r, Loss
  <2>3. CASE key < k
    <3>1. up = Node(l, k, c, b) /\ Toward(u, key) = a
      BY <1>1, <2>3, WithNode
    <3>2. key \notin Keys(b) /\ Keys(c) \subseteq Keys(a)
      BY <1>1, <2>3, <3>1 DEF Loss
    <3>3. AA(r) /\ Keys(r) = Keys(c) \cup {k} \cup Keys(b) /\ FallNode(l, b, r)
      <4>1. \A x \in Keys(c) : x < k
        BY <1>1, <3>2
      <4>2. r = Rebalance(Node(l, k, c, b)) /\ Fall(a, c)
        BY <2>1, <3>1
      <4> HIDE DEF r, v, up
      <4>3. /\ l \in Nat \ {0} /\ k \in Key /\ AA(a) /\ AA(b) /\ a.level = l - 1
            /\ b.level \in {l - 1, l} /\ Right(b).level < l /\ \A x \in Keys(b) : k < x
        BY <1>1
      <4>4. /\ AA(Rebalance(Node(l, k, c, b))) /\ FallNode(l, b, Rebalance(Node(l, k, c, b)))
            /\ Keys(Rebalance(Node(l, k, c, b))) = Keys(c) \cup {k} \cup Keys(b)
        BY <4>1, <4>2, <4>3, ShrinkLeft
      <4>5. QED
        BY <4>2, <4>4
    <3> HIDE DEF r
    <3>4. CASE key \in Keys(a)
      <4>1. Keys(c) = Keys(a) \ {key}
        BY <3>1, <3>4 DEF Loss
      <4>2. Keys(r) = Keys(u) \ {key} /\ key \in Keys(u)
        BY <1>1, <1>4, <3>2, <3>3, <3>4, <4>1
      <4>3. QED
        BY <1>2, <3>3, <4>2 DEF r, Loss
    <3>5. CASE key \notin Keys(a)
      <4>1. heir \in Keys(a) /\ Keys(c) = Keys(a) \ {heir} /\ \A x \in Keys(a) : heir =< x
        BY <3>1, <3>5 DEF Loss
      <4>2. key \notin Keys(u) /\ heir \in Keys(u) /\ heir \notin Keys(b) /\ heir # k /\ heir \in Int
        BY <1>1, <1>4, <3>2, <3>5, <4>1
      <4>3. \A x \in Keys(u) : heir =< x
        BY <1>1, <4>1, <4>2
      <4>4. Keys(r) = Keys(u) \ {heir}
        BY <1>1, <3>3, <4>1, <4>2
      <4>5. QED
        BY <1>2, <3>3, <4>2, <4>3, <4>4 DEF r, Loss
    <3>6. QED
      BY <3>4, <3>5
  <2>4. QED
    BY <1>1, <1>4, <2>2, <2>3
<1>5. QED
  BY <1>3, <1>4

-----------------------------------------------------------------------------
(* What holds in the middle of an operation. *)

TypeOK ==
  /\ pc \in {"idle", "find", "insert", "remove", "heir", "grow", "shrink", "clear",
             "down", "at", "up"}
  /\ answer \in BOOLEAN /\ dir \in {0, 1} /\ key \in Int /\ size \in Int
  /\ fault \in {"none", "data", "node"} /\ (fault # "none" => pc = "idle")

\* The tree is an Andersson tree of the keys.
Content == AA(tree) /\ Keys(tree) = keys

\* A walk down is in the subtree that has the key if any has.
Descending ==
  pc \in {"find", "insert", "remove"} =>
    key \in Key /\ AA(it) /\ Keys(it) \subseteq keys /\ (key \in keys <=> key \in Keys(it))

\* The path leads towards the key, and a walk down is where it leads.
Directed ==
  /\ pc \in {"insert", "remove", "heir", "grow", "shrink"} =>
       key \in Key /\ Linked(path, tree, key)
  /\ pc \in {"insert", "remove", "heir"} => it = At(path, tree, key)

\* Above the node with the key the nodes of the path have it below them, those
\* on the way to its heir are greater.
Holds(p, k, K) == k \in K => \A i \in 1..Len(p) : k \in Keys(p[i]) \/ k < p[i].key

Holding == pc \in {"remove", "heir", "shrink"} => Holds(path, key, keys)

\* The heir is among the keys on the right of the key.
Seeking ==
  pc = "heir" =>
    AA(it) /\ it # Nil /\ Keys(it) \subseteq keys /\ key \in keys /\ \A x \in Keys(it) : key < x

\* On the way back it is what has become of the subtree the path leads to.
Growing ==
  pc = "grow" =>
    /\ AA(it) /\ key \notin keys
    /\ Keys(it) = Keys(At(path, tree, key)) \cup {key} /\ Rise(At(path, tree, key), it)

\* The same for a removal; below the node found it is the heir that is gone.
Shrinking ==
  pc = "shrink" =>
    /\ AA(it) /\ key \in keys
    /\ Loss(At(path, tree, key), it, key, heir) /\ Fall(At(path, tree, key), it)

\* What map_clear has not released is still in a search tree.
Clearing == pc = "clear" => Search(it) /\ Keys(it) = todo

\* The directions of a cursor: what comes after what, and subtrees with no key
\* of the map between their own that they do not have.
Before(d, x, y) == IF d = 1 THEN x < y ELSE y < x

Convex(S, K) == \A x, y \in S, z \in K : x < z /\ z < y => z \in S

\* A path from the root to u.
Leads(p, t, u) ==
  /\ p # <<>> => p[1] = t /\ \A i \in 1..(Len(p) - 1) : p[i + 1] \in {Left(p[i]), Right(p[i])}
  /\ Below(p, t, u)

\* Where a cursor is, and which keys it has ahead: going down they begin in the
\* subtree, going up they are those beyond it.
Visiting ==
  pc \in {"down", "at", "up"} =>
    /\ AA(it) /\ Keys(it) \subseteq keys /\ Convex(Keys(it), keys) /\ todo \subseteq keys
    /\ \A i \in 1..Len(path) : Convex(Keys(path[i]), keys)
    /\ it = Nil => path = <<>> /\ todo = {}
    /\ it # Nil =>
         /\ Leads(path, tree, it)
         /\ pc = "down" =>
              /\ Keys(it) \subseteq todo
              /\ \A x \in Keys(it), y \in todo \ Keys(it) : Before(dir, x, y)
         /\ pc = "at" =>
              it.key \in todo /\ \A y \in todo \ {it.key} : Before(dir, it.key, y)
         /\ pc = "up" =>
              /\ \A y \in todo : y \notin Keys(it) /\ Before(dir, it.key, y)
              /\ \A y \in keys \ Keys(it) : Before(dir, it.key, y) => y \in todo

\* The inductive invariant.
IInv ==
  /\ TypeOK /\ Content /\ Frames(path, tree, keys)
  /\ Descending /\ Directed /\ Holding /\ Seeking /\ Growing /\ Shrinking
  /\ Clearing /\ Visiting

-----------------------------------------------------------------------------
\* There is nothing on an empty path.
LEMMA NoFrames ==
  ASSUME NEW t, NEW K, NEW k
  PROVE  Frames(<<>>, t, K) /\ Linked(<<>>, t, k) /\ At(<<>>, t, k) = t /\ Holds(<<>>, k, K)
<1>1. <<>> \in Seq({}) /\ Len(<<>>) = 0
  BY EmptySeq
<1>2. QED
  BY <1>1 DEF Frames, Linked, At, Holds

\* The keys in the map are finitely many integers.
LEMMA KeysBound ==
  ASSUME Content
  PROVE  keys \subseteq Key /\ keys \subseteq Int /\ IsFiniteSet(keys) /\ Cardinality(keys) \in Nat
BY KeysFinite, AASearch, FS_CardinalityType DEF Content

\* A new map has the inductive invariant.
LEMMA InitInv == Init => IInv
<1> SUFFICES ASSUME Init PROVE IInv
  OBVIOUS
<1>1. Content
  BY NilKeys DEF Init, Content
<1>2. Frames(path, tree, keys)
  BY NoFrames DEF Init
<1>3. TypeOK /\ pc = "idle"
  <2>1. answer \in BOOLEAN /\ fault = "none"
    BY Zenon DEF Init
  <2>2. QED
    BY <2>1 DEF Init, TypeOK
<1>4. QED
  BY <1>1, <1>2, <1>3 DEF IInv, Descending, Directed, Holding, Seeking, Growing,
                    Shrinking, Clearing, Visiting

\* An operation that returns with the tree and the keys in order.
LEMMA Returns ==
  ASSUME Return, Content', answer' \in BOOLEAN, size' \in Int, fault' \in {"none", "data", "node"}
  PROVE  IInv'
<1>1. Frames(path', tree', keys')
  BY NoFrames DEF Return
<1>2. TypeOK'
  BY DEF Return, TypeOK
<1>3. QED
  BY <1>1, <1>2 DEF Return, IInv, Descending, Directed, Holding, Seeking, Growing,
                    Shrinking, Clearing, Visiting

\* An operation begins at the root.
LEMMA BeginStep ==
  ASSUME IInv, NEW k \in Key, NEW loop \in {"find", "insert", "remove"}, Begin(loop, k)
  PROVE  IInv'
<1>1. /\ pc' = loop /\ key' = k /\ it' = tree /\ path' = <<>> /\ tree' = tree /\ keys' = keys
      /\ size' = size /\ fault' = fault /\ answer' = answer /\ dir' = dir
  BY DEF Begin, map
<1>2. TypeOK'
  BY <1>1, KeyAssumption DEF IInv, TypeOK, Begin, Ready
<1>3. Content'
  BY <1>1 DEF IInv, Content
<1>4. Frames(path, tree, keys)' /\ Linked(path, tree, key)' /\ it' = At(path, tree, key)'
      /\ Holds(path, key, keys)'
  BY <1>1, NoFrames
<1>5. Descending'
  BY <1>1, <1>3 DEF Descending, Content
<1>6. QED
  BY <1>1, <1>2, <1>3, <1>4, <1>5 DEF IInv, Directed, Holding, Seeking, Growing,
                    Shrinking, Clearing, Visiting

\* map_find changes nothing.
LEMMA FoundStep ==
  ASSUME IInv, Found
  PROVE  IInv'
<1>1. Content' /\ answer' \in BOOLEAN /\ size' = size /\ fault' = fault /\ Return
  BY DEF IInv, Found, Content
<1>2. QED
  BY <1>1, Returns DEF IInv, TypeOK

\* The tree stays as it is when an insert finds the key or no memory, or when a
\* removal finds no key.
LEMMA StayStep ==
  ASSUME IInv, Overwrite \/ NoNode \/ Absent \/ RemoveFromEmpty
  PROVE  IInv'
<1>1. Content' /\ answer' \in BOOLEAN /\ Return
  BY DEF IInv, Overwrite, NoNode, Absent, RemoveFromEmpty, Content, TypeOK, map
<1>2. size' \in Int /\ fault' \in {"none", "data", "node"}
  BY DEF IInv, Overwrite, NoNode, Absent, RemoveFromEmpty, TypeOK, map
<1>3. QED
  BY <1>1, <1>2, Returns

\* A map that refers to freed memory changes no more.
LEMMA AstrayStep ==
  ASSUME IInv, Astray
  PROVE  IInv'
BY DEF Astray, IInv, TypeOK, Content, Descending, Directed, Holding, Seeking, Growing,
   Shrinking, Clearing, Visiting

\* The tree with the new key takes the place of the old one.
LEMMA InsertedStep ==
  ASSUME IInv, Inserted
  PROVE  IInv'
<1>1. AA(it) /\ Keys(it) = keys \cup {key} /\ key \notin keys
  BY NoFrames DEF IInv, Inserted, Growing, Content
<1>2. Content' /\ answer' \in BOOLEAN /\ size' = size + 1 /\ fault' = fault /\ Return
  BY <1>1 DEF IInv, Inserted, Content, TypeOK
<1>3. QED
  BY <1>2, Returns DEF IInv, TypeOK

\* The tree without the key takes the place of the old one.
LEMMA RemovedStep ==
  ASSUME IInv, Removed
  PROVE  IInv'
<1>1. AA(it) /\ Keys(it) = keys \ {key} /\ key \in keys
  BY NoFrames DEF IInv, Removed, Shrinking, Content, Loss
<1>2. Content' /\ answer' \in BOOLEAN /\ size' = size - 1 /\ fault' = fault /\ Return
  BY <1>1 DEF IInv, Removed, Content, TypeOK
<1>3. QED
  BY <1>2, Returns DEF IInv, TypeOK

\* An empty map is left.
LEMMA FreedStep ==
  ASSUME IInv, Freed
  PROVE  IInv'
<1>1. Content' /\ answer' \in BOOLEAN /\ size' = 0 /\ fault' = fault /\ Return
  BY NilKeys DEF IInv, Freed, Content, TypeOK
<1>2. QED
  BY <1>1, Returns DEF IInv, TypeOK

\* The node a walk is at is saved on the path.
LEMMA PathPushed ==
  ASSUME Frames(path, tree, keys), path' = Append(path, it)
  PROVE  /\ path' # <<>> /\ Last(path') = it
         /\ Len(path') = Len(path) + 1 /\ Len(path) \in Nat
         /\ \A j \in 1..Len(path) : path'[j] = path[j]
         /\ path'[Len(path) + 1] = it
<1>1. PICK S : path \in Seq(S)
  BY DEF Frames
<1>2. /\ path' \in Seq(S \cup {it}) /\ Len(path') = Len(path) + 1 /\ Len(path) \in Nat
      /\ \A j \in 1..Len(path) : path'[j] = path[j]
      /\ path'[Len(path) + 1] = it
  BY <1>1, Pushed
<1>3. path' # <<>> /\ Last(path') = it
  BY <1>2, EmptySeq DEF Last
<1>4. QED
  BY <1>2, <1>3

\* A walk towards the key, once the node it is at has been saved.
LEMMA Onward ==
  ASSUME Frames(path, tree, keys), Linked(path, tree, key), it = At(path, tree, key),
         AA(tree), AA(it), it # Nil, Keys(it) \subseteq keys, path' = Append(path, it)
  PROVE  /\ Frames(path', tree, keys) /\ Linked(path', tree, key)
         /\ At(path', tree, key) = Toward(it, key)
         /\ Holds(path, key, keys) /\ (key \in Keys(it) \/ key < it.key \/ key \notin keys)
              => Holds(path', key, keys)
<1>1. /\ path' # <<>> /\ Last(path') = it
      /\ Len(path') = Len(path) + 1 /\ Len(path) \in Nat
      /\ \A j \in 1..Len(path) : path'[j] = path[j]
      /\ path'[Len(path) + 1] = it
  BY PathPushed
<1>2. Linked(path', tree, key)
  BY LinkedPush
<1>3. At(path', tree, key) = Toward(it, key)
  BY <1>1 DEF At
<1>4. Below(path, tree, it)
  BY LinkedPush
<1>5. Frames(path', tree, keys)
  BY <1>4, FramesPush
<1>6. ASSUME Holds(path, key, keys), key \in Keys(it) \/ key < it.key \/ key \notin keys
      PROVE  Holds(path', key, keys)
  <2>1. SUFFICES ASSUME key \in keys, NEW i \in 1..Len(path')
                 PROVE  key \in Keys(path'[i]) \/ key < path'[i].key
    BY DEF Holds
  <2>2. CASE i \in 1..Len(path)
    BY <1>1, <1>6, <2>1, <2>2 DEF Holds
  <2>3. CASE i = Len(path) + 1
    BY <1>1, <1>6, <2>1, <2>3
  <2>4. QED
    BY <1>1, <2>1, <2>2, <2>3
<1>7. QED
  BY <1>2, <1>3, <1>5, <1>6

\* A step down stays in the subtree that has the key if any has.
LEMMA DescendStep ==
  ASSUME IInv, Descend
  PROVE  IInv'
<1>1. /\ pc' = pc /\ key' = key /\ it' = Toward(it, key) /\ tree' = tree /\ keys' = keys
      /\ size' = size /\ fault' = fault /\ answer' = answer /\ dir' = dir /\ it # Nil /\ it.key # key
      /\ pc \in {"find", "insert", "remove"}
      /\ path' = IF pc = "find" THEN path ELSE Append(path, it)
  BY DEF Descend, map, Toward, Side
<1>2. /\ AA(it) /\ Keys(it) \subseteq keys /\ (key \in keys <=> key \in Keys(it))
      /\ key \in Key /\ key \in Int /\ AA(tree)
  BY <1>1, KeyAssumption DEF IInv, Descending, Content
<1>3. /\ AA(it') /\ Keys(it') \subseteq keys /\ (key \in keys <=> key \in Keys(it'))
  BY <1>1, <1>2, TowardParts
<1>4. TypeOK' /\ Content'
  BY <1>1 DEF IInv, TypeOK, Content
<1>5. Descending'
  BY <1>1, <1>2, <1>3 DEF Descending
<1>6. CASE pc = "find"
  <2>1. Frames(path', tree', keys')
    BY <1>1, <1>6 DEF IInv
  <2>2. QED
    BY <1>1, <1>4, <1>5, <1>6, <2>1 DEF IInv, Directed, Holding, Seeking, Growing,
       Shrinking, Clearing, Visiting
<1>7. CASE pc \in {"insert", "remove"}
  <2>1. /\ path' = Append(path, it) /\ Frames(path, tree, keys) /\ Linked(path, tree, key)
        /\ it = At(path, tree, key)
    BY <1>1, <1>7 DEF IInv, Directed
  <2>2. Linked(path', tree, key) /\ At(path', tree, key) = it' /\ Frames(path', tree, keys)
    BY <1>1, <1>2, <2>1, Onward
  <2>3. pc = "remove" => Holds(path', key, keys)
    BY <1>1, <1>2, <2>1, Onward DEF IInv, Holding
  <2>4. QED
    BY <1>1, <1>2, <1>4, <1>5, <1>7, <2>2, <2>3 DEF IInv, Directed, Holding, Seeking, Growing,
       Shrinking, Clearing, Visiting
<1>8. QED
  BY <1>1, <1>6, <1>7

\* The new node takes the place of a sentinel.
LEMMA NewNodeStep ==
  ASSUME IInv, NewNode
  PROVE  IInv'
<1>1. /\ pc = "insert" /\ pc' = "grow" /\ key' = key /\ it = Nil /\ it' = Leaf(key) /\ tree' = tree
      /\ keys' = keys /\ size' = size /\ fault' = fault /\ answer' = answer /\ dir' = dir /\ path' = path
  BY DEF NewNode, map
<1>2. /\ key \in Key /\ key \notin keys /\ At(path, tree, key) = Nil
      /\ Linked(path, tree, key) /\ Frames(path, tree, keys)
  BY <1>1, NilKeys DEF IInv, Descending, Directed
<1>3. AA(Leaf(key)) /\ Keys(Leaf(key)) = {key} /\ Leaf(key).level = 1 /\ Right(Leaf(key)) = Nil
  <2>1. Leaf(key) = Node(1, key, Nil, Nil)
    BY DEF Leaf, Node
  <2>2. Nil.level = 1 - 1 /\ Right(Nil).level < 1
    BY NodeFields
  <2>3. AA(Node(1, key, Nil, Nil)) /\ Keys(Node(1, key, Nil, Nil)) = {key}
    BY <1>2, <2>2, NilKeys, AAMake
  <2>4. QED
    BY <2>1, <2>3, NodeFields
<1>4. Growing'
  <2>1. Rise(Nil, Leaf(key))
    BY <1>3, NodeFields DEF Rise
  <2>2. QED
    BY <1>1, <1>2, <1>3, <2>1, NilKeys DEF Growing
<1>5. TypeOK' /\ Content'
  BY <1>1 DEF IInv, TypeOK, Content
<1>6. QED
  BY <1>1, <1>2, <1>4, <1>5 DEF IInv, Descending, Directed, Holding, Seeking,
     Shrinking, Clearing, Visiting

\* A step back up of map_insert.
LEMMA GrowStepInv ==
  ASSUME IInv, Grow
  PROVE  IInv'
<1> DEFINE u == Last(path)
<1>1. /\ pc = "grow" /\ pc' = pc /\ key' = key /\ tree' = tree /\ path # <<>> /\ path' = Front(path)
      /\ keys' = keys /\ size' = size /\ fault' = fault /\ answer' = answer /\ dir' = dir
      /\ it' = Split(Skew(With(u, it)))
  BY DEF Grow, map
<1>2. Frames(path', tree, keys) /\ AA(u) /\ u # Nil /\ Keys(u) \subseteq keys
  BY <1>1, FramesPop DEF IInv
<1>3. key \in Key /\ Linked(path', tree, key) /\ At(path', tree, key) = u
  BY <1>1, LinkedPop DEF IInv, Directed
<1>4. At(path, tree, key) = Toward(u, key)
  BY <1>1 DEF At
<1>5. /\ AA(it) /\ key \notin keys
      /\ Keys(it) = Keys(Toward(u, key)) \cup {key} /\ Rise(Toward(u, key), it)
  BY <1>1, <1>4 DEF IInv, Growing
<1> HIDE DEF u
<1>6. AA(it') /\ Keys(it') = Keys(u) \cup {key} /\ Rise(u, it')
  BY <1>1, <1>2, <1>3, <1>5, GrowStep
<1>7. Growing'
  BY <1>1, <1>3, <1>5, <1>6 DEF Growing
<1>8. TypeOK' /\ Content'
  BY <1>1 DEF IInv, TypeOK, Content
<1>9. QED
  BY <1>1, <1>2, <1>3, <1>7, <1>8 DEF IInv, Descending, Directed, Holding, Seeking,
     Shrinking, Clearing, Visiting

\* A node with one child or none is replaced by its child.
LEMMA UnlinkStep ==
  ASSUME IInv, Unlink
  PROVE  IInv'
<1>1. /\ pc = "remove" /\ pc' = "shrink" /\ key' = key /\ tree' = tree /\ path' = path
      /\ keys' = keys /\ size' = size /\ fault' = fault /\ answer' = answer /\ dir' = dir /\ heir' = key
      /\ it # Nil /\ it.key = key /\ (Left(it) = Nil \/ Right(it) = Nil)
      /\ it' = IF path = <<>> \/ Left(it) = Nil THEN Right(it) ELSE Left(it)
  BY DEF Unlink, map
<1>2. /\ key \in Key /\ Linked(path, tree, key) /\ it = At(path, tree, key)
      /\ AA(it) /\ Keys(it) \subseteq keys
  BY <1>1 DEF IInv, Directed, Descending
<1>3. /\ it.level \in Nat \ {0} /\ it.key \in Int /\ AA(it.left) /\ AA(it.right)
      /\ it.left.level = it.level - 1 /\ it.right.level \in {it.level - 1, it.level}
      /\ Right(it.right).level < it.level
      /\ Keys(it) = Keys(it.left) \cup {it.key} \cup Keys(it.right)
      /\ \A x \in Keys(it.left) : x < it.key
      /\ \A x \in Keys(it.right) : it.key < x
      /\ Left(it) = it.left /\ Right(it) = it.right
  BY <1>1, <1>2, AAParts DEF Left, Right
<1>4. Left(it) = Nil
  <2>1. CASE Right(it) = Nil
    BY <1>3, <2>1, Levels, NodeFields
  <2>2. QED
    BY <1>1, <2>1
<1>5. it' = it.right /\ Keys(it') = Keys(it) \ {key} /\ key \in Keys(it)
  BY <1>1, <1>3, <1>4, NilKeys
<1>6. Fall(it, it')
  BY <1>1, <1>3, <1>5 DEF Fall
<1>7. Loss(it, it', key, heir')
  BY <1>5 DEF Loss
<1>8. Shrinking'
  BY <1>1, <1>2, <1>3, <1>5, <1>6, <1>7 DEF Shrinking
<1>9. TypeOK' /\ Content' /\ Holding' /\ Frames(path', tree', keys')
  BY <1>1 DEF IInv, TypeOK, Content, Holding
<1>10. QED
  BY <1>1, <1>2, <1>8, <1>9 DEF IInv, Descending, Directed, Seeking, Growing,
     Clearing, Visiting

\* A node with two children has an heir in its right subtree.
LEMMA SeekHeirStep ==
  ASSUME IInv, SeekHeir
  PROVE  IInv'
<1>1. /\ pc = "remove" /\ pc' = "heir" /\ key' = key /\ tree' = tree /\ path' = Append(path, it)
      /\ keys' = keys /\ size' = size /\ fault' = fault /\ answer' = answer /\ dir' = dir
      /\ it # Nil /\ it.key = key /\ Right(it) # Nil /\ it' = Right(it)
  BY DEF SeekHeir, map
<1>2. /\ key \in Key /\ key \in Int /\ Linked(path, tree, key) /\ it = At(path, tree, key)
      /\ AA(it) /\ Keys(it) \subseteq keys /\ AA(tree) /\ Frames(path, tree, keys)
      /\ Holds(path, key, keys)
  BY <1>1 DEF IInv, Directed, Descending, Content, TypeOK, Holding
<1>3. /\ AA(it.right) /\ key \in Keys(it) /\ Keys(it.right) \subseteq Keys(it)
      /\ \A x \in Keys(it.right) : key < x
      /\ Right(it) = it.right
  BY <1>1, <1>2, AAParts DEF Right
<1>4. Toward(it, key) = it'
  BY <1>1, <1>2, TowardParts
<1>5. /\ Linked(path', tree, key) /\ At(path', tree, key) = it'
      /\ Frames(path', tree, keys) /\ Holds(path', key, keys)
  BY <1>1, <1>2, <1>3, <1>4, Onward
<1>6. Seeking'
  BY <1>1, <1>2, <1>3 DEF Seeking
<1>7. TypeOK' /\ Content'
  BY <1>1 DEF IInv, TypeOK, Content
<1>8. QED
  BY <1>1, <1>2, <1>5, <1>6, <1>7 DEF IInv, Descending, Directed, Holding, Growing, Shrinking,
     Clearing, Visiting

\* The least key of a subtree is on its left while it has a left child.
LEMMA NextHeirStep ==
  ASSUME IInv, NextHeir
  PROVE  IInv'
<1>1. /\ pc = "heir" /\ pc' = pc /\ key' = key /\ tree' = tree /\ path' = Append(path, it)
      /\ keys' = keys /\ size' = size /\ fault' = fault /\ answer' = answer /\ dir' = dir
      /\ it' = Left(it) /\ Left(it) # Nil
  BY DEF NextHeir, map
<1>2. /\ key \in Key /\ key \in Int /\ Linked(path, tree, key) /\ it = At(path, tree, key)
      /\ AA(it) /\ Keys(it) \subseteq keys /\ AA(tree) /\ Frames(path, tree, keys)
      /\ Holds(path, key, keys) /\ it # Nil /\ key \in keys
      /\ \A x \in Keys(it) : key < x
  BY <1>1 DEF IInv, Directed, Seeking, Content, TypeOK, Holding
<1>3. /\ AA(it.left) /\ Keys(it.left) \subseteq Keys(it) /\ it.key \in Keys(it)
      /\ Left(it) = it.left /\ it.key > key
  BY <1>1, <1>2, AAParts DEF Left
<1>4. Toward(it, key) = it'
  BY <1>1, <1>2, <1>3, TowardParts
<1>5. /\ Linked(path', tree, key) /\ At(path', tree, key) = it'
      /\ Frames(path', tree, keys) /\ Holds(path', key, keys)
  BY <1>1, <1>2, <1>3, <1>4, Onward
<1>6. Seeking'
  BY <1>1, <1>2, <1>3 DEF Seeking
<1>7. TypeOK' /\ Content'
  BY <1>1 DEF IInv, TypeOK, Content
<1>8. QED
  BY <1>1, <1>2, <1>5, <1>6, <1>7 DEF IInv, Descending, Directed, Holding, Growing, Shrinking,
     Clearing, Visiting

\* The heir is the least key of the subtree, and is unlinked.
LEMMA TakeHeirStep ==
  ASSUME IInv, TakeHeir
  PROVE  IInv'
<1>1. /\ pc = "heir" /\ pc' = "shrink" /\ key' = key /\ tree' = tree /\ path' = path
      /\ keys' = keys /\ size' = size /\ fault' = fault /\ answer' = answer /\ dir' = dir
      /\ heir' = it.key
      /\ it' = Right(it) /\ Left(it) = Nil
  BY DEF TakeHeir, map
<1>2. /\ key \in Key /\ Linked(path, tree, key) /\ it = At(path, tree, key)
      /\ AA(it) /\ it # Nil /\ key \in keys /\ Frames(path, tree, keys)
      /\ \A x \in Keys(it) : key < x
  BY <1>1 DEF IInv, Directed, Seeking
<1>3. /\ it.level \in Nat \ {0} /\ it.key \in Int /\ AA(it.right)
      /\ it.left.level = it.level - 1 /\ it.right.level \in {it.level - 1, it.level}
      /\ Right(it.right).level < it.level
      /\ Keys(it) = Keys(it.left) \cup {it.key} \cup Keys(it.right)
      /\ Keys(it.right) \subseteq Int
      /\ \A x \in Keys(it.right) : it.key < x
      /\ Left(it) = it.left /\ Right(it) = it.right
  BY <1>1, <1>2, AAParts DEF Left, Right
<1>4. it' = it.right /\ Keys(it') = Keys(it) \ {it.key} /\ it.key \in Keys(it)
  BY <1>1, <1>3, NilKeys
<1>5. Fall(it, it')
  BY <1>2, <1>3, <1>4 DEF Fall
<1>6. Loss(it, it', key, heir')
  <2>1. key \notin Keys(it)
    BY <1>2, KeyAssumption
  <2>2. \A x \in Keys(it) : it.key =< x
    BY <1>1, <1>3, NilKeys
  <2>3. QED
    BY <1>1, <1>4, <2>1, <2>2 DEF Loss
<1>7. Shrinking'
  BY <1>1, <1>2, <1>3, <1>4, <1>5, <1>6 DEF Shrinking
<1>8. TypeOK' /\ Content' /\ Holding' /\ Frames(path', tree', keys')
  BY <1>1 DEF IInv, TypeOK, Content, Holding
<1>9. QED
  BY <1>1, <1>2, <1>7, <1>8 DEF IInv, Descending, Directed, Seeking, Growing,
     Clearing, Visiting

\* A step back up of map_remove.
LEMMA ShrinkStepInv ==
  ASSUME IInv, Shrink
  PROVE  IInv'
<1> DEFINE u == Last(path)
           up == With(u, it)
           r == Rebalance(IF up.key = key THEN [up EXCEPT !.key = heir] ELSE up)
<1>1. /\ pc = "shrink" /\ pc' = pc /\ key' = key /\ tree' = tree /\ path # <<>> /\ path' = Front(path)
      /\ keys' = keys /\ size' = size /\ fault' = fault /\ answer' = answer /\ dir' = dir /\ heir' = heir
      /\ it' = r
  BY DEF Shrink, map
<1>2. /\ Frames(path', tree, keys) /\ AA(u) /\ u # Nil /\ Keys(u) \subseteq keys
      /\ Len(path) \in 1..Len(path) /\ u = path[Len(path)]
  BY <1>1, FramesPop DEF IInv
<1>3. /\ key \in Key /\ key \in Int /\ Linked(path', tree, key) /\ At(path', tree, key) = u
  BY <1>1, LinkedPop DEF IInv, Directed, TypeOK
<1>4. At(path, tree, key) = Toward(u, key)
  BY <1>1 DEF At
<1>5. /\ AA(it) /\ key \in keys
      /\ Loss(Toward(u, key), it, key, heir) /\ Fall(Toward(u, key), it)
  BY <1>1, <1>4 DEF IInv, Shrinking
<1>6. key \in Keys(u) \/ key < u.key
  BY <1>1, <1>2, <1>5 DEF IInv, Holding, Holds
<1>7. Holds(path', key, keys)
  <2>1. PICK S : path \in Seq(S)
    BY DEF IInv, Frames
  <2>2. /\ path' \in Seq(S) /\ Len(path') = Len(path) - 1 /\ Len(path) \in Nat \ {0}
        /\ \A i \in 1..Len(path') : path'[i] = path[i]
    BY <1>1, <2>1, Popped
  <2>3. \A i \in 1..Len(path') : i \in 1..Len(path)
    BY <2>2
  <2>4. QED
    BY <1>1, <2>2, <2>3 DEF IInv, Holding, Holds
<1> HIDE DEF u
<1>8. AA(r) /\ Loss(u, r, key, heir) /\ Fall(u, r)
  BY <1>2, <1>3, <1>5, <1>6, ShrinkStep
<1> HIDE DEF r
<1>9. Shrinking'
  BY <1>1, <1>3, <1>5, <1>8 DEF Shrinking
<1>10. TypeOK' /\ Content'
  BY <1>1 DEF IInv, TypeOK, Content
<1>11. QED
  BY <1>1, <1>2, <1>3, <1>7, <1>9, <1>10 DEF IInv, Descending, Directed, Holding, Seeking, Growing,
     Clearing, Visiting

-----------------------------------------------------------------------------
(* map_clear. *)

\* map_clear has every key before it.
LEMMA MapFreeStep ==
  ASSUME IInv, MapFree
  PROVE  IInv'
<1>1. /\ pc' = "clear" /\ it' = tree /\ path' = <<>> /\ todo' = keys /\ tree' = tree /\ keys' = keys
      /\ size' = size /\ fault' = fault /\ answer' = answer /\ dir' = dir /\ key' = key
  BY DEF MapFree, map
<1>2. TypeOK' /\ Content'
  BY <1>1 DEF MapFree, Ready, IInv, TypeOK, Content
<1>3. Clearing'
  BY <1>1, AASearch DEF IInv, Content, Clearing
<1>4. Frames(path', tree', keys')
  BY <1>1, NoFrames
<1>5. QED
  BY <1>1, <1>2, <1>3, <1>4 DEF IInv, Descending, Directed, Holding, Seeking, Growing, Shrinking,
     Visiting

\* A rotation keeps the keys of the tree that is left.
LEMMA RotateStep ==
  ASSUME IInv, Rotate
  PROVE  IInv'
<1>1. /\ pc = "clear" /\ pc' = pc /\ it # Nil /\ Left(it) # Nil
      /\ it' = [it.left EXCEPT !.right = [it EXCEPT !.left = it.left.right]]
      /\ path' = path /\ todo' = todo /\ tree' = tree /\ keys' = keys
      /\ size' = size /\ fault' = fault /\ answer' = answer /\ dir' = dir /\ key' = key
  BY DEF Rotate, map
<1>2. Search(it) /\ Keys(it) = todo
  BY <1>1 DEF IInv, Clearing
<1> DEFINE l == it.level  k == it.key  a == it.left  b == it.right
           l1 == a.level  k1 == a.key  a1 == a.left  b1 == a.right
<1>3. /\ it = Node(l, k, a, b) /\ l \in Nat \ {0} /\ k \in Key /\ k \in Int
      /\ Search(a) /\ Search(b) /\ a # Nil
      /\ Keys(it) = Keys(a) \cup {k} \cup Keys(b)
      /\ \A x \in Keys(a) : x < k
      /\ \A x \in Keys(b) : k < x
  BY <1>1, <1>2, SearchOpen
<1>4. /\ a = Node(l1, k1, a1, b1) /\ l1 \in Nat \ {0} /\ k1 \in Key /\ k1 \in Int
      /\ Search(a1) /\ Search(b1)
      /\ Keys(a) = Keys(a1) \cup {k1} \cup Keys(b1)
      /\ \A x \in Keys(a1) : x < k1
      /\ \A x \in Keys(b1) : k1 < x
  BY <1>3, SearchOpen
<1> DEFINE d == Node(l, k, b1, b)
           e == Node(l1, k1, a1, d)
<1>5. it' = e
  <2>1. it' = [a EXCEPT !.right = [it EXCEPT !.left = b1]]
    BY <1>1
  <2> HIDE DEF l, k, a, b, l1, k1, a1, b1
  <2>2. [Node(l, k, a, b) EXCEPT !.left = b1] = d
    BY DEF Node
  <2> HIDE DEF d
  <2>3. [Node(l1, k1, a1, b1) EXCEPT !.right = d] = e
    BY DEF Node
  <2>4. QED
    BY <1>3, <1>4, <2>1, <2>2, <2>3
<1> HIDE DEF l, k, a, b, l1, k1, a1, b1
<1>6. Keys(b) \subseteq Int
  BY <1>3, KeysFinite
<1>7. Search(d) /\ Keys(d) = Keys(b1) \cup {k} \cup Keys(b)
  <2>1. \A x \in Keys(b1) : x < k
    BY <1>3, <1>4
  <2>2. QED
    BY <1>3, <1>4, <2>1, SearchMake
<1> HIDE DEF d
<1>8. Search(e) /\ Keys(e) = Keys(a1) \cup {k1} \cup Keys(d)
  <2>1. \A x \in Keys(d) : k1 < x
    BY <1>3, <1>4, <1>6, <1>7
  <2>2. QED
    BY <1>4, <1>7, <2>1, SearchMake
<1> HIDE DEF e
<1>9. Keys(e) = todo
  BY <1>2, <1>3, <1>4, <1>7, <1>8
<1>10. Clearing'
  BY <1>1, <1>5, <1>8, <1>9 DEF Clearing
<1>11. TypeOK' /\ Content' /\ Frames(path', tree', keys')
  BY <1>1 DEF IInv, TypeOK, Content
<1>12. QED
  BY <1>1, <1>10, <1>11 DEF IInv, Descending, Directed, Holding, Seeking, Growing, Shrinking,
     Visiting

\* A release takes one key off the tree that is left.
LEMMA ReleaseStep ==
  ASSUME IInv, Release
  PROVE  IInv'
<1>1. /\ pc = "clear" /\ pc' = pc /\ it # Nil /\ Left(it) = Nil
      /\ it' = Right(it) /\ todo' = todo \ {it.key}
      /\ path' = path /\ tree' = tree /\ keys' = keys
      /\ size' = size /\ fault' = fault /\ answer' = answer /\ dir' = dir /\ key' = key
  BY DEF Release, map
<1>2. Search(it) /\ Keys(it) = todo
  BY <1>1 DEF IInv, Clearing
<1>3. /\ Search(it.right) /\ Left(it) = it.left /\ Right(it) = it.right /\ it.key \in Int
      /\ Keys(it) = Keys(it.left) \cup {it.key} \cup Keys(it.right)
      /\ \A x \in Keys(it.right) : it.key < x
  BY <1>1, <1>2, SearchOpen
<1>4. Search(it') /\ Keys(it') = todo'
  BY <1>1, <1>2, <1>3, NilKeys
<1>5. Clearing'
  BY <1>4 DEF Clearing
<1>6. TypeOK' /\ Content' /\ Frames(path', tree', keys')
  BY <1>1 DEF IInv, TypeOK, Content
<1>7. QED
  BY <1>1, <1>5, <1>6 DEF IInv, Descending, Directed, Holding, Seeking, Growing, Shrinking,
     Visiting

-----------------------------------------------------------------------------
(* Cursors. *)

\* The two children of a node, as they lie in a direction.
LEMMA Sides ==
  ASSUME NEW u, AA(u), u # Nil, NEW d \in {0, 1}
  PROVE  /\ AA(Child(u, d)) /\ AA(Child(u, 1 - d))
         /\ Keys(u) = Keys(Child(u, 1 - d)) \cup {u.key} \cup Keys(Child(u, d))
         /\ u.key \in Int /\ Keys(Child(u, 1 - d)) \subseteq Int /\ Keys(Child(u, d)) \subseteq Int
         /\ \A x \in Keys(Child(u, d)) : Before(d, u.key, x)
         /\ \A x \in Keys(Child(u, 1 - d)) : Before(d, x, u.key)
         /\ {Left(u), Right(u)} = {Child(u, d), Child(u, 1 - d)}
<1>1. /\ AA(Left(u)) /\ AA(Right(u)) /\ u.key \in Int
      /\ Keys(u) = Keys(Left(u)) \cup {u.key} \cup Keys(Right(u))
      /\ Keys(Left(u)) \subseteq Int /\ Keys(Right(u)) \subseteq Int
      /\ \A x \in Keys(Left(u)) : x < u.key
      /\ \A x \in Keys(Right(u)) : u.key < x
  BY AAParts DEF Left, Right
<1>2. CASE d = 1
  <2>1. Child(u, d) = Right(u) /\ Child(u, 1 - d) = Left(u)
    BY <1>2 DEF Child
  <2>2. QED
    BY <1>1, <1>2, <2>1 DEF Before
<1>3. CASE d = 0
  <2>1. Child(u, d) = Left(u) /\ Child(u, 1 - d) = Right(u)
    BY <1>3 DEF Child
  <2>2. QED
    BY <1>1, <1>3, <2>1 DEF Before
<1>4. QED
  BY <1>2, <1>3

\* A direction is a strict total order, and a convex set is one in both.
LEMMA Directions ==
  ASSUME NEW d \in {0, 1}
  PROVE  /\ \A x, y \in Int : x = y \/ Before(d, x, y) \/ Before(d, y, x)
         /\ \A x, y \in Int : Before(d, x, y) => ~ Before(d, y, x) /\ x # y
         /\ \A x, y, z \in Int : Before(d, x, y) /\ Before(d, y, z) => Before(d, x, z)
         /\ \A S, K : Convex(S, K) =>
              \A x, y \in S, z \in K : Before(d, x, z) /\ Before(d, z, y) => z \in S
<1>1. CASE d = 1
  BY <1>1 DEF Before, Convex
<1>2. CASE d = 0
  BY <1>2 DEF Before, Convex
<1>3. QED
  BY <1>1, <1>2

\* The children of a convex subtree are convex.
LEMMA ConvexChild ==
  ASSUME NEW u, AA(u), u # Nil, NEW d \in {0, 1}, NEW K, K \subseteq Int, Convex(Keys(u), K)
  PROVE  Convex(Keys(Child(u, d)), K)
<1>1. /\ Keys(u) = Keys(Child(u, 1 - d)) \cup {u.key} \cup Keys(Child(u, d))
      /\ u.key \in Int /\ Keys(Child(u, 1 - d)) \subseteq Int /\ Keys(Child(u, d)) \subseteq Int
      /\ \A x \in Keys(Child(u, d)) : Before(d, u.key, x)
      /\ \A x \in Keys(Child(u, 1 - d)) : Before(d, x, u.key)
  BY Sides
<1>2. ASSUME NEW x \in Keys(Child(u, d)), NEW y \in Keys(Child(u, d)), NEW z \in K, x < z, z < y
      PROVE  z \in Keys(Child(u, d))
  <2>1. z \in Keys(u) /\ z \in Int /\ x \in Int /\ y \in Int
    BY <1>1, <1>2 DEF Convex
  <2>2. Before(d, u.key, z)
    BY <1>1, <1>2, <2>1 DEF Before
  <2>3. QED
    BY <1>1, <2>1, <2>2, Directions
<1>3. QED
  BY <1>2 DEF Convex

\* The cursor goes to a child.
LEMMA LeadsPush ==
  ASSUME Frames(path, tree, keys), Leads(path, tree, it), AA(tree), AA(it), it # Nil,
         Keys(it) \subseteq keys, path' = Append(path, it), it' \in {Left(it), Right(it)},
         Convex(Keys(it), keys), \A i \in 1..Len(path) : Convex(Keys(path[i]), keys)
  PROVE  /\ Frames(path', tree, keys) /\ Leads(path', tree, it')
         /\ \A i \in 1..Len(path') : Convex(Keys(path'[i]), keys)
<1>1. /\ path' # <<>> /\ Last(path') = it
      /\ Len(path') = Len(path) + 1 /\ Len(path) \in Nat
      /\ \A j \in 1..Len(path) : path'[j] = path[j]
      /\ path'[Len(path) + 1] = it
  BY PathPushed
<1>2. Frames(path', tree, keys)
  BY FramesPush DEF Leads
<1>3. ASSUME NEW i \in 1..Len(path') PROVE Convex(Keys(path'[i]), keys)
  <2>1. CASE i \in 1..Len(path)
    BY <1>1, <2>1
  <2>2. CASE i = Len(path) + 1
    BY <1>1, <2>2
  <2>3. QED
    BY <1>1, <2>1, <2>2
<1>4. PICK S : path \in Seq(S)
  BY DEF Frames
<1>5. path = <<>> <=> Len(path) = 0
  BY <1>4, EmptySeq
<1>6. path'[1] = tree
  <2>1. CASE path = <<>>
    BY <1>1, <1>5, <2>1 DEF Leads, Below
  <2>2. CASE path # <<>>
    BY <1>1, <1>5, <2>2 DEF Leads
  <2>3. QED
    BY <2>1, <2>2
<1>7. ASSUME NEW i \in 1..(Len(path') - 1) PROVE path'[i + 1] \in {Left(path'[i]), Right(path'[i])}
  <2>1. CASE i < Len(path)
    <3>1. path # <<>> /\ i \in 1..(Len(path) - 1) /\ i \in 1..Len(path) /\ i + 1 \in 1..Len(path)
      BY <1>1, <1>5, <2>1
    <3>2. QED
      BY <1>1, <3>1 DEF Leads
  <2>2. CASE i = Len(path)
    <3>1. path # <<>> /\ i \in 1..Len(path)
      BY <1>1, <1>5, <2>2
    <3>2. Last(path) = path[i]
      BY <2>2 DEF Last
    <3>3. QED
      BY <1>1, <2>2, <3>1, <3>2 DEF Leads, Below
  <2>3. QED
    BY <1>1, <2>1, <2>2
<1>8. Below(path', tree, it')
  BY <1>1 DEF Below
<1>9. QED
  BY <1>2, <1>3, <1>6, <1>7, <1>8 DEF Leads

\* The cursor goes back to the node above.
LEMMA LeadsPop ==
  ASSUME Frames(path, tree, keys), Leads(path, tree, it), path # <<>>, path' = Front(path),
         \A i \in 1..Len(path) : Convex(Keys(path[i]), keys)
  PROVE  /\ Frames(path', tree, keys) /\ Leads(path', tree, Last(path))
         /\ it \in {Left(Last(path)), Right(Last(path))}
         /\ AA(Last(path)) /\ Last(path) # Nil /\ Keys(Last(path)) \subseteq keys
         /\ Convex(Keys(Last(path)), keys)
         /\ \A i \in 1..Len(path') : Convex(Keys(path'[i]), keys)
<1>1. /\ Frames(path', tree, keys)
      /\ AA(Last(path)) /\ Last(path) # Nil /\ Keys(Last(path)) \subseteq keys
      /\ Len(path) \in 1..Len(path) /\ Last(path) = path[Len(path)]
  BY FramesPop
<1>2. PICK S : path \in Seq(S)
  BY DEF Frames
<1>3. /\ Len(path') = Len(path) - 1 /\ Len(path) \in Nat \ {0}
      /\ \A i \in 1..Len(path') : path'[i] = path[i]
      /\ (path' = <<>> <=> Len(path) = 1)
      /\ path' # <<>> => Last(path') = path[Len(path) - 1] /\ Len(path) - 1 \in 1..Len(path) /\ path'[1] = path[1]
  BY <1>2, Popped
<1>4. \A i \in 1..Len(path') : Convex(Keys(path'[i]), keys)
  <2>1. \A i \in 1..Len(path') : i \in 1..Len(path)
    BY <1>3
  <2>2. QED
    BY <1>3, <2>1
<1>5. path[1] = tree
  BY DEF Leads
<1>6. ASSUME path' # <<>>
      PROVE  path'[1] = tree /\ \A i \in 1..(Len(path') - 1) : path'[i + 1] \in {Left(path'[i]), Right(path'[i])}
  <2>1. ASSUME NEW i \in 1..(Len(path') - 1) PROVE path'[i + 1] \in {Left(path'[i]), Right(path'[i])}
    <3>1. i \in 1..(Len(path) - 1) /\ i \in 1..Len(path') /\ i + 1 \in 1..Len(path')
      BY <1>3
    <3>2. QED
      BY <1>3, <3>1 DEF Leads
  <2>2. QED
    BY <1>3, <1>5, <1>6, <2>1
<1>7. Below(path', tree, Last(path))
  <2>1. CASE path' = <<>>
    BY <1>1, <1>3, <1>5, <2>1 DEF Below
  <2>2. CASE path' # <<>>
    <3>1. Len(path) - 1 \in 1..(Len(path) - 1) /\ (Len(path) - 1) + 1 = Len(path)
      BY <1>3, <2>2
    <3>2. path[Len(path)] \in {Left(path[Len(path) - 1]), Right(path[Len(path) - 1])}
      BY <3>1 DEF Leads
    <3>3. QED
      BY <1>1, <1>3, <2>2, <3>2 DEF Below
  <2>3. QED
    BY <2>1, <2>2
<1>8. it \in {Left(Last(path)), Right(Last(path))}
  BY DEF Leads, Below
<1>9. Convex(Keys(Last(path)), keys)
  BY <1>1
<1>10. QED
  BY <1>1, <1>4, <1>6, <1>7, <1>8, <1>9 DEF Leads

\* A step of a cursor leaves the map alone.
LEMMA CursorStep ==
  ASSUME IInv, fault = "none",
         UNCHANGED <<map, key>>, pc' \in {"down", "at", "up"}, dir' \in {0, 1},
         Frames(path', tree, keys), Visiting'
  PROVE  IInv'
<1>1. /\ tree' = tree /\ keys' = keys /\ key' = key
      /\ size' = size /\ fault' = fault /\ answer' = answer
  BY DEF map
<1>2. TypeOK' /\ Content' /\ Frames(path', tree', keys')
  BY <1>1 DEF IInv, TypeOK, Content
<1>3. QED
  BY <1>2 DEF IInv, Descending, Directed, Holding, Seeking, Growing, Shrinking, Clearing

\* A cursor starts at the root with every key ahead.
LEMMA StartStep ==
  ASSUME IInv, NEW d \in {0, 1}, Start(d)
  PROVE  IInv'
<1>1. /\ pc' = "down" /\ it' = tree /\ path' = <<>> /\ dir' = d /\ todo' = keys
      /\ fault = "none" /\ UNCHANGED <<map, key>> /\ tree' = tree /\ keys' = keys
  BY DEF Start, Ready, map
<1>2. AA(tree) /\ Keys(tree) = keys
  BY DEF IInv, Content
<1>3. Frames(path', tree, keys) /\ Len(path') = 0
  BY <1>1, NoFrames, EmptySeq
<1>4. Convex(keys, keys)
  BY DEF Convex
<1>5. Leads(path', tree', it')
  BY <1>1 DEF Leads, Below
<1>6. tree = Nil => keys = {}
  BY <1>2, NilKeys
<1>7. Visiting'
  BY <1>1, <1>2, <1>3, <1>4, <1>5, <1>6 DEF Visiting
<1>8. QED
  BY <1>1, <1>3, <1>7, CursorStep

\* A cursor leaves a node: the keys beyond it are ahead.
LEMMA MoveStep ==
  ASSUME IInv, NEW d \in {0, 1}, Move(d)
  PROVE  IInv'
<1>1. /\ pc = "at" /\ dir' = d /\ todo' = Beyond(it, d)
      /\ fault = "none" /\ UNCHANGED <<map, key>> /\ tree' = tree /\ keys' = keys
  BY DEF Move, map, IInv, TypeOK
<1>2. /\ AA(it) /\ Keys(it) \subseteq keys /\ Convex(Keys(it), keys) /\ todo \subseteq keys
      /\ \A i \in 1..Len(path) : Convex(Keys(path[i]), keys)
      /\ it = Nil => path = <<>>
      /\ it # Nil => Leads(path, tree, it)
  BY <1>1 DEF IInv, Visiting
<1>3. AA(tree) /\ Frames(path, tree, keys) /\ keys \subseteq Int
  BY KeysBound DEF IInv, Content
<1>4. CASE it = Nil
  <2>1. Child(it, d) = Nil /\ Beyond(it, d) = {}
    BY <1>4 DEF Child, Left, Right, Beyond
  <2>2. pc' = "up" /\ it' = it /\ path' = path
    BY <2>1 DEF Move
  <2>3. Visiting'
    BY <1>1, <1>2, <1>4, <2>1, <2>2 DEF Visiting
  <2>4. QED
    BY <1>1, <1>3, <2>2, <2>3, CursorStep
<1>5. CASE it # Nil
  <2>1. \A y : y \in todo' <=> y \in keys /\ Before(d, it.key, y)
    BY <1>1, <1>5 DEF Beyond, Before
  <2>2. /\ Keys(it) = Keys(Child(it, 1 - d)) \cup {it.key} \cup Keys(Child(it, d))
        /\ it.key \in Int /\ AA(Child(it, d))
        /\ \A x \in Keys(Child(it, d)) : Before(d, it.key, x)
        /\ \A x \in Keys(Child(it, 1 - d)) : Before(d, x, it.key)
        /\ {Left(it), Right(it)} = {Child(it, d), Child(it, 1 - d)}
    BY <1>2, <1>5, Sides
  <2>3. todo' \subseteq keys'
    BY <1>1, <2>1
  <2>4. CASE Child(it, d) # Nil
    <3>1. it' = Child(it, d) /\ path' = Append(path, it) /\ pc' = "down"
      BY <2>4 DEF Move
    <3>2. /\ Frames(path', tree, keys) /\ Leads(path', tree, it')
          /\ \A i \in 1..Len(path') : Convex(Keys(path'[i]), keys)
      BY <1>2, <1>3, <1>5, <2>2, <3>1, LeadsPush
    <3>3. Keys(it') \subseteq keys /\ AA(it') /\ Convex(Keys(it'), keys) /\ it' # Nil
      BY <1>2, <1>3, <1>5, <2>2, <2>4, <3>1, ConvexChild
    <3>4. Keys(it') \subseteq todo'
      BY <2>1, <2>2, <3>1, <3>3
    <3>5. ASSUME NEW x \in Keys(it'), NEW y \in todo' \ Keys(it') PROVE Before(d, x, y)
      <4>1. /\ x \in Int /\ y \in Int /\ y \in keys /\ x # y /\ Before(d, it.key, y)
            /\ x \in Keys(it) /\ it.key \in Keys(it)
        BY <1>2, <1>3, <2>1, <2>2, <3>1, <3>5
      <4>2. ~ Before(d, y, x)
        <5>1. SUFFICES ASSUME Before(d, y, x) PROVE FALSE
          OBVIOUS
        <5>2. y \in Keys(it)
          BY <1>2, <4>1, <5>1, Directions
        <5>3. y # it.key /\ y \notin Keys(Child(it, 1 - d))
          BY <2>2, <4>1, Directions
        <5>4. QED
          BY <2>2, <3>1, <3>5, <5>2, <5>3
      <4>3. QED
        BY <4>1, <4>2, Directions
    <3>6. Visiting'
      BY <1>1, <2>3, <3>1, <3>2, <3>3, <3>4, <3>5 DEF Visiting
    <3>7. QED
      BY <1>1, <3>1, <3>2, <3>6, CursorStep
  <2>5. CASE Child(it, d) = Nil
    <3>1. it' = it /\ path' = path /\ pc' = "up"
      BY <2>5 DEF Move
    <3>2. Keys(Child(it, d)) = {}
      BY <2>5, NilKeys
    <3>3. ASSUME NEW y \in todo' PROVE y \notin Keys(it) /\ Before(d, it.key, y)
      <4>1. Before(d, it.key, y) /\ y \in Int
        BY <1>3, <2>1, <3>3
      <4>2. y # it.key /\ y \notin Keys(Child(it, 1 - d))
        BY <2>2, <4>1, Directions
      <4>3. QED
        BY <2>2, <3>2, <4>1, <4>2
    <3>4. Visiting'
      BY <1>1, <1>2, <1>5, <2>1, <2>3, <3>1, <3>3 DEF Visiting
    <3>5. QED
      BY <1>1, <1>3, <3>1, <3>4, CursorStep
  <2>6. QED
    BY <2>4, <2>5
<1>6. QED
  BY <1>4, <1>5

\* A step down, against the direction.
LEMMA DownStep ==
  ASSUME IInv, Down
  PROVE  IInv'
<1> DEFINE d == dir
<1>1. /\ pc = "down" /\ dir' = d /\ todo' = todo /\ d \in {0, 1}
      /\ fault = "none" /\ UNCHANGED <<map, key>> /\ tree' = tree /\ keys' = keys
  BY DEF Down, map, IInv, TypeOK
<1>2. /\ AA(it) /\ Keys(it) \subseteq keys /\ Convex(Keys(it), keys) /\ todo \subseteq keys
      /\ \A i \in 1..Len(path) : Convex(Keys(path[i]), keys)
      /\ it = Nil => path = <<>> /\ todo = {}
      /\ it # Nil => /\ Leads(path, tree, it) /\ Keys(it) \subseteq todo
                     /\ \A x \in Keys(it), y \in todo \ Keys(it) : Before(d, x, y)
  BY <1>1 DEF IInv, Visiting
<1>3. AA(tree) /\ Frames(path, tree, keys) /\ keys \subseteq Int
  BY KeysBound DEF IInv, Content
<1>4. /\ Child(it, 1 - d) # Nil => it' = Child(it, 1 - d) /\ path' = Append(path, it) /\ pc' = "down"
      /\ Child(it, 1 - d) = Nil => it' = it /\ path' = path /\ pc' = "at"
  BY DEF Down
<1> HIDE DEF d
<1>5. CASE it = Nil
  <2>1. Child(it, 1 - d) = Nil
    BY <1>5 DEF Child, Left, Right
  <2>2. Visiting'
    BY <1>1, <1>2, <1>4, <1>5, <2>1 DEF Visiting
  <2>3. QED
    BY <1>1, <1>3, <1>4, <2>1, <2>2, CursorStep
<1>6. CASE it # Nil
  <2>1. /\ Keys(it) = Keys(Child(it, 1 - d)) \cup {it.key} \cup Keys(Child(it, d))
        /\ it.key \in Int /\ AA(Child(it, 1 - d))
        /\ \A x \in Keys(Child(it, d)) : Before(d, it.key, x)
        /\ \A x \in Keys(Child(it, 1 - d)) : Before(d, x, it.key)
        /\ {Left(it), Right(it)} = {Child(it, d), Child(it, 1 - d)}
    BY <1>1, <1>2, <1>6, Sides
  <2>2. CASE Child(it, 1 - d) # Nil
    <3>1. it' = Child(it, 1 - d) /\ path' = Append(path, it) /\ pc' = "down"
      BY <1>4, <2>2
    <3>2. /\ Frames(path', tree, keys) /\ Leads(path', tree, it')
          /\ \A i \in 1..Len(path') : Convex(Keys(path'[i]), keys)
      BY <1>2, <1>3, <1>6, <2>1, <3>1, LeadsPush
    <3>3. 1 - d \in {0, 1}
      BY <1>1
    <3>4. Keys(it') \subseteq keys /\ AA(it') /\ Convex(Keys(it'), keys) /\ it' # Nil
      BY <1>2, <1>3, <1>6, <2>1, <2>2, <3>1, <3>3, ConvexChild
    <3>5. Keys(it') \subseteq todo
      BY <1>2, <1>6, <2>1, <3>1
    <3>6. ASSUME NEW x \in Keys(it'), NEW y \in todo \ Keys(it') PROVE Before(d, x, y)
      <4>1. x \in Keys(it) /\ x \in Int /\ y \in Int /\ Before(d, x, it.key)
        BY <1>2, <1>3, <2>1, <3>1, <3>6
      <4>2. CASE y \notin Keys(it)
        BY <1>2, <1>6, <4>1, <4>2
      <4>3. CASE y \in Keys(it)
        <5>1. y = it.key \/ Before(d, it.key, y)
          BY <2>1, <3>1, <3>6, <4>3
        <5>2. QED
          BY <1>1, <2>1, <4>1, <5>1, Directions
      <4>4. QED
        BY <4>2, <4>3
    <3>7. Visiting'
      BY <1>1, <1>2, <3>1, <3>2, <3>4, <3>5, <3>6 DEF Visiting
    <3>8. QED
      BY <1>1, <3>1, <3>2, <3>7, CursorStep
  <2>3. CASE Child(it, 1 - d) = Nil
    <3>1. it' = it /\ path' = path /\ pc' = "at"
      BY <1>4, <2>3
    <3>2. Keys(Child(it, 1 - d)) = {}
      BY <2>3, NilKeys
    <3>3. it.key \in todo /\ it.key \in Keys(it)
      BY <1>2, <1>6, <2>1
    <3>4. ASSUME NEW y \in todo \ {it.key} PROVE Before(d, it.key, y)
      BY <1>2, <1>6, <2>1, <3>2, <3>3, <3>4
    <3>5. Visiting'
      BY <1>1, <1>2, <1>6, <3>1, <3>3, <3>4 DEF Visiting
    <3>6. QED
      BY <1>1, <1>3, <3>1, <3>5, CursorStep
  <2>4. QED
    BY <2>2, <2>3
<1>7. QED
  BY <1>5, <1>6

\* A step up, past what has been visited.
LEMMA UpStep ==
  ASSUME IInv, Up
  PROVE  IInv'
<1> DEFINE d == dir
<1>1. /\ pc = "up" /\ dir' = d /\ todo' = todo /\ d \in {0, 1}
      /\ fault = "none" /\ UNCHANGED <<map, key>> /\ tree' = tree /\ keys' = keys
  BY DEF Up, map, IInv, TypeOK
<1>2. /\ AA(it) /\ Keys(it) \subseteq keys /\ todo \subseteq keys
      /\ \A i \in 1..Len(path) : Convex(Keys(path[i]), keys)
      /\ it = Nil => path = <<>> /\ todo = {}
      /\ it # Nil => /\ Leads(path, tree, it)
                     /\ \A y \in todo : y \notin Keys(it) /\ Before(d, it.key, y)
                     /\ \A y \in keys \ Keys(it) : Before(d, it.key, y) => y \in todo
  BY <1>1 DEF IInv, Visiting
<1>3. AA(tree) /\ Keys(tree) = keys /\ Frames(path, tree, keys) /\ keys \subseteq Int
  BY KeysBound DEF IInv, Content
<1>4. CASE path = <<>>
  <2>1. it' = Nil /\ path' = path /\ pc' = "at"
    BY <1>4 DEF Up
  <2>2. todo = {}
    BY <1>2, <1>3, <1>4 DEF Leads, Below
  <2>3. Convex(Keys(it'), keys) /\ Keys(it') = {} /\ AA(it')
    BY <2>1, NilKeys DEF Convex
  <2>4. Visiting'
    BY <1>1, <1>2, <1>4, <2>1, <2>2, <2>3 DEF Visiting
  <2>5. QED
    BY <1>1, <1>3, <2>1, <2>4, CursorStep
<1>5. CASE path # <<>>
  <2> DEFINE u == Last(path)
  <2>1. /\ it' = u /\ path' = Front(path)
        /\ it = Child(u, d) => pc' = "up"
        /\ it # Child(u, d) => pc' = "at"
    BY <1>5 DEF Up
  <2>2. it # Nil /\ Leads(path, tree, it)
    BY <1>2, <1>5
  <2>3. /\ Frames(path', tree, keys) /\ Leads(path', tree, u)
        /\ it \in {Left(u), Right(u)}
        /\ AA(u) /\ u # Nil /\ Keys(u) \subseteq keys /\ Convex(Keys(u), keys)
        /\ \A i \in 1..Len(path') : Convex(Keys(path'[i]), keys)
    BY <1>2, <1>3, <1>5, <2>1, <2>2, LeadsPop
  <2> HIDE DEF u, d
  <2>4. /\ Keys(u) = Keys(Child(u, 1 - d)) \cup {u.key} \cup Keys(Child(u, d))
        /\ u.key \in Int
        /\ \A x \in Keys(Child(u, d)) : Before(d, u.key, x)
        /\ \A x \in Keys(Child(u, 1 - d)) : Before(d, x, u.key)
        /\ {Left(u), Right(u)} = {Child(u, d), Child(u, 1 - d)}
    BY <1>1, <2>3, Sides
  <2>5. it.key \in Int /\ it.key \in Keys(it)
    BY <1>1, <1>2, <2>2, Sides
  <2>6. CASE it = Child(u, d)
    <3>1. Before(d, u.key, it.key) /\ it.key \in Keys(u) /\ u.key \in Keys(u)
      BY <2>4, <2>5, <2>6
    <3>2. ASSUME NEW y \in todo PROVE y \notin Keys(u) /\ Before(d, u.key, y)
      <4>1. y \notin Keys(it) /\ Before(d, it.key, y) /\ y \in Int
        BY <1>2, <1>3, <2>2, <3>2
      <4>2. Before(d, u.key, y)
        BY <1>1, <2>4, <2>5, <3>1, <4>1, Directions
      <4>3. y # u.key /\ y \notin Keys(Child(u, 1 - d))
        BY <1>1, <2>4, <4>1, <4>2, Directions
      <4>4. QED
        BY <2>4, <2>6, <4>1, <4>2, <4>3
    <3>3. ASSUME NEW y \in keys \ Keys(u), Before(d, u.key, y) PROVE y \in todo
      <4>1. y \in Int /\ y \notin Keys(it) /\ y # it.key
        BY <1>3, <2>4, <2>6, <2>5, <3>3
      <4>2. ~ Before(d, y, it.key)
        BY <1>1, <2>3, <3>1, <3>3, Directions
      <4>3. QED
        BY <1>1, <1>2, <2>2, <2>5, <3>3, <4>1, <4>2, Directions
    <3>4. Visiting'
      BY <1>1, <1>2, <2>1, <2>3, <2>6, <3>2, <3>3 DEF Visiting
    <3>5. QED
      BY <1>1, <2>1, <2>3, <2>6, <3>4, CursorStep
  <2>7. CASE it # Child(u, d)
    <3>1. it = Child(u, 1 - d)
      BY <2>3, <2>4, <2>7
    <3>2. Before(d, it.key, u.key) /\ it.key \in Keys(u) /\ u.key \in Keys(u)
      BY <2>4, <2>5, <3>1
    <3>3. u.key \notin Keys(it)
      BY <1>1, <2>4, <3>1, Directions
    <3>4. u.key \in todo
      BY <1>2, <2>2, <2>3, <3>2, <3>3
    <3>5. ASSUME NEW y \in todo \ {u.key} PROVE Before(d, u.key, y)
      <4>1. y \notin Keys(it) /\ Before(d, it.key, y) /\ y \in Int /\ y \in keys /\ y # u.key
        BY <1>2, <1>3, <2>2, <3>5
      <4>2. CASE Before(d, y, u.key)
        <5>1. y \in Keys(u)
          BY <1>1, <2>3, <3>2, <4>1, <4>2, Directions
        <5>2. QED
          BY <2>4, <3>1, <4>1, <5>1
      <4>3. QED
        BY <1>1, <2>4, <4>1, <4>2, Directions
    <3>6. Visiting'
      BY <1>1, <1>2, <2>1, <2>3, <2>7, <3>4, <3>5 DEF Visiting
    <3>7. QED
      BY <1>1, <2>1, <2>3, <2>7, <3>6, CursorStep
  <2>8. QED
    BY <2>6, <2>7
<1>6. QED
  BY <1>4, <1>5

-----------------------------------------------------------------------------
\* Every step keeps the inductive invariant.
LEMMA NextInv == IInv /\ [Next]_vars => IInv'
<1> SUFFICES ASSUME IInv, [Next]_vars PROVE IInv'
  OBVIOUS
<1>1. CASE \E k \in Key : MapFind(k) \/ MapInsert(k) \/ MapRemove(k)
  <2>1. PICK k \in Key, loop \in {"find", "insert", "remove"} : Begin(loop, k)
    BY <1>1 DEF MapFind, MapInsert, MapRemove
  <2>2. QED
    BY <2>1, BeginStep
<1>2. CASE Descend
  BY <1>2, DescendStep
<1>3. CASE Found
  BY <1>3, FoundStep
<1>4. CASE Overwrite \/ NoNode \/ Absent \/ RemoveFromEmpty
  BY <1>4, StayStep
<1>5. CASE NewNode
  BY <1>5, NewNodeStep
<1>6. CASE Grow
  BY <1>6, GrowStepInv
<1>7. CASE Inserted
  BY <1>7, InsertedStep
<1>8. CASE Unlink
  BY <1>8, UnlinkStep
<1>9. CASE SeekHeir
  BY <1>9, SeekHeirStep
<1>10. CASE NextHeir
  BY <1>10, NextHeirStep
<1>11. CASE TakeHeir
  BY <1>11, TakeHeirStep
<1>12. CASE Shrink
  BY <1>12, ShrinkStepInv
<1>13. CASE Removed
  BY <1>13, RemovedStep
<1>14. CASE MapFree
  BY <1>14, MapFreeStep
<1>15. CASE Rotate
  BY <1>15, RotateStep
<1>16. CASE Release
  BY <1>16, ReleaseStep
<1>17. CASE Freed
  BY <1>17, FreedStep
<1>18. CASE \E d \in {0, 1} : Start(d) \/ Move(d)
  BY <1>18, StartStep, MoveStep
<1>19. CASE Down
  BY <1>19, DownStep
<1>20. CASE Up
  BY <1>20, UpStep
<1>21. CASE Astray
  BY <1>21, AstrayStep
<1>22. CASE UNCHANGED vars
  BY <1>22 DEF vars, IInv, TypeOK, Content, Descending, Directed, Holding, Seeking, Growing,
     Shrinking, Clearing, Visiting
<1>23. QED
  BY <1>1, <1>2, <1>3, <1>4, <1>5, <1>6, <1>7, <1>8, <1>9, <1>10, <1>11, <1>12, <1>13,
     <1>14, <1>15, <1>16, <1>17, <1>18, <1>19, <1>20, <1>21, <1>22 DEF Next

\* The inductive invariant holds in every state the map comes to.
THEOREM Invariant == Spec => []IInv
BY InitInv, NextInv, PTL DEF Spec

\* The variables have their types, in every state of every behaviour.
THEOREM TypeCorrect == Spec => []TypeOK
<1>1. IInv => TypeOK
  BY DEF IInv
<1>2. QED
  BY <1>1, Invariant, PTL

\* map_insert and map_remove leave an Andersson tree, whatever the keys and
\* their order: the nodes a walk down it meets keep the rules.
THEOREM Balanced == Spec => []StaysBalanced
<1>1. IInv => StaysBalanced
  BY AAOpen DEF IInv, Descending, StaysBalanced
<1>2. QED
  BY <1>1, Invariant, PTL

\* map_clear releases the element of every node, and of none twice.
THEOREM Released == Spec => []ReleasedOnce
<1>1. IInv => ReleasedOnce
  BY NilKeys, SearchOpen DEF IInv, Clearing, ReleasedOnce
<1>2. QED
  BY <1>1, Invariant, PTL

\* A cursor comes to every key, each after the one before it in its direction.
THEOREM Visited == Spec => []CursorsVisitAll
<1>1. IInv => CursorsVisitAll
  <2>1. SUFFICES ASSUME IInv, pc = "at"
                 PROVE  IF it = Nil THEN todo = {}
                        ELSE /\ it.key \in todo
                             /\ \A k \in todo \ {it.key} : IF dir = 1 THEN it.key < k ELSE k < it.key
    BY DEF CursorsVisitAll
  <2>2. CASE it = Nil
    BY <2>1, <2>2 DEF IInv, Visiting
  <2>3. CASE it # Nil
    <3>1. it.key \in todo /\ \A k \in todo \ {it.key} : Before(dir, it.key, k)
      BY <2>1, <2>3 DEF IInv, Visiting
    <3>2. QED
      BY <2>3, <3>1 DEF Before
  <2>4. QED
    BY <2>2, <2>3
<1>2. QED
  BY <1>1, Invariant, PTL

-----------------------------------------------------------------------------
(* The height of the tree. *)

\* A function that doubles from 1 up to m.
Doubling(g, m) == g[0] = 1 /\ \A i \in 1..m : g[i] = 2 * g[i - 1]

\* Pow is defined by its equation: a function that satisfies it exists.
LEMMA PowEquation ==
  ASSUME NEW f, f = [n \in Nat |-> IF n = 0 THEN 1 ELSE 2 * f[n - 1]]
  PROVE  Pow = [n \in Nat |-> IF n = 0 THEN 1 ELSE 2 * Pow[n - 1]]
BY Zenon DEF Pow

\* One does: the last values of the functions that double up to n.
LEMMA PowIs == Pow = [n \in Nat |-> IF n = 0 THEN 1 ELSE 2 * Pow[n - 1]]
<1> DEFINE S == {m \in Nat : \E g : Doubling(g, m)}
           F == [n \in Nat |-> (CHOOSE g : Doubling(g, n))[n]]
<1>1. 0 \in S
  <2>1. Doubling([i \in {0} |-> 1], 0)
    BY DEF Doubling
  <2>2. QED
    BY <2>1
<1>2. ASSUME NEW n \in Nat, n \in S PROVE n + 1 \in S
  <2>1. PICK g : Doubling(g, n)
    BY <1>2
  <2> DEFINE h == [i \in 0..(n + 1) |-> IF i = n + 1 THEN 2 * g[n] ELSE g[i]]
  <2>2. h[0] = 1
    BY <2>1 DEF Doubling
  <2>3. ASSUME NEW i \in 1..(n + 1) PROVE h[i] = 2 * h[i - 1]
    <3>1. i \in 0..(n + 1) /\ i - 1 \in 0..(n + 1) /\ i - 1 # n + 1
      OBVIOUS
    <3>2. h[i - 1] = g[i - 1] /\ h[i] = IF i = n + 1 THEN 2 * g[n] ELSE g[i]
      BY <3>1
    <3>3. CASE i = n + 1
      BY <3>2, <3>3
    <3>4. CASE i # n + 1
      <4>1. i \in 1..n
        BY <3>4
      <4>2. QED
        BY <2>1, <3>2, <3>4, <4>1 DEF Doubling
    <3>5. QED
      BY <3>3, <3>4
  <2>4. Doubling(h, n + 1)
    BY <2>2, <2>3 DEF Doubling
  <2>5. QED
    BY <2>4
<1>3. Nat \subseteq S
  <2> HIDE DEF S
  <2> QED
    BY <1>1, <1>2, Ind
<1>4. ASSUME NEW m \in Nat, NEW k \in Nat, m =< k, NEW g, NEW h, Doubling(g, m), Doubling(h, k)
      PROVE  g[m] = h[m]
  <2> DEFINE T == {i \in Nat : i =< m => g[i] = h[i]}
  <2>1. 0 \in T
    BY <1>4 DEF Doubling
  <2>2. ASSUME NEW i \in Nat, i \in T PROVE i + 1 \in T
    <3>1. SUFFICES ASSUME i + 1 =< m PROVE g[i + 1] = h[i + 1]
      OBVIOUS
    <3>2. i + 1 \in 1..m /\ i + 1 \in 1..k /\ (i + 1) - 1 = i /\ g[i] = h[i]
      BY <1>4, <2>2, <3>1
    <3>3. g[i + 1] = 2 * g[i] /\ h[i + 1] = 2 * h[i]
      BY <1>4, <3>2 DEF Doubling
    <3>4. QED
      BY <3>2, <3>3
  <2>3. Nat \subseteq T
    <3> HIDE DEF T
    <3> QED
      BY <2>1, <2>2, Ind
  <2>4. QED
    BY <2>3
<1>5. \A n \in Nat : Doubling(CHOOSE g : Doubling(g, n), n)
  BY <1>3
<1>6. ASSUME NEW n \in Nat PROVE F[n] = IF n = 0 THEN 1 ELSE 2 * F[n - 1]
  <2>1. CASE n = 0
    BY <1>5, <2>1 DEF Doubling
  <2>2. CASE n # 0
    <3> DEFINE g == CHOOSE e : Doubling(e, n)
               h == CHOOSE e : Doubling(e, n - 1)
    <3>1. n - 1 \in Nat /\ n \in 1..n
      BY <2>2
    <3>2. Doubling(g, n) /\ Doubling(h, n - 1)
      BY <1>5, <3>1
    <3>3. F[n] = g[n] /\ F[n - 1] = h[n - 1]
      BY <3>1
    <3> HIDE DEF F, g, h
    <3>4. h[n - 1] = g[n - 1]
      BY <1>4, <3>1, <3>2
    <3>5. QED
      BY <2>2, <3>1, <3>2, <3>3, <3>4 DEF Doubling
  <2>3. QED
    BY <2>1, <2>2
<1>7. F = [n \in Nat |-> IF n = 0 THEN 1 ELSE 2 * F[n - 1]]
  <2>1. F = [n \in Nat |-> F[n]]
    OBVIOUS
  <2> HIDE DEF F
  <2>2. QED
    BY <1>6, <2>1
<1>8. QED
  BY <1>7, PowEquation

\* Powers of two: positive, doubled one by one, and ascending.
LEMMA Powers ==
  /\ Pow[0] = 1 /\ \A n \in Nat : Pow[n + 1] = 2 * Pow[n] /\ Pow[n] \in Nat \ {0}
  /\ \A m, n \in Nat : m =< n => Pow[m] =< Pow[n]
<1>1. Pow[0] = 1 /\ \A n \in Nat : Pow[n + 1] = 2 * Pow[n]
  <2>1. ASSUME NEW n \in Nat PROVE Pow[n + 1] = 2 * Pow[n]
    <3>1. n + 1 \in Nat /\ n + 1 # 0 /\ (n + 1) - 1 = n
      OBVIOUS
    <3>2. QED
      BY <3>1, PowIs
  <2>2. QED
    BY <2>1, PowIs
<1>2. \A n \in Nat : Pow[n] \in Nat \ {0}
  <2> DEFINE S == {n \in Nat : Pow[n] \in Nat \ {0}}
  <2>1. 0 \in S
    BY <1>1
  <2>2. ASSUME NEW n \in Nat, n \in S PROVE n + 1 \in S
    BY <1>1, <2>2
  <2>3. Nat \subseteq S
    <3> HIDE DEF S
    <3> QED
      BY <2>1, <2>2, Ind
  <2>4. QED
    BY <2>3
<1>3. ASSUME NEW m \in Nat, NEW n \in Nat, m =< n PROVE Pow[m] =< Pow[n]
  <2> DEFINE S == {k \in Nat : Pow[m] =< Pow[m + k]}
  <2>1. 0 \in S
    BY <1>2
  <2>2. ASSUME NEW k \in Nat, k \in S PROVE k + 1 \in S
    <3>1. m + k \in Nat /\ m + (k + 1) = (m + k) + 1
      OBVIOUS
    <3>2. Pow[m + (k + 1)] = 2 * Pow[m + k] /\ Pow[m + k] \in Nat /\ Pow[m] \in Nat
      BY <1>1, <1>2, <3>1
    <3>3. QED
      BY <2>2, <3>2
  <2>3. Nat \subseteq S
    <3> HIDE DEF S
    <3> QED
      BY <2>1, <2>2, Ind
  <2>4. n - m \in Nat /\ m + (n - m) = n
    BY <1>3
  <2>5. n - m \in S
    BY <2>3, <2>4
  <2>6. QED
    BY <2>4, <2>5
<1>4. QED
  BY <1>1, <1>2, <1>3

\* An Andersson tree of level l has 2^l - 1 keys or more.
LEMMA ManyKeys ==
  ASSUME NEW u, AA(u)
  PROVE  Pow[u.level] =< Cardinality(Keys(u)) + 1 /\ Cardinality(Keys(u)) \in Nat
<1> DEFINE N == {n \in Nat : \A v : AA(v) /\ Cardinality(Keys(v)) =< n =>
                                    Pow[v.level] =< Cardinality(Keys(v)) + 1}
<1>1. Pow[Nil.level] =< Cardinality(Keys(Nil)) + 1
  <2>1. Nil.level = 0 /\ Keys(Nil) = {} /\ Cardinality({}) = 0
    BY NilKeys, FS_EmptySet DEF Nil
  <2>2. QED
    BY <2>1, Powers
<1>2. \A v : AA(v) => IsFiniteSet(Keys(v)) /\ Cardinality(Keys(v)) \in Nat
  BY AASearch, KeysFinite, FS_CardinalityType
<1>3. 0 \in N
  <2>1. SUFFICES ASSUME NEW v, AA(v), Cardinality(Keys(v)) =< 0
                 PROVE  Pow[v.level] =< Cardinality(Keys(v)) + 1
    OBVIOUS
  <2>2. Keys(v) = {}
    BY <1>2, <2>1, FS_EmptySet
  <2>3. v = Nil
    <3>1. v # Nil => v.key \in Keys(v)
      BY <2>1, AAParts
    <3>2. QED
      BY <2>2, <3>1
  <2>4. QED
    BY <1>1, <2>3
<1>4. ASSUME NEW n \in Nat, n \in N PROVE n + 1 \in N
  <2>1. SUFFICES ASSUME NEW v, AA(v), Cardinality(Keys(v)) =< n + 1, v # Nil
                 PROVE  Pow[v.level] =< Cardinality(Keys(v)) + 1
    BY <1>1
  <2> DEFINE A == Keys(v.left)
             B == Keys(v.right)
  <2>2. /\ v.level \in Nat \ {0} /\ AA(v.left) /\ AA(v.right)
        /\ v.left.level = v.level - 1 /\ v.right.level \in {v.level - 1, v.level}
        /\ Keys(v) = A \cup {v.key} \cup B
        /\ v.key \in Int /\ A \subseteq Int /\ B \subseteq Int
        /\ \A x \in A : x < v.key
        /\ \A x \in B : v.key < x
    BY <2>1, AAParts
  <2>3. Pow[v.left.level] =< Cardinality(A) + 1 /\ Pow[v.right.level] =< Cardinality(B) + 1
    <3>1. /\ v.key \in Keys(v) /\ v.key \notin A /\ v.key \notin B
          /\ A \subseteq Keys(v) /\ B \subseteq Keys(v) /\ IsFiniteSet(Keys(v))
      BY <1>2, <2>1, <2>2
    <3>2. Cardinality(A) =< n /\ Cardinality(B) =< n
      BY <2>1, <3>1, Fewer
    <3>3. QED
      BY <1>4, <2>2, <3>2
  <2>4. Cardinality(Keys(v)) = Cardinality(A) + 1 + Cardinality(B)
    <3>1. IsFiniteSet(A) /\ IsFiniteSet(B) /\ Cardinality(A) \in Nat /\ Cardinality(B) \in Nat
      BY <1>2, <2>2
    <3>2. v.key \notin A /\ (A \cup {v.key}) \cap B = {}
      BY <2>2
    <3>3. IsFiniteSet(A \cup {v.key}) /\ Cardinality(A \cup {v.key}) = Cardinality(A) + 1
      BY <3>1, <3>2, FS_AddElement
    <3>4. Cardinality((A \cup {v.key}) \cup B) = Cardinality(A \cup {v.key}) + Cardinality(B) - Cardinality({})
      BY <3>1, <3>2, <3>3, FS_Union
    <3>5. QED
      BY <2>2, <3>1, <3>3, <3>4, FS_EmptySet
  <2>5. /\ Pow[v.level] = 2 * Pow[v.level - 1]
        /\ Pow[v.level - 1] =< Pow[v.left.level] /\ Pow[v.level - 1] =< Pow[v.right.level]
        /\ Pow[v.level - 1] \in Nat /\ Pow[v.left.level] \in Nat /\ Pow[v.right.level] \in Nat
    <3>1. /\ v.level - 1 \in Nat /\ (v.level - 1) + 1 = v.level
          /\ v.left.level \in Nat /\ v.right.level \in Nat
          /\ v.level - 1 =< v.left.level /\ v.level - 1 =< v.right.level
      BY <2>2
    <3>2. QED
      BY <3>1, Powers
  <2>6. Cardinality(A) \in Nat /\ Cardinality(B) \in Nat
    BY <1>2, <2>2
  <2>7. QED
    BY <2>3, <2>4, <2>5, <2>6
<1>5. Nat \subseteq N
  <2> HIDE DEF N
  <2> QED
    BY <1>3, <1>4, Ind
<1>6. QED
  BY <1>2, <1>5

\* The saved path is never longer than the array has places for the number of
\* keys there are: no walk of map_insert, map_remove or a cursor overflows it.
THEOREM Fits == Spec => []PathFits
<1>1. IInv => PathFits
  <2>1. SUFFICES ASSUME IInv PROVE Pow[(Len(path) + 1) \div 2] =< Cardinality(keys) + 1
    BY DEF PathFits
  <2>2. /\ AA(tree) /\ Keys(tree) = keys /\ Cardinality(keys) \in Nat
        /\ Frames(path, tree, keys)
    BY <2>1, KeysBound DEF IInv, Content
  <2>3. tree.level \in Nat /\ Rank(tree) \in Nat /\ Rank(tree) =< 2 * tree.level
    BY <2>2, Levels, Ranks
  <2>4. Len(path) \in Nat /\ Len(path) =< Rank(tree)
    <3>1. Len(path) \in Nat
      BY <2>2, LenProperties DEF Frames
    <3>2. CASE Len(path) # 0
      <4>1. Len(path) \in 1..Len(path)
        BY <3>1, <3>2
      <4>2. /\ AA(path[Len(path)]) /\ path[Len(path)] # Nil
            /\ Len(path) + Rank(path[Len(path)]) =< Rank(tree) + 1
        BY <2>2, <4>1 DEF Frames
      <4>3. Rank(path[Len(path)]) >= 1 /\ Rank(path[Len(path)]) \in Nat
        BY <4>2, Ranks
      <4>4. QED
        BY <2>3, <3>1, <4>2, <4>3
    <3>3. QED
      BY <2>3, <3>1, <3>2
  <2> DEFINE h == (Len(path) + 1) \div 2
  <2>5. h \in Nat /\ h =< tree.level
    BY <2>3, <2>4
  <2> HIDE DEF h
  <2>6. Pow[h] =< Pow[tree.level] /\ Pow[h] \in Nat /\ Pow[tree.level] \in Nat
    BY <2>3, <2>5, Powers
  <2>7. Pow[tree.level] =< Cardinality(keys) + 1
    BY <2>2, ManyKeys
  <2>8. QED
    BY <2>2, <2>6, <2>7 DEF h
<1>2. QED
  BY <1>1, Invariant, PTL

-----------------------------------------------------------------------------
(* The map is a set of keys. *)

\* Only a step that returns is one of the set; the others leave it alone.
LEMMA KeySetStep == IInv /\ [Next]_vars => [Abstract!Next]_(Abstract!vars)
<1> SUFFICES ASSUME IInv, [Next]_vars PROVE [Abstract!Next]_(Abstract!vars)
  OBVIOUS
<1> DEFINE Kept == fault = "none" /\ fault' = "none"
<1>0. ASSUME Kept, Abstract!Operation PROVE Abstract!Next
  BY <1>0 DEF Abstract!Next
<1>1. CASE Found
  <2>1. /\ key \in Key /\ (key \in keys <=> key \in Keys(it)) /\ AA(it)
        /\ it # Nil => it.key = key
    BY <1>1 DEF Found, IInv, Descending
  <2>2. it # Nil <=> key \in keys
    BY <2>1, NilKeys, AAParts
  <2>3. keys' = keys /\ size' = size /\ answer' = (it # Nil)
    BY <1>1, Zenon DEF Found
  <2>4. answer' = (key \in keys)
    <3>1. (it # Nil) = (key \in keys)
      BY <2>2
    <3>2. QED
      BY <2>3, <3>1, Zenon
  <2>5. Abstract!Lookup(key)
    BY <2>3, <2>4, Zenon DEF Abstract!Lookup
  <2>6. Kept
    BY <1>1 DEF Found, IInv, TypeOK
  <2>7. QED
    BY <1>0, <2>1, <2>5, <2>6 DEF Abstract!Operation
<1>2. CASE Inserted
  <2>1. key \notin keys /\ key \in Key
    BY <1>2 DEF IInv, Inserted, Growing, Directed
  <2>2. Abstract!Add(key)
    BY <1>2, <2>1 DEF Inserted, Abstract!Add
  <2>3. Kept
    BY <1>2 DEF Inserted, IInv, TypeOK
  <2>4. QED
    BY <1>0, <2>1, <2>2, <2>3 DEF Abstract!Operation
<1>3. CASE Removed
  <2>1. key \in keys /\ key \in Key
    BY <1>3 DEF IInv, Removed, Shrinking, Directed
  <2>2. Abstract!Delete(key)
    BY <1>3, <2>1 DEF Removed, Abstract!Delete
  <2>3. Kept
    BY <1>3 DEF Removed, IInv, TypeOK
  <2>4. QED
    BY <1>0, <2>1, <2>2, <2>3 DEF Abstract!Operation
<1>4. CASE Freed
  <2>1. Abstract!Empty
    BY <1>4 DEF Freed, Abstract!Empty
  <2>2. Kept
    BY <1>4 DEF Freed, IInv, TypeOK
  <2>3. QED
    BY <1>0, <2>1, <2>2 DEF Abstract!Operation
<1>5. CASE RemoveFromEmpty
  <2>1. keys = {}
    BY <1>5, NilKeys DEF RemoveFromEmpty, IInv, Content
  <2>2. Abstract!DeleteFromEmpty
    BY <1>5, <2>1 DEF RemoveFromEmpty, Abstract!DeleteFromEmpty
  <2>3. Kept
    BY <1>5 DEF RemoveFromEmpty, Ready
  <2>4. QED
    BY <1>0, <2>2, <2>3 DEF Abstract!Operation
<1>6. CASE Overwrite
  <2>1. /\ key \in Key /\ (key \in keys <=> key \in Keys(it)) /\ AA(it)
        /\ it # Nil /\ it.key = key /\ fault = "none"
    BY <1>6 DEF Overwrite, IInv, TypeOK, Descending
  <2>2. key \in keys
    BY <2>1, AAParts
  <2>3. CASE dup
    <3>1. Abstract!Spoil(key)
      BY <1>6, <2>2, <2>3 DEF Overwrite, Abstract!Spoil
    <3>2. QED
      BY <2>1, <3>1 DEF Abstract!Next
  <2>4. CASE ~ dup
    BY <1>6, <2>4 DEF Overwrite, Abstract!vars
  <2>5. QED
    BY <2>3, <2>4
<1>7. CASE Astray
  BY <1>7 DEF Astray, Abstract!Next
<1>8. CASE UNCHANGED map
  BY <1>8 DEF map, Abstract!vars
<1>9. \/ Found \/ Inserted \/ Removed \/ Freed \/ RemoveFromEmpty \/ Overwrite \/ Astray
      \/ UNCHANGED map
  BY DEF Next, MapFind, MapInsert, MapRemove, Begin, Descend, NoNode, NewNode, Grow, Absent,
     Unlink, SeekHeir, NextHeir, TakeHeir, Shrink, MapFree, Rotate, Release, Start, Move, Down,
     Up, vars, map
<1>10. QED
  BY <1>1, <1>2, <1>3, <1>4, <1>5, <1>6, <1>7, <1>8, <1>9

\* The map implements the set.  map_find finds a key exactly while it is in the
\* set of those inserted and not removed since, and map_size counts them, but
\* for the removals from an empty map it has counted; for a map that holds
\* copies both end with the first insert of a key it has.
THEOREM ImplementsKeySet == Spec => KeySetSpec
<1>1. Init => Abstract!Init
  BY Zenon DEF Init, Abstract!Init
<1>2. QED
  BY <1>1, KeySetStep, Invariant, PTL DEF Spec, KeySetSpec, Abstract!Spec

=============================================================================

----------------------------- MODULE CodecProofs -----------------------------
(***************************************************************************)
(* Proofs about Codec, for any objects and any values, of any size.        *)
(***************************************************************************)
EXTENDS Codec, FiniteSetTheorems, SequenceTheorems, WellFoundedInduction, TLAPS

-----------------------------------------------------------------------------
(* Naturals and sequences. *)

\* A set of naturals that is not empty has a least element.
LEMMA Least ==
  ASSUME NEW T, T \subseteq Nat, T # {}
  PROVE  \E n \in T : \A m \in T : n =< m
<1>1. PICK R : IsWellFoundedOn(R, Nat) /\ \A x, y \in Nat : x < y => <<x, y>> \in R
  <2>1. IsWellFoundedOn(OpToRel(<, Nat), Nat)
    BY NatLessThanWellFounded
  <2>2. \A x, y \in Nat : x < y => <<x, y>> \in OpToRel(<, Nat)
    BY DEF OpToRel
  <2>3. QED
    BY <2>1, <2>2
<1>2. PICK n \in T : \A m \in T : ~ (<<m, n>> \in R)
  <2>1. IsWellFoundedOn(R, Nat)
    BY <1>1
  <2>2. QED
    BY <2>1, WFMin
<1>3. ASSUME NEW m \in T PROVE n =< m
  <2>1. m \in Nat /\ n \in Nat /\ ~ (m < n)
    BY <1>1, <1>2
  <2>2. QED
    BY <2>1
<1>4. QED
  BY <1>3

\* Induction: a set that has 0 and the successors of its elements.
LEMMA Ind ==
  ASSUME NEW S, 0 \in S, \A n \in Nat : n \in S => n + 1 \in S
  PROVE  Nat \subseteq S
<1> SUFFICES ASSUME ~ (Nat \subseteq S) PROVE FALSE
  OBVIOUS
<1>1. PICK n \in Nat \ S : \A m \in Nat \ S : n =< m
  <2>1. Nat \ S \subseteq Nat /\ Nat \ S # {}
    OBVIOUS
  <2>2. QED
    BY <2>1, Least
<1>2. n - 1 \in Nat /\ n - 1 \in S /\ n = (n - 1) + 1
  BY <1>1
<1>3. QED
  BY <1>1, <1>2

\* A sequence with one element more.
LEMMA Pushed ==
  ASSUME NEW S, NEW p \in Seq(S), NEW x \in S
  PROVE  /\ Append(p, x) \in Seq(S) /\ Len(Append(p, x)) = Len(p) + 1 /\ Len(p) \in Nat
         /\ \A i \in 1..Len(p) : Append(p, x)[i] = p[i] /\ p[i] \in S
         /\ Append(p, x)[Len(p) + 1] = x /\ Last(Append(p, x)) = x
<1>1. Append(p, x) \in Seq(S) /\ Len(Append(p, x)) = Len(p) + 1 /\ Len(p) \in Nat
  BY AppendProperties, LenProperties
<1>2. (\A i \in 1..Len(p) : Append(p, x)[i] = p[i]) /\ Append(p, x)[Len(p) + 1] = x
  BY AppendProperties
<1>3. \A i \in 1..Len(p) : p[i] \in S
  BY ElementOfSeq
<1>4. QED
  BY <1>1, <1>2, <1>3 DEF Last

\* A sequence without its last element.
LEMMA Popped ==
  ASSUME NEW S, NEW p \in Seq(S), Len(p) # 0
  PROVE  /\ Front(p) \in Seq(S) /\ Len(Front(p)) = Len(p) - 1 /\ Len(p) \in Nat \ {0}
         /\ \A i \in 1..Len(p) - 1 : Front(p)[i] = p[i]
         /\ Last(p) = p[Len(p)] /\ Last(p) \in S
<1>1. Len(p) \in Nat \ {0} /\ Last(p) = p[Len(p)] /\ Last(p) \in S
  BY EmptySeq, LenProperties, ElementOfSeq DEF Last
<1>2. Front(p) = SubSeq(p, 1, Len(p) - 1)
  BY DEF Front
<1> DEFINE n == Len(p) - 1
<1>3. 1 \in Int /\ n \in Int /\ n \in Nat /\ \A i \in 1..n : p[i] \in S
  BY <1>1, ElementOfSeq
<1> HIDE DEF n
<1>4. SubSeq(p, 1, n) \in Seq(S) /\ Len(SubSeq(p, 1, n)) = (IF 1 =< n THEN n - 1 + 1 ELSE 0)
      /\ \A i \in 1..(n - 1 + 1) : SubSeq(p, 1, n)[i] = p[1 + i - 1]
  BY <1>3, SubSeqProperties
<1>5. Len(SubSeq(p, 1, n)) = n /\ \A i \in 1..n : i \in 1..(n - 1 + 1) /\ 1 + i - 1 = i
  BY <1>3, <1>4
<1>6. QED
  BY <1>1, <1>2, <1>4, <1>5 DEF n

\* A sequence with another last element.
LEMMA Replaced ==
  ASSUME NEW S, NEW p \in Seq(S), Len(p) # 0, NEW x \in S
  PROVE  /\ Append(Front(p), x) \in Seq(S) /\ Len(Append(Front(p), x)) = Len(p)
         /\ Len(p) \in Nat \ {0}
         /\ \A i \in 1..Len(p) - 1 : Append(Front(p), x)[i] = p[i]
         /\ Append(Front(p), x)[Len(p)] = x /\ Last(Append(Front(p), x)) = x
<1>1. /\ Front(p) \in Seq(S) /\ Len(Front(p)) = Len(p) - 1 /\ Len(p) \in Nat \ {0}
      /\ \A i \in 1..Len(p) - 1 : Front(p)[i] = p[i]
  BY Popped
<1> DEFINE f == Front(p)
<1>2. f \in Seq(S) /\ Len(f) = Len(p) - 1
  BY <1>1
<1> HIDE DEF f
<1>3. /\ Append(f, x) \in Seq(S) /\ Len(Append(f, x)) = Len(f) + 1
      /\ \A i \in 1..Len(f) : Append(f, x)[i] = f[i]
      /\ Append(f, x)[Len(f) + 1] = x /\ Last(Append(f, x)) = x
  BY <1>2, Pushed
<1>4. Len(f) + 1 = Len(p)
  BY <1>1, <1>2
<1>5. QED
  BY <1>1, <1>2, <1>3, <1>4 DEF f

-----------------------------------------------------------------------------
(* Sizes. *)

\* A sum is a function of the number of its terms.
LEMMA Recurrence ==
  ASSUME NEW n \in Nat, NEW g, \A k \in 1..n : g[k] \in Int
  PROVE  \E f \in [0..n -> Int] : f[0] = 0 /\ \A k \in 1..n : f[k] = f[k - 1] + g[k]
<1> DEFINE P == {m \in Nat : m =< n => \E f \in [0..m -> Int] :
                                         f[0] = 0 /\ \A k \in 1..m : f[k] = f[k - 1] + g[k]}
<1>1. 0 \in P
  <2>1. [i \in 0..0 |-> 0] \in [0..0 -> Int] /\ [i \in 0..0 |-> 0][0] = 0 /\ 1..0 = {}
    OBVIOUS
  <2>2. QED
    BY <2>1
<1>2. ASSUME NEW m \in Nat, m \in P PROVE m + 1 \in P
  <2> SUFFICES ASSUME m + 1 =< n
               PROVE  \E f \in [0..m + 1 -> Int] :
                        f[0] = 0 /\ \A k \in 1..m + 1 : f[k] = f[k - 1] + g[k]
    OBVIOUS
  <2>1. PICK f \in [0..m -> Int] : f[0] = 0 /\ \A k \in 1..m : f[k] = f[k - 1] + g[k]
    BY <1>2
  <2> DEFINE h == [i \in 0..m + 1 |-> IF i = m + 1 THEN f[m] + g[m + 1] ELSE f[i]]
  <2>2. f[m] \in Int /\ g[m + 1] \in Int
    BY <2>1
  <2>3. h \in [0..m + 1 -> Int]
    BY <2>1, <2>2
  <2>4. h[0] = 0
    BY <2>1
  <2>5. ASSUME NEW k \in 1..m + 1 PROVE h[k] = h[k - 1] + g[k]
    <3>1. CASE k = m + 1
      BY <3>1
    <3>2. CASE k \in 1..m
      BY <3>2, <2>1
    <3>3. QED
      BY <3>1, <3>2
  <2>6. QED
    BY <2>3, <2>4, <2>5
<1>3. Nat \subseteq P
  <2> HIDE DEF P
  <2>1. QED
    BY <1>1, <1>2, Ind
<1>4. n \in P
  BY <1>3
<1>5. QED
  BY <1>4

\* Two sums with the same terms are the same.
LEMMA SameSum ==
  ASSUME NEW n \in Nat, NEW f, NEW h, f[0] = h[0],
         \A k \in 1..n : f[k] - f[k - 1] = h[k] - h[k - 1],
         \A k \in 0..n : f[k] \in Int /\ h[k] \in Int
  PROVE  \A k \in 0..n : f[k] = h[k]
<1> DEFINE P == {m \in Nat : m =< n => f[m] = h[m]}
<1>1. 0 \in P
  OBVIOUS
<1>2. ASSUME NEW m \in Nat, m \in P PROVE m + 1 \in P
  <2> SUFFICES ASSUME m + 1 =< n PROVE f[m + 1] = h[m + 1]
    OBVIOUS
  <2>1. f[m] = h[m] /\ m + 1 \in 1..n /\ m \in 0..n /\ m + 1 \in 0..n /\ (m + 1) - 1 = m
    BY <1>2
  <2>2. f[m + 1] - f[m] = h[m + 1] - h[m]
    BY <2>1
  <2>3. f[m + 1] \in Int /\ h[m + 1] \in Int /\ f[m] \in Int
    BY <2>1
  <2>4. QED
    BY <2>1, <2>2, <2>3
<1>3. Nat \subseteq P
  <2> HIDE DEF P
  <2>1. QED
    BY <1>1, <1>2, Ind
<1>4. QED
  BY <1>3

\* Items have sizes.
LEMMA SizeType == ASSUME NEW i PROVE Size(i) \in Nat /\ Size(i) >= 4
  BY DEF Size, Bytes

\* What Offsets computes.
LEMMA OffsetsAre ==
  ASSUME NEW S, NEW items \in Seq(S)
  PROVE  /\ Offsets(items) \in [0..Len(items) -> Int] /\ Len(items) \in Nat
         /\ Offsets(items)[0] = 0
         /\ \A k \in 1..Len(items) :
              Offsets(items)[k] = Offsets(items)[k - 1] + Size(items[k])
<1> DEFINE n == Len(items)
           g == [k \in 1..n |-> Size(items[k])]
<1>1. n \in Nat
  BY LenProperties
<1>2. \A k \in 1..n : g[k] \in Int
  BY SizeType
<1>3. PICK f \in [0..n -> Int] : f[0] = 0 /\ \A k \in 1..n : f[k] = f[k - 1] + g[k]
  <2> HIDE DEF n, g
  <2> QED
    BY <1>1, <1>2, Recurrence
<1>4. f = [k \in 0..n |-> IF k = 0 THEN 0 ELSE f[k - 1] + Size(items[k])]
  <2>1. \A k \in 0..n : f[k] = IF k = 0 THEN 0 ELSE f[k - 1] + Size(items[k])
    BY <1>3, <1>1
  <2>2. QED
    BY <2>1, <1>3
<1> DEFINE o == Offsets(items)
<1>5. o = [k \in 0..n |-> IF k = 0 THEN 0 ELSE o[k - 1] + Size(items[k])]
  BY <1>4 DEF Offsets
<1>6. DOMAIN o = 0..n /\ o[0] = 0 /\ \A k \in 1..n : o[k] = o[k - 1] + Size(items[k])
  <2> HIDE DEF o, n
  <2> QED
    BY <1>5, <1>1
<1>7. \A k \in 0..n : o[k] \in Int
  <2> DEFINE P == {m \in Nat : m =< n => o[m] \in Int}
  <2>1. 0 \in P
    BY <1>6
  <2>2. ASSUME NEW m \in Nat, m \in P PROVE m + 1 \in P
    <3> HIDE DEF o, n
    <3> SUFFICES ASSUME m + 1 =< n PROVE o[m + 1] \in Int
      OBVIOUS
    <3>1. m + 1 \in 1..n /\ (m + 1) - 1 = m /\ m =< n
      BY <1>1
    <3>2. o[m + 1] = o[m] + Size(items[m + 1])
      BY <1>6, <3>1
    <3>3. Size(items[m + 1]) \in Nat /\ o[m] \in Int
      BY <2>2, <3>1, SizeType
    <3>4. QED
      BY <3>2, <3>3
  <2>3. Nat \subseteq P
    <3> HIDE DEF P
    <3>1. QED
      BY <2>1, <2>2, Ind
  <2>4. QED
    BY <2>3
<1>8. o \in [0..n -> Int]
  <2> HIDE DEF o
  <2> QED
    BY <1>5, <1>6, <1>7
<1>9. QED
  BY <1>1, <1>6, <1>8


\* A list with an item more has its bytes more.
LEMMA OffsetsAppend ==
  ASSUME NEW S, NEW items \in Seq(S), NEW x \in S
  PROVE  Offsets(Append(items, x))[Len(items) + 1] = Offsets(items)[Len(items)] + Size(x)
<1> DEFINE n == Len(items)
           more == Append(items, x)
           f == Offsets(items)
           h == Offsets(more)
<1>1. more \in Seq(S) /\ Len(more) = n + 1 /\ n \in Nat /\ more[n + 1] = x
      /\ \A k \in 1..n : more[k] = items[k]
  BY Pushed
<1>2. f[0] = 0 /\ (\A k \in 0..n : f[k] \in Int) /\ \A k \in 1..n : f[k] = f[k - 1] + Size(items[k])
  BY OffsetsAre
<1>3. h[0] = 0 /\ (\A k \in 0..n + 1 : h[k] \in Int)
      /\ \A k \in 1..n + 1 : h[k] = h[k - 1] + Size(more[k])
  <2> HIDE DEF more
  <2> QED
    BY <1>1, OffsetsAre
<1> HIDE DEF n, more, f, h
<1>4. \A k \in 0..n : f[k] = h[k]
  <2>1. ASSUME NEW k \in 1..n PROVE f[k] - f[k - 1] = h[k] - h[k - 1]
    <3>1. k \in 1..n + 1 /\ k - 1 \in 0..n /\ k - 1 \in 0..n + 1 /\ more[k] = items[k]
      BY <1>1
    <3>2. f[k] = f[k - 1] + Size(items[k]) /\ h[k] = h[k - 1] + Size(items[k])
      BY <1>2, <1>3, <3>1
    <3>3. f[k - 1] \in Int /\ h[k - 1] \in Int /\ Size(items[k]) \in Int
      BY <1>2, <1>3, <3>1, SizeType
    <3>4. QED
      BY <3>2, <3>3
  <2>2. \A k \in 0..n : f[k] \in Int /\ h[k] \in Int
    BY <1>1, <1>2, <1>3
  <2>3. f[0] = h[0] /\ n \in Nat
    BY <1>1, <1>2, <1>3
  <2>4. QED
    BY <2>1, <2>2, <2>3, SameSum
<1>5. n + 1 \in 1..n + 1 /\ (n + 1) - 1 = n /\ n \in 0..n
  BY <1>1
<1>6. h[n + 1] = h[n] + Size(x)
  BY <1>1, <1>3, <1>5
<1>7. QED
  BY <1>4, <1>5, <1>6 DEF n, more, f, h

\* Two lists whose items have the same sizes.
LEMMA OffsetsSame ==
  ASSUME NEW S, NEW items \in Seq(S), NEW others \in Seq(S), Len(items) = Len(others),
         \A k \in 1..Len(items) : Size(items[k]) = Size(others[k])
  PROVE  Offsets(items)[Len(items)] = Offsets(others)[Len(others)]
<1> DEFINE n == Len(items)
           f == Offsets(items)
           h == Offsets(others)
<1>1. n \in Nat
  BY LenProperties
<1>2. f[0] = 0 /\ (\A k \in 0..n : f[k] \in Int) /\ \A k \in 1..n : f[k] = f[k - 1] + Size(items[k])
  BY OffsetsAre
<1>3. h[0] = 0 /\ (\A k \in 0..n : h[k] \in Int) /\ \A k \in 1..n : h[k] = h[k - 1] + Size(others[k])
  BY OffsetsAre
<1> HIDE DEF f, h
<1>4. \A k \in 1..n : f[k] - f[k - 1] = h[k] - h[k - 1]
  <2> SUFFICES ASSUME NEW k \in 1..n PROVE f[k] - f[k - 1] = h[k] - h[k - 1]
    OBVIOUS
  <2>1. f[k] = f[k - 1] + Size(items[k]) /\ h[k] = h[k - 1] + Size(items[k])
    BY <1>2, <1>3
  <2>2. k - 1 \in 0..n
    BY <1>1
  <2>3. f[k - 1] \in Int /\ h[k - 1] \in Int /\ Size(items[k]) \in Int
    BY <1>2, <1>3, <2>2, SizeType
  <2>4. QED
    BY <2>1, <2>3
<1>5. \A k \in 0..n : f[k] = h[k]
  <2> HIDE DEF n
  <2>1. f[0] = h[0] /\ \A k \in 0..n : f[k] \in Int /\ h[k] \in Int
    BY <1>2, <1>3
  <2>2. QED
    BY <1>1, <1>4, <2>1, SameSum
<1>6. QED
  BY <1>1, <1>5 DEF f, h

\* Later items begin later.
LEMMA OffsetsGrow ==
  ASSUME NEW S, NEW items \in Seq(S), NEW m \in 0..Len(items)
  PROVE  \A k \in 0..m : Offsets(items)[k] =< Offsets(items)[m]
<1> DEFINE n == Len(items)
           f == Offsets(items)
<1>1. n \in Nat /\ (\A k \in 0..n : f[k] \in Int) /\ \A k \in 1..n : f[k] = f[k - 1] + Size(items[k])
  BY OffsetsAre
<1> HIDE DEF f, n
<1> DEFINE P == {i \in Nat : i =< m => f[m - i] =< f[m]}
<1>2. 0 \in P
  BY <1>1 DEF n
<1>3. ASSUME NEW i \in Nat, i \in P PROVE i + 1 \in P
  <2> SUFFICES ASSUME i + 1 =< m PROVE f[m - (i + 1)] =< f[m]
    OBVIOUS
  <2>1. m - i \in 1..n /\ (m - i) - 1 = m - (i + 1) /\ m - (i + 1) \in 0..n /\ m \in 0..n
    BY <1>1 DEF n
  <2>2. f[m - i] = f[m - (i + 1)] + Size(items[m - i]) /\ f[m - i] =< f[m]
    BY <1>1, <1>3, <2>1
  <2>3. f[m - (i + 1)] \in Int /\ f[m] \in Int /\ Size(items[m - i]) \in Nat
    BY <1>1, <2>1, SizeType
  <2>4. QED
    BY <2>2, <2>3
<1>4. Nat \subseteq P
  <2> HIDE DEF P
  <2>1. QED
    BY <1>2, <1>3, Ind
<1>5. ASSUME NEW k \in 0..m PROVE f[k] =< f[m]
  <2>1. m - k \in Nat /\ m - k =< m /\ m - (m - k) = k
    BY <1>1 DEF n
  <2>2. m - k \in P
    BY <1>4, <2>1
  <2>3. QED
    BY <2>1, <2>2
<1>6. QED
  BY <1>5 DEF f

-----------------------------------------------------------------------------
(* Types. *)

\* Kinds of objects, items, the builder and its calls.
Kind == {"table", "function", "userdata"}

Items == [type : {"atom"}, val : Atom] \cup [type : {"reference"}, ref : Nat]
        \cup [type : Kind, parts : Nat]

Builder == [values : Seq(Items), bytes : Int, count : Int, refmap : SUBSET (Obj \X Nat),
            shared : SUBSET Nat, flagged : SUBSET {0}, raised : BOOLEAN]

Call == [kind : Kind \cup {"message", "meta"}, obj : Obj \cup {NoObj}, index : Int,
         list : Seq(Value), done : Nat]

\* The types of the variables that write_value works on.
TypeOK ==
  /\ heap \in [Obj -> Object] /\ args \in Seq(Value)
  /\ builder \in Builder
  /\ calls \in Seq(Call) /\ Len(calls) # 0

\* What a table is written as.
LEMMA KeyedIs ==
  ASSUME NEW vs \in Seq(Value)
  PROVE  /\ Keyed(vs) \in Seq(Value) /\ Len(Keyed(vs)) = 2 * Len(vs) /\ Len(vs) \in Nat
         /\ \A i \in 1..2 * Len(vs) :
              Keyed(vs)[i] = Number \/ \E j \in 1..Len(vs) : Keyed(vs)[i] = vs[j]
<1> DEFINE n == Len(vs)
           ks == [i \in 1..(2 * n) |-> IF i % 2 = 1 THEN Number ELSE vs[i \div 2]]
<1>1. n \in Nat /\ 2 * n \in Nat /\ \A j \in 1..n : vs[j] \in Value
  BY LenProperties, ElementOfSeq
<1>2. ASSUME NEW i \in 1..2 * n PROVE ks[i] = Number \/ \E j \in 1..n : ks[i] = vs[j]
  <2>1. CASE i % 2 = 1
    BY <2>1
  <2>2. CASE i % 2 # 1
    <3>1. i % 2 = 0 /\ i \in Nat
      BY <1>1, <2>2
    <3>2. i \div 2 \in 1..n
      BY <1>1, <3>1
    <3>3. QED
      BY <2>2, <3>2
  <2>3. QED
    BY <2>1, <2>2
<1>3. Number \in Value
  BY DEF Value, Atom
<1>4. ks \in [1..2 * n -> Value]
  <2>1. \A i \in 1..2 * n : ks[i] \in Value
    BY <1>1, <1>2, <1>3
  <2>2. QED
    BY <2>1
<1>5. ks \in Seq(Value) /\ Len(ks) = 2 * n
  <2> HIDE DEF ks, n
  <2>1. ks \in Seq(Value)
    BY <1>1, <1>4, SeqDef
  <2>2. DOMAIN ks = 1..2 * n
    BY <1>4
  <2>3. QED
    BY <1>1, <2>1, <2>2, LenProperties
<1>6. QED
  BY <1>1, <1>2, <1>5 DEF Keyed

\* What is written for an object are its parts, and for a table their keys too.
LEMMA ListedIs ==
  ASSUME NEW o \in Object
  PROVE  /\ Listed(o) \in Seq(Value) /\ Len(o.parts) \in Nat
         /\ o.kind \in Kind /\ o.parts \in Seq(Value)
         /\ Len(Listed(o)) = (IF o.kind = "table" THEN 2 ELSE 1) * Len(o.parts)
         /\ \A i \in 1..Len(Listed(o)) :
              Listed(o)[i] = Number \/ \E j \in 1..Len(o.parts) : Listed(o)[i] = o.parts[j]
<1>1. o.kind \in Kind /\ o.parts \in Seq(Value)
  BY DEF Object, Kind
<1>2. Len(o.parts) \in Nat
  BY <1>1, LenProperties
<1>3. CASE o.kind = "table"
  <2>1. Listed(o) = Keyed(o.parts)
    BY <1>3 DEF Listed
  <2> DEFINE vs == o.parts
  <2>2. vs \in Seq(Value)
    BY <1>1
  <2> HIDE DEF vs
  <2>3. /\ Keyed(vs) \in Seq(Value) /\ Len(Keyed(vs)) = 2 * Len(vs)
        /\ \A i \in 1..2 * Len(vs) :
             Keyed(vs)[i] = Number \/ \E j \in 1..Len(vs) : Keyed(vs)[i] = vs[j]
    BY <2>2, KeyedIs
  <2>4. QED
    BY <1>1, <1>2, <1>3, <2>1, <2>3 DEF vs
<1>4. CASE o.kind # "table"
  <2>1. Listed(o) = o.parts
    BY <1>4 DEF Listed
  <2>2. Len(Listed(o)) = (IF o.kind = "table" THEN 2 ELSE 1) * Len(o.parts)
    BY <1>2, <1>4, <2>1
  <2>3. QED
    BY <1>1, <1>2, <2>1, <2>2
<1>5. QED
  BY <1>3, <1>4

\* What lc_push* does.
LEMMA PushIs ==
  ASSUME NEW b \in Builder, NEW item \in Items
  PROVE  /\ Push(b, item) \in Builder
         /\ Push(b, item).values = Append(b.values, item)
         /\ Push(b, item).bytes = b.bytes + Claimed(item)
         /\ Push(b, item).count = b.count + 1
         /\ Push(b, item).refmap = b.refmap /\ Push(b, item).shared = b.shared
         /\ Push(b, item).flagged = b.flagged /\ Push(b, item).raised = b.raised
         /\ Claimed(item) \in Int
<1>1. Append(b.values, item) \in Seq(Items)
  BY Pushed DEF Builder
<1>2. Claimed(item) \in Int
  BY SizeType DEF Claimed
<1> DEFINE b1 == [b EXCEPT !.values = Append(@, item)]
           b2 == [b1 EXCEPT !.bytes = @ + Claimed(item)]
           b3 == [b2 EXCEPT !.count = @ + 1]
<1>3. /\ b1 \in Builder /\ b1.values = Append(b.values, item)
      /\ b1.bytes = b.bytes /\ b1.count = b.count /\ b1.refmap = b.refmap
      /\ b1.shared = b.shared /\ b1.flagged = b.flagged /\ b1.raised = b.raised
  BY <1>1 DEF Builder
<1> HIDE DEF b1
<1>4. /\ b2 \in Builder /\ b2.values = b1.values
      /\ b2.bytes = b1.bytes + Claimed(item) /\ b2.count = b1.count /\ b2.refmap = b1.refmap
      /\ b2.shared = b1.shared /\ b2.flagged = b1.flagged /\ b2.raised = b1.raised
  BY <1>2, <1>3 DEF Builder
<1> HIDE DEF b2
<1>5. /\ b3 \in Builder /\ b3.values = b2.values
      /\ b3.bytes = b2.bytes /\ b3.count = b2.count + 1 /\ b3.refmap = b2.refmap
      /\ b3.shared = b2.shared /\ b3.flagged = b2.flagged /\ b3.raised = b2.raised
  <2>1. b2.count + 1 \in Int /\ b2 \in Builder
    BY <1>4 DEF Builder
  <2>2. QED
    BY <2>1 DEF Builder
<1>6. Push(b, item) = b3
  BY DEF Push, b1, b2
<1> HIDE DEF b3
<1>7. QED
  BY <1>2, <1>3, <1>4, <1>5, <1>6

\* The calls when write_value has been called once more.
LEMMA CalledIs ==
  ASSUME TypeOK, Caller.done < Len(Caller.list)
  PROVE  /\ Called \in Seq(Call) /\ Len(Called) = Len(calls) /\ Len(calls) \in Nat \ {0}
         /\ \A k \in 1..Len(calls) - 1 : Called[k] = calls[k] /\ calls[k] \in Call
         /\ Caller = calls[Len(calls)] /\ Caller \in Call
         /\ Called[Len(calls)] = [Caller EXCEPT !.done = @ + 1]
         /\ Last(Called) = Called[Len(calls)]
<1>1. calls \in Seq(Call) /\ Len(calls) # 0
  BY DEF TypeOK
<1>2. Last(calls) = calls[Len(calls)] /\ Last(calls) \in Call /\ Len(calls) \in Nat \ {0}
  BY <1>1, Popped
<1> DEFINE x == [Caller EXCEPT !.done = @ + 1]
<1>3. x \in Call
  BY <1>2 DEF Caller, Call
<1> HIDE DEF x
<1>4. /\ Append(Front(calls), x) \in Seq(Call) /\ Len(Append(Front(calls), x)) = Len(calls)
      /\ \A i \in 1..Len(calls) - 1 : Append(Front(calls), x)[i] = calls[i]
      /\ Append(Front(calls), x)[Len(calls)] = x /\ Last(Append(Front(calls), x)) = x
  BY <1>1, <1>3, Replaced
<1>5. \A k \in 1..Len(calls) - 1 : calls[k] \in Call
  BY <1>1, <1>2, ElementOfSeq
<1>6. QED
  BY <1>2, <1>4, <1>5 DEF Called, Caller, x

-----------------------------------------------------------------------------
(* The calls of write_value. *)

\* A call is about an object whose item it has pushed, and writes its parts or
\* its metatable.
Nested(h, vs, c) ==
  /\ c.kind # "message" /\ c.obj \in Obj /\ c.index \in 0..Len(vs) - 1
  /\ vs[c.index + 1].type = h[c.obj].kind
  /\ c.kind = "meta" => c.list = <<h[c.obj].meta>> /\ h[c.obj].meta \in Obj
  /\ c.kind # "meta" => c.kind = h[c.obj].kind /\ c.list = Listed(h[c.obj])

\* The first call is the loop of lua_newmessage, the others are nested.
Frames ==
  /\ calls[1].kind = "message" /\ calls[1].index = -1 /\ calls[1].list = args
  /\ \A k \in 1..Len(calls) : calls[k].done =< Len(calls[k].list)
  /\ \A k \in 2..Len(calls) : Nested(heap, builder.values, calls[k])

\* Items are added, and those there are keep their types.
Extends(vs, ws) ==
  /\ Len(vs) \in Nat /\ Len(ws) \in Nat /\ Len(vs) =< Len(ws)
  /\ \A i \in 1..Len(vs) : vs[i].type = ws[i].type

\* Nested calls stay so when items are added.
LEMMA NestedStays ==
  ASSUME NEW h, NEW vs, NEW ws, Extends(vs, ws), NEW c, Nested(h, vs, c)
  PROVE  Nested(h, ws, c)
<1>1. c.index \in 0..Len(ws) - 1 /\ c.index + 1 \in 1..Len(vs)
  BY DEF Nested, Extends
<1>2. vs[c.index + 1].type = ws[c.index + 1].type
  BY <1>1 DEF Extends
<1>3. QED
  BY <1>1, <1>2 DEF Nested

\* One item more, or none.
LEMMA ExtendsIs ==
  ASSUME NEW vs \in Seq(Items)
  PROVE  Extends(vs, vs) /\ \A x \in Items : Extends(vs, Append(vs, x))
<1>1. Len(vs) \in Nat
  BY LenProperties
<1>2. ASSUME NEW x \in Items PROVE Extends(vs, Append(vs, x))
  BY <1>1, Pushed DEF Extends
<1>3. QED
  BY <1>1, <1>2 DEF Extends

\* What a call of write_value does to the calls: the last one has called it
\* once more.
Advances(c) ==
  /\ calls' \in Seq(Call) /\ Len(calls) \in Nat \ {0} /\ Len(calls') >= Len(calls)
  /\ \A k \in 1..Len(calls) : calls[k] \in Call
  /\ \A k \in 1..Len(calls) - 1 : calls'[k] = calls[k]
  /\ c = calls[Len(calls)] /\ calls'[Len(calls)] = [c EXCEPT !.done = @ + 1]
  /\ c.done \in Nat /\ c.done + 1 \in 1..Len(c.list)

\* The calls when something that is not an object has been written.
LEMMA WriteAdvances ==
  ASSUME TypeOK, NEW v, NEW b, Write(v, b), calls' = Called
  PROVE  /\ Advances(Caller) /\ Len(calls') = Len(calls)
         /\ v = Caller.list[Caller.done + 1] /\ v \in Value
         /\ ~ builder.raised /\ builder' = b /\ UNCHANGED <<heap, args, msg, reader, below>>
<1>1. Caller.done < Len(Caller.list) /\ v = Caller.list[Caller.done + 1]
      /\ ~ builder.raised /\ builder' = b /\ UNCHANGED <<heap, args, msg, reader, below>>
  BY DEF Write
<1>2. /\ Called \in Seq(Call) /\ Len(Called) = Len(calls) /\ Len(calls) \in Nat \ {0}
      /\ \A k \in 1..Len(calls) - 1 : Called[k] = calls[k] /\ calls[k] \in Call
      /\ Caller = calls[Len(calls)] /\ Caller \in Call
      /\ Called[Len(calls)] = [Caller EXCEPT !.done = @ + 1]
  BY <1>1, CalledIs
<1>3. Caller.done \in Nat /\ Caller.list \in Seq(Value)
  BY <1>2 DEF Call
<1>4. Len(Caller.list) \in Nat
  BY <1>3, LenProperties
<1>5. Caller.done + 1 \in 1..Len(Caller.list)
  BY <1>1, <1>3, <1>4
<1>6. v \in Value
  BY <1>1, <1>3, <1>5, ElementOfSeq
<1>7. \A k \in 1..Len(calls) : calls[k] \in Call
  BY <1>2
<1>8. Advances(Caller)
  BY <1>2, <1>3, <1>5, <1>7 DEF Advances
<1>9. QED
  BY <1>1, <1>2, <1>6, <1>8

\* The calls when an object has been pushed.
LEMMA ObjectAdvances ==
  ASSUME TypeOK, NEW v, NEW b, Write(v, b), NEW c \in Call, calls' = Append(Called, c)
  PROVE  /\ Advances(Caller) /\ Len(calls') = Len(calls) + 1 /\ calls'[Len(calls) + 1] = c
         /\ v = Caller.list[Caller.done + 1] /\ v \in Value
         /\ ~ builder.raised /\ builder' = b /\ UNCHANGED <<heap, args, msg, reader, below>>
<1>1. Caller.done < Len(Caller.list) /\ v = Caller.list[Caller.done + 1]
      /\ ~ builder.raised /\ builder' = b /\ UNCHANGED <<heap, args, msg, reader, below>>
  BY DEF Write
<1>2. /\ Called \in Seq(Call) /\ Len(Called) = Len(calls) /\ Len(calls) \in Nat \ {0}
      /\ \A k \in 1..Len(calls) - 1 : Called[k] = calls[k] /\ calls[k] \in Call
      /\ Caller = calls[Len(calls)] /\ Caller \in Call
      /\ Called[Len(calls)] = [Caller EXCEPT !.done = @ + 1]
  BY <1>1, CalledIs
<1>3. Caller.done \in Nat /\ Caller.list \in Seq(Value)
  BY <1>2 DEF Call
<1>4. Len(Caller.list) \in Nat
  BY <1>3, LenProperties
<1>5. Caller.done + 1 \in 1..Len(Caller.list)
  BY <1>1, <1>3, <1>4
<1>6. v \in Value
  BY <1>1, <1>3, <1>5, ElementOfSeq
<1>7. /\ calls' \in Seq(Call) /\ Len(calls') = Len(calls) + 1
      /\ \A k \in 1..Len(calls) : calls'[k] = Called[k]
      /\ calls'[Len(calls) + 1] = c
  BY <1>2, Pushed
<1>8. \A k \in 1..Len(calls) : calls[k] \in Call
  BY <1>2
<1>9. Advances(Caller)
  BY <1>2, <1>3, <1>5, <1>7, <1>8 DEF Advances
<1>10. QED
  BY <1>1, <1>6, <1>7, <1>9

\* The frames keep their shape.
LEMMA FramesAdvance ==
  ASSUME TypeOK, Frames, Advances(Caller), Extends(builder.values, builder'.values),
         UNCHANGED <<heap, args>>,
         \/ Len(calls') = Len(calls)
         \/ /\ Len(calls') = Len(calls) + 1
            /\ Nested(heap, builder'.values, calls'[Len(calls) + 1])
            /\ calls'[Len(calls) + 1].done = 0
  PROVE  Frames'
<1>1. /\ Caller = calls[Len(calls)] /\ Len(calls) \in Nat \ {0} /\ Caller \in Call
      /\ Caller.done \in Nat /\ Caller.done + 1 \in 1..Len(Caller.list)
      /\ calls'[Len(calls)] = [Caller EXCEPT !.done = @ + 1]
  BY DEF Advances
<1>2. /\ calls'[Len(calls)].kind = Caller.kind /\ calls'[Len(calls)].obj = Caller.obj
      /\ calls'[Len(calls)].index = Caller.index /\ calls'[Len(calls)].list = Caller.list
      /\ calls'[Len(calls)].done = Caller.done + 1
  BY <1>1 DEF Call
<1>3. calls'[1].kind = "message" /\ calls'[1].index = -1 /\ calls'[1].list = args'
  <2>1. CASE Len(calls) = 1
    BY <1>1, <1>2, <2>1 DEF Frames
  <2>2. CASE Len(calls) # 1
    <3>1. 1 \in 1..Len(calls) - 1
      <4>1. Len(calls) \in Nat \ {0} /\ Len(calls) # 1
        BY <1>1, <2>2
      <4>2. \A n \in Nat \ {0} : n # 1 => 1 \in 1..n - 1
        OBVIOUS
      <4>3. QED
        BY <4>1, <4>2
    <3>2. calls'[1] = calls[1]
      BY <3>1 DEF Advances
    <3>3. QED
      BY <3>2 DEF Frames
  <2>3. QED
    BY <2>1, <2>2
<1>4. \A k \in 1..Len(calls) - 1 : calls'[k] = calls[k]
  BY DEF Advances
<1>5. ASSUME NEW k \in 1..Len(calls') PROVE calls'[k].done =< Len(calls'[k].list)
  <2>1. CASE k \in 1..Len(calls) - 1
    BY <2>1, <1>1, <1>4 DEF Frames
  <2>2. CASE k = Len(calls)
    BY <2>2, <1>1, <1>2
  <2>3. CASE k = Len(calls) + 1 /\ Len(calls') = Len(calls) + 1
    <3>1. calls'[k] \in Call
      BY ElementOfSeq DEF Advances
    <3>2. Len(calls'[k].list) \in Nat
      BY <3>1, LenProperties DEF Call
    <3>3. calls'[k].done = 0
      BY <2>3, <1>1
    <3>4. QED
      BY <3>2, <3>3
  <2>4. QED
    BY <1>1, <2>1, <2>2, <2>3
<1>6. ASSUME NEW k \in 2..Len(calls') PROVE Nested(heap', builder'.values, calls'[k])
  <2>1. CASE k \in 2..Len(calls) - 1
    <3>1. Nested(heap, builder.values, calls[k]) /\ calls'[k] = calls[k]
      BY <2>1, <1>1, <1>4 DEF Frames
    <3>2. QED
      BY <3>1, NestedStays
  <2>2. CASE k = Len(calls)
    <3>1. Nested(heap, builder.values, Caller)
      BY <2>2, <1>1 DEF Frames
    <3>2. Nested(heap, builder'.values, Caller)
      BY <3>1, NestedStays
    <3>3. QED
      BY <2>2, <1>2, <3>2 DEF Nested
  <2>3. CASE k = Len(calls) + 1 /\ Len(calls') = Len(calls) + 1
    BY <2>3, <1>1
  <2>4. QED
    BY <1>1, <2>1, <2>2, <2>3
<1>7. QED
  BY <1>3, <1>5, <1>6 DEF Frames

-----------------------------------------------------------------------------
(* What the actions of write_value do. *)

\* What every call of write_value leaves alone.
Rest == UNCHANGED <<heap, args, msg, reader, below>>

\* The builder has an item more.
Added(b, item) ==
  /\ b \in Builder /\ item \in Items /\ b.values = Append(builder.values, item)
  /\ b.bytes = builder.bytes + Claimed(item) /\ b.count = builder.count + 1
  /\ b.flagged = builder.flagged /\ b.raised = builder.raised

\* A value of a type that is not written adds nothing, and its caller counts it.
LEMMA SkipDoes ==
  ASSUME TypeOK, Skip
  PROVE  /\ Rest /\ Advances(Caller) /\ Len(calls') = Len(calls)
         /\ Caller.list[Caller.done + 1] = Thread /\ builder' = builder
<1>1. Write(Thread, builder) /\ calls' = Called
  BY DEF Skip
<1>2. QED
  BY <1>1, WriteAdvances DEF Rest

\* A value without parts adds one item.
LEMMA AtomDoes ==
  ASSUME TypeOK, NEW v \in Atom, WriteAtom(v)
  PROVE  /\ Rest /\ Advances(Caller) /\ Len(calls') = Len(calls)
         /\ Caller.list[Caller.done + 1] = v
         /\ Added(builder', [type |-> "atom", val |-> v])
         /\ builder'.refmap = builder.refmap /\ builder'.shared = builder.shared
<1> DEFINE x == [type |-> "atom", val |-> v]
<1>1. Write(v, Push(builder, x)) /\ calls' = Called
  BY DEF WriteAtom
<1>2. x \in Items
  BY DEF Items
<1> HIDE DEF x
<1>3. builder \in Builder
  BY DEF TypeOK
<1>4. builder' = Push(builder, x) /\ Rest /\ Advances(Caller) /\ Len(calls') = Len(calls)
      /\ Caller.list[Caller.done + 1] = v
  BY <1>1, WriteAdvances DEF Rest
<1>5. /\ Added(Push(builder, x), x)
      /\ Push(builder, x).refmap = builder.refmap /\ Push(builder, x).shared = builder.shared
  BY <1>2, <1>3, PushIs DEF Added
<1>6. Added(builder', x) /\ builder'.refmap = builder.refmap /\ builder'.shared = builder.shared
  BY <1>4, <1>5
<1>7. QED
  BY <1>4, <1>6 DEF x

\* A table met again adds a reference to its item, and marks that.
LEMMA ReferenceDoes ==
  ASSUME TypeOK, NEW v \in Obj, WriteReference(v)
  PROVE  /\ Rest /\ Advances(Caller) /\ Len(calls') = Len(calls)
         /\ Caller.list[Caller.done + 1] = v /\ heap[v].kind = "table"
         /\ \E n \in Nat :
              /\ <<v, n>> \in builder.refmap
              /\ Added(builder', [type |-> "reference", ref |-> n])
              /\ builder'.refmap = builder.refmap
              /\ builder'.shared = builder.shared \cup {n}
<1>1. builder \in Builder
  BY DEF TypeOK
<1> DEFINE r == CHOOSE q \in builder.refmap : q[1] = v
           n == r[2]
           x == [type |-> "reference", ref |-> n]
<1>2. r \in builder.refmap /\ r[1] = v
  BY DEF WriteReference, Seen
<1> HIDE DEF r
<1>3. n \in Nat /\ <<v, n>> \in builder.refmap
  BY <1>1, <1>2 DEF Builder
<1>4. Write(v, Refer(builder, v)) /\ calls' = Called /\ heap[v].kind = "table"
  BY DEF WriteReference
<1>5. Refer(builder, v) = [Push(builder, x) EXCEPT !.shared = @ \cup {n}]
  BY DEF Refer, r
<1>6. builder' = Refer(builder, v) /\ Rest /\ Advances(Caller) /\ Len(calls') = Len(calls)
      /\ Caller.list[Caller.done + 1] = v
  BY <1>4, WriteAdvances DEF Rest
<1>7. x \in Items
  BY <1>3 DEF Items
<1> HIDE DEF x, n
<1> DEFINE p == Push(builder, x)
<1>8. /\ p \in Builder /\ p.values = Append(builder.values, x)
      /\ p.bytes = builder.bytes + Claimed(x) /\ p.count = builder.count + 1
      /\ p.refmap = builder.refmap /\ p.shared = builder.shared
      /\ p.flagged = builder.flagged /\ p.raised = builder.raised
  BY <1>1, <1>7, PushIs
<1>9. builder' = [p EXCEPT !.shared = @ \cup {n}]
  BY <1>5, <1>6
<1> HIDE DEF p
<1>10. /\ builder' \in Builder /\ builder'.values = p.values /\ builder'.bytes = p.bytes
       /\ builder'.count = p.count /\ builder'.refmap = p.refmap
       /\ builder'.shared = builder.shared \cup {n}
       /\ builder'.flagged = p.flagged /\ builder'.raised = p.raised
  BY <1>3, <1>8, <1>9 DEF Builder
<1>11. Added(builder', x)
  BY <1>7, <1>8, <1>10 DEF Added
<1>12. builder'.refmap = builder.refmap
  BY <1>8, <1>10
<1>13. Added(builder', [type |-> "reference", ref |-> n])
  BY <1>11 DEF x
<1>14. QED
  BY <1>3, <1>4, <1>6, <1>10, <1>12, <1>13

\* An error of Lua leaves the items as they are.
LEMMA RaiseDoes ==
  ASSUME TypeOK, NEW v \in Obj, Raise(v)
  PROVE  /\ Rest /\ Advances(Caller) /\ Len(calls') = Len(calls)
         /\ builder' \in Builder /\ builder'.values = builder.values
         /\ builder'.bytes = builder.bytes /\ builder'.raised = TRUE
<1>1. Write(v, [builder EXCEPT !.raised = TRUE]) /\ calls' = Called
  BY DEF Raise
<1>2. builder' = [builder EXCEPT !.raised = TRUE] /\ Rest /\ Advances(Caller)
      /\ Len(calls') = Len(calls)
  BY <1>1, WriteAdvances DEF Rest
<1>3. builder \in Builder
  BY DEF TypeOK
<1>4. /\ builder' \in Builder /\ builder'.values = builder.values
      /\ builder'.bytes = builder.bytes
  BY <1>2, <1>3 DEF Builder
<1>5. builder'.raised = TRUE
  BY <1>2, <1>3 DEF Builder
<1>6. QED
  BY <1>2, <1>4, <1>5

\* An object adds one item, a table an entry in the table of references, and a
\* call that is about to write the parts.
LEMMA ObjectDoes ==
  ASSUME TypeOK, NEW v \in Obj, WriteObject(v)
  PROVE  LET n == Len(builder.values)
         IN /\ Rest /\ Advances(Caller) /\ Len(calls') = Len(calls) + 1
            /\ Caller.list[Caller.done + 1] = v /\ heap[v].kind \in Kind /\ n \in Nat
            /\ calls'[Len(calls) + 1] = Frame(heap[v].kind, v, n, Listed(heap[v]))
            /\ Nested(heap, builder'.values, calls'[Len(calls) + 1])
            /\ Added(builder', [type |-> heap[v].kind, parts |-> 0])
            /\ builder'.shared = builder.shared
            /\ heap[v].kind # "table" => builder'.refmap = builder.refmap
            /\ heap[v].kind = "table" => /\ ~ Seen(builder, v)
                                         /\ builder'.refmap = builder.refmap \cup {<<v, n>>}
<1> DEFINE n == Len(builder.values)
           k == heap[v].kind
           b == IF k = "table" THEN Remember(builder, v) ELSE builder
           x == [type |-> k, parts |-> 0]
           f == Frame(k, v, n, Listed(heap[v]))
<1>1. builder \in Builder /\ heap[v] \in Object
  BY DEF TypeOK
<1>2. n \in Nat /\ builder.values \in Seq(Items)
  BY <1>1, LenProperties DEF Builder
<1>3. k \in Kind /\ Listed(heap[v]) \in Seq(Value)
  BY <1>1, ListedIs
<1>4. x \in Items
  BY <1>3 DEF Items
<1>5. f \in Call
  BY <1>2, <1>3 DEF Call, Frame
<1>6. Write(v, Push(b, x)) /\ calls' = Append(Called, f) /\ (k = "table" => ~ Seen(builder, v))
  BY DEF WriteObject
<1>7. /\ b \in Builder /\ b.values = builder.values /\ b.bytes = builder.bytes
      /\ b.count = builder.count /\ b.flagged = builder.flagged /\ b.raised = builder.raised
      /\ b.shared = builder.shared
      /\ k # "table" => b.refmap = builder.refmap
      /\ k = "table" => b.refmap = builder.refmap \cup {<<v, n>>}
  <2>1. CASE k = "table"
    <3>1. <<v, n>> \in Obj \X Nat
      BY <1>2
    <3>2. b = [builder EXCEPT !.refmap = @ \cup {<<v, n>>}]
      BY <2>1 DEF Remember
    <3> HIDE DEF b, n, k
    <3>3. QED
      BY <1>1, <2>1, <3>1, <3>2 DEF Builder
  <2>2. CASE k # "table"
    BY <1>1, <2>2
  <2>3. QED
    BY <2>1, <2>2
<1> HIDE DEF b, x, f
<1>8. builder' = Push(b, x) /\ Rest /\ Advances(Caller) /\ Len(calls') = Len(calls) + 1
      /\ calls'[Len(calls) + 1] = f /\ Caller.list[Caller.done + 1] = v
  BY <1>5, <1>6, ObjectAdvances DEF Rest
<1> DEFINE p == Push(b, x)
<1>9. /\ p \in Builder /\ p.values = Append(b.values, x)
      /\ p.bytes = b.bytes + Claimed(x) /\ p.count = b.count + 1
      /\ p.refmap = b.refmap /\ p.shared = b.shared
      /\ p.flagged = b.flagged /\ p.raised = b.raised
  BY <1>4, <1>7, PushIs
<1>10. builder' = p
  BY <1>8
<1> HIDE DEF p
<1>11. Added(builder', x) /\ builder'.shared = builder.shared /\ builder'.refmap = b.refmap
  BY <1>4, <1>7, <1>9, <1>10 DEF Added
<1>12. Nested(heap, builder'.values, f)
  <2>1. /\ f.kind = k /\ f.obj = v /\ f.index = n /\ f.list = Listed(heap[v])
    BY DEF f, Frame
  <2>2. builder'.values = Append(builder.values, x)
    BY <1>11 DEF Added
  <2>3. Len(builder'.values) = n + 1 /\ builder'.values[n + 1] = x
    BY <1>2, <1>4, <2>2, Pushed
  <2>4. x.type = k
    BY DEF x
  <2>5. f.kind # "message" /\ f.kind # "meta" /\ f.index \in 0..Len(builder'.values) - 1
        /\ f.obj \in Obj
    BY <1>2, <1>3, <2>1, <2>3 DEF Kind
  <2>6. builder'.values[f.index + 1].type = heap[f.obj].kind
    BY <2>1, <2>3, <2>4
  <2>7. f.kind = heap[f.obj].kind /\ f.list = Listed(heap[f.obj])
    BY <2>1
  <2> HIDE DEF n, k
  <2>8. QED
    BY <2>5, <2>6, <2>7 DEF Nested
<1>13. Nested(heap, builder'.values, calls'[Len(calls) + 1])
  BY <1>8, <1>12
<1>14. /\ Added(builder', [type |-> heap[v].kind, parts |-> 0])
       /\ calls'[Len(calls) + 1] = Frame(heap[v].kind, v, n, Listed(heap[v]))
  BY <1>8, <1>11 DEF x, f
<1>15. /\ heap[v].kind # "table" => builder'.refmap = builder.refmap
       /\ heap[v].kind = "table" => builder'.refmap = builder.refmap \cup {<<v, n>>}
  BY <1>7, <1>11
<1>16. heap[v].kind = "table" => ~ Seen(builder, v)
  BY <1>6
<1> HIDE DEF n
<1>17. QED
  BY <1>2, <1>3, <1>8, <1>11, <1>13, <1>14, <1>15, <1>16 DEF n

\* A call of write_value for an object is over: those below it are left.
Ends(c) ==
  /\ Len(calls) \in Nat /\ Len(calls) > 1 /\ c = calls[Len(calls)] /\ c \in Call
  /\ \A k \in 1..Len(calls) : calls[k] \in Call
  /\ calls' \in Seq(Call) /\ \A k \in 1..Len(calls) - 1 : calls'[k] = calls[k]
  /\ c.done = Len(c.list) /\ Nested(heap, builder.values, c) /\ heap[c.obj] \in Object

\* A call that has written everything is about an object, unless it is the loop
\* of lua_newmessage.
LEMMA OverIs ==
  ASSUME TypeOK, Frames, NEW kinds, Over(kinds), "message" \notin kinds
  PROVE  /\ msg' = msg => Rest
         /\ Caller.kind \in kinds /\ ~ builder.raised
         /\ Len(calls) \in Nat /\ Len(calls) > 1 /\ Caller = calls[Len(calls)] /\ Caller \in Call
         /\ \A k \in 1..Len(calls) : calls[k] \in Call
         /\ Caller.done = Len(Caller.list) /\ Nested(heap, builder.values, Caller)
         /\ Caller.obj \in Obj /\ heap[Caller.obj] \in Object
         /\ Front(calls) \in Seq(Call) /\ Len(Front(calls)) = Len(calls) - 1
         /\ \A k \in 1..Len(calls) - 1 : Front(calls)[k] = calls[k]
<1>1. calls \in Seq(Call) /\ Len(calls) # 0
  BY DEF TypeOK
<1>2. /\ Front(calls) \in Seq(Call) /\ Len(Front(calls)) = Len(calls) - 1
      /\ Len(calls) \in Nat \ {0}
      /\ \A i \in 1..Len(calls) - 1 : Front(calls)[i] = calls[i]
      /\ Last(calls) = calls[Len(calls)] /\ Last(calls) \in Call
  BY <1>1, Popped
<1>3. Caller.kind \in kinds /\ Caller.done = Len(Caller.list) /\ ~ builder.raised
  BY DEF Over
<1>4. Caller = calls[Len(calls)] /\ Caller \in Call
  BY <1>2 DEF Caller
<1>5. Len(calls) # 1
  <2>1. Caller.kind # "message"
    BY <1>3
  <2>2. calls[1].kind = "message"
    BY DEF Frames
  <2>3. QED
    BY <1>4, <2>1, <2>2
<1>6. Len(calls) > 1 /\ Len(calls) \in 2..Len(calls) /\ Len(calls) \in Nat
  <2>1. \A n \in Nat \ {0} : n # 1 => n > 1 /\ n \in 2..n /\ n \in Nat
    OBVIOUS
  <2>2. QED
    BY <1>2, <1>5, <2>1
<1>7. Nested(heap, builder.values, Caller)
  BY <1>4, <1>6 DEF Frames
<1>8. Caller.obj \in Obj /\ heap[Caller.obj] \in Object
  BY <1>7 DEF Nested, TypeOK
<1>9. \A k \in 1..Len(calls) : calls[k] \in Call
  BY <1>1, <1>2, ElementOfSeq
<1>10. UNCHANGED <<heap, args, reader, below>>
  BY DEF Over
<1>11. QED
  BY <1>2, <1>3, <1>4, <1>6, <1>7, <1>8, <1>9, <1>10 DEF Rest

\* The item of an object has got the number of its parts.
Filled(c, vs, ws) ==
  /\ Len(vs) \in Nat /\ Len(ws) = Len(vs) /\ ws \in Seq(Items)
  /\ \A i \in 1..Len(vs) : vs[i].type = ws[i].type
  /\ \A i \in 1..Len(vs) : i # c.index + 1 => vs[i] = ws[i]
  /\ c.index + 1 \in 1..Len(vs)
  /\ ws[c.index + 1] = [type |-> heap[c.obj].kind, parts |-> Len(heap[c.obj].parts)]

\* lc_settable, lc_setfunction and lc_setuserdata fill in the item of the call, and
\* take what the call has written off the count.
LEMMA PartsDo ==
  ASSUME TypeOK, Frames, EndParts
  PROVE  LET o == heap[Caller.obj]
         IN /\ Rest /\ Ends(Caller) /\ builder' \in Builder
            /\ Caller.kind = o.kind /\ Caller.list = Listed(o)
            /\ Filled(Caller, builder.values, builder'.values)
            /\ builder'.bytes = builder.bytes /\ builder'.count = builder.count - Len(Caller.list)
            /\ builder'.refmap = builder.refmap /\ builder'.shared = builder.shared
            /\ builder'.flagged = builder.flagged /\ builder'.raised = builder.raised
            /\ \/ Len(calls') = Len(calls) - 1 /\ (o.kind # "table" \/ o.meta = NoObj)
               \/ /\ Len(calls') = Len(calls) /\ o.meta \in Obj /\ o.kind = "table"
                  /\ calls'[Len(calls)] = Frame("meta", Caller.obj, Caller.index, <<o.meta>>)
<1> DEFINE c == Caller
           o == heap[c.obj]
           n == Len(o.parts)
           e == IF o.kind = "table" THEN 2 ELSE 1
           f == Frame("meta", c.obj, c.index, <<o.meta>>)
           v == builder.values
<1>1. Over(Kind) /\ UNCHANGED msg /\ builder' = SetParts(builder, c.index, n, e)
      /\ calls' = IF o.kind = "table" /\ o.meta # NoObj THEN Append(Front(calls), f) ELSE Front(calls)
  BY DEF EndParts, Kind
<1>2. /\ Rest /\ c.kind \in Kind
      /\ Len(calls) \in Nat /\ Len(calls) > 1 /\ c = calls[Len(calls)] /\ c \in Call
      /\ \A k \in 1..Len(calls) : calls[k] \in Call
      /\ c.done = Len(c.list) /\ Nested(heap, v, c)
      /\ c.obj \in Obj /\ o \in Object
      /\ Front(calls) \in Seq(Call) /\ Len(Front(calls)) = Len(calls) - 1
      /\ \A k \in 1..Len(calls) - 1 : Front(calls)[k] = calls[k]
  BY <1>1, OverIs DEF Kind
<1>3. c.kind = o.kind /\ c.list = Listed(o) /\ c.index \in 0..Len(v) - 1
      /\ v[c.index + 1].type = o.kind
  BY <1>2 DEF Nested, Kind
<1>4. n \in Nat /\ o.kind \in Kind /\ Len(Listed(o)) = e * n /\ o.meta \in Obj \cup {NoObj}
  BY <1>2, ListedIs DEF Object
<1>5. builder \in Builder /\ v \in Seq(Items) /\ Len(v) \in Nat
  BY LenProperties DEF TypeOK, Builder
<1>6. c.index + 1 \in 1..Len(v)
  BY <1>3, <1>5
<1> DEFINE j == c.index + 1
           y == [type |-> o.kind, parts |-> n]
           w == [v EXCEPT ![j] = y]
<1>7. v[j] \in Items
  BY <1>5, <1>6, ElementOfSeq
<1>8. [v[j] EXCEPT !.parts = n] = y
  <2> HIDE DEF n, v, j, o
  <2>1. v[j] \in [type : Kind, parts : Nat]
    BY <1>3, <1>4, <1>7 DEF Items, Kind, j
  <2>2. QED
    BY <1>3, <2>1 DEF j
<1>9. y \in Items
  BY <1>4 DEF Items
<1>10. Filled(c, v, w)
  <2> HIDE DEF y
  <2>1. w \in Seq(Items) /\ Len(w) = Len(v)
    <3>1. v \in [1..Len(v) -> Items]
      BY <1>5, ElementOfSeq, LenProperties
    <3>2. w \in [1..Len(v) -> Items]
      BY <3>1, <1>9
    <3> HIDE DEF w, v
    <3>3. w \in Seq(Items) /\ DOMAIN w = 1..Len(v)
      BY <1>5, <3>2, SeqDef
    <3>4. QED
      BY <1>5, <3>3, LenProperties
  <2>2. DOMAIN v = 1..Len(v)
    BY <1>5, LenProperties
  <2>3. \A i \in 1..Len(v) : i # j => v[i] = w[i]
    BY <2>2
  <2>4. w[j] = y
    BY <1>6, <2>2
  <2>5. y.type = o.kind
    BY DEF y
  <2>6. \A i \in 1..Len(v) : v[i].type = w[i].type
    <3> HIDE DEF w
    <3>1. QED
      BY <2>3, <2>4, <2>5, <1>3
  <2> HIDE DEF w
  <2>7. QED
    BY <1>5, <1>6, <2>1, <2>3, <2>4, <2>6 DEF Filled, y
<1>11. [builder EXCEPT !.values[c.index + 1].parts = n] = [builder EXCEPT !.values = w]
  <2>1. [builder EXCEPT !.values[c.index + 1].parts = n]
          = [builder EXCEPT !.values = [v EXCEPT ![j] = [v[j] EXCEPT !.parts = n]]]
    BY <1>5 DEF Builder
  <2>2. QED
    BY <1>8, <2>1
<1>12. builder' = [[builder EXCEPT !.values = w] EXCEPT !.count = @ - e * n]
  <2>1. SetParts(builder, c.index, n, e)
          = [[builder EXCEPT !.values[c.index + 1].parts = n] EXCEPT !.count = @ - e * n]
    BY <1>5 DEF SetParts, Builder
  <2>2. QED
    BY <1>1, <1>11, <2>1
<1>13. w \in Seq(Items)
  BY <1>10 DEF Filled
<1>14. e * n \in Int
  BY <1>4
<1>15. /\ builder' \in Builder /\ builder'.values = w
       /\ builder'.bytes = builder.bytes /\ builder'.count = builder.count - e * n
       /\ builder'.refmap = builder.refmap /\ builder'.shared = builder.shared
       /\ builder'.flagged = builder.flagged /\ builder'.raised = builder.raised
  <2> DEFINE b1 == [builder EXCEPT !.values = w]
             d == e * n
  <2> HIDE DEF w
  <2>1. /\ b1 \in Builder /\ b1.values = w
        /\ b1.bytes = builder.bytes /\ b1.count = builder.count
        /\ b1.refmap = builder.refmap /\ b1.shared = builder.shared
        /\ b1.flagged = builder.flagged /\ b1.raised = builder.raised
    BY <1>5, <1>13 DEF Builder
  <2>2. builder' = [b1 EXCEPT !.count = @ - d] /\ d \in Int
    BY <1>12, <1>14
  <2> HIDE DEF b1, d
  <2>3. b1.count - d \in Int
    BY <2>1, <2>2 DEF Builder
  <2>4. /\ builder' \in Builder /\ builder'.values = b1.values
        /\ builder'.bytes = b1.bytes /\ builder'.count = b1.count - d
        /\ builder'.refmap = b1.refmap /\ builder'.shared = b1.shared
        /\ builder'.flagged = b1.flagged /\ builder'.raised = b1.raised
    BY <2>1, <2>2, <2>3 DEF Builder
  <2>5. QED
    BY <2>1, <2>4 DEF d
<1>16. Filled(c, builder.values, builder'.values)
  BY <1>10, <1>15
<1>17. builder'.count = builder.count - Len(c.list)
  BY <1>3, <1>4, <1>15
<1>18. /\ calls' \in Seq(Call) /\ \A k \in 1..Len(calls) - 1 : calls'[k] = calls[k]
       /\ \/ Len(calls') = Len(calls) - 1 /\ (o.kind # "table" \/ o.meta = NoObj)
          \/ Len(calls') = Len(calls) /\ o.meta \in Obj /\ o.kind = "table" /\ calls'[Len(calls)] = f
  <2>1. CASE o.kind = "table" /\ o.meta # NoObj
    <3>1. o.meta \in Obj
      BY <1>4, <2>1
    <3>2. f \in Call
      <4>1. o.meta \in Value
        BY <3>1 DEF Value
      <4>2. <<o.meta>> \in Seq(Value)
        BY <4>1
      <4>3. c.index \in Int /\ c.obj \in Obj
        BY <1>2 DEF Call
      <4>4. QED
        BY <4>2, <4>3 DEF Call, Frame
    <3>3. calls \in Seq(Call) /\ Len(calls) # 0
      BY DEF TypeOK
    <3> HIDE DEF f
    <3>4. /\ Append(Front(calls), f) \in Seq(Call) /\ Len(Append(Front(calls), f)) = Len(calls)
          /\ \A i \in 1..Len(calls) - 1 : Append(Front(calls), f)[i] = calls[i]
          /\ Append(Front(calls), f)[Len(calls)] = f
      BY <3>2, <3>3, Replaced
    <3>5. calls' = Append(Front(calls), f)
      BY <1>1, <2>1
    <3>6. QED
      BY <2>1, <3>1, <3>4, <3>5
  <2>2. CASE ~ (o.kind = "table" /\ o.meta # NoObj)
    <3>1. calls' = Front(calls)
      BY <1>1, <2>2
    <3>2. QED
      BY <1>2, <2>2, <3>1
  <2>3. QED
    BY <2>1, <2>2
<1>19. Ends(c)
  BY <1>2, <1>18 DEF Ends
<1> HIDE DEF f, o, c
<1>20. QED
  BY <1>2, <1>3, <1>15, <1>16, <1>17, <1>18, <1>19 DEF f, o, c

\* lc_setmeta takes the metatable off the count.
LEMMA MetaDoes ==
  ASSUME TypeOK, Frames, EndMeta
  PROVE  /\ Rest /\ Ends(Caller) /\ builder' \in Builder
         /\ Caller.kind = "meta" /\ Len(Caller.list) = 1
         /\ builder'.values = builder.values
         /\ builder'.bytes = builder.bytes /\ builder'.count = builder.count - 1
         /\ 0 \in builder'.flagged
         /\ builder'.raised = builder.raised
         /\ Len(calls') = Len(calls) - 1
<1> DEFINE c == Caller
<1>1. Over({"meta"}) /\ UNCHANGED msg /\ builder' = SetMeta(builder) /\ calls' = Front(calls)
  BY DEF EndMeta
<1>2. /\ Rest /\ c.kind \in {"meta"}
      /\ Len(calls) \in Nat /\ Len(calls) > 1 /\ c = calls[Len(calls)] /\ c \in Call
      /\ \A k \in 1..Len(calls) : calls[k] \in Call
      /\ c.done = Len(c.list) /\ Nested(heap, builder.values, c)
      /\ c.obj \in Obj /\ heap[c.obj] \in Object
      /\ Front(calls) \in Seq(Call) /\ Len(Front(calls)) = Len(calls) - 1
      /\ \A k \in 1..Len(calls) - 1 : Front(calls)[k] = calls[k]
  BY <1>1, OverIs
<1>3. builder \in Builder
  BY DEF TypeOK
<1> DEFINE b1 == [builder EXCEPT !.flagged = @ \cup {0}]
<1>4. /\ b1 \in Builder /\ b1.values = builder.values /\ b1.bytes = builder.bytes
      /\ b1.count = builder.count /\ 0 \in b1.flagged /\ b1.raised = builder.raised
  BY <1>3 DEF Builder
<1>5. builder' = [b1 EXCEPT !.count = @ - 1]
  BY <1>1, <1>3 DEF SetMeta, Builder
<1> HIDE DEF b1
<1>6. b1.count - 1 \in Int
  BY <1>4 DEF Builder
<1>7. /\ builder' \in Builder /\ builder'.values = b1.values /\ builder'.bytes = b1.bytes
      /\ builder'.count = b1.count - 1 /\ builder'.flagged = b1.flagged
      /\ builder'.raised = b1.raised
  BY <1>4, <1>5, <1>6 DEF Builder
<1>8. Len(c.list) = 1
  BY <1>2 DEF Nested
<1>9. Ends(c)
  BY <1>1, <1>2 DEF Ends
<1> HIDE DEF c
<1>10. QED
  BY <1>1, <1>2, <1>4, <1>7, <1>8, <1>9 DEF c

-----------------------------------------------------------------------------
(* The bytes of a message, and the number of its values. *)

\* The references among the items.
LEMMA ReferencesAppend ==
  ASSUME NEW items \in Seq(Items), NEW x \in Items
  PROVE  /\ References(items) \in Nat
         /\ References(Append(items, x))
              = References(items) + IF x.type = "reference" THEN 1 ELSE 0
<1> DEFINE n == Len(items)
           more == Append(items, x)
           R == {i \in DOMAIN items : items[i].type = "reference"}
           Q == {i \in DOMAIN more : more[i].type = "reference"}
<1>1. /\ n \in Nat /\ DOMAIN items = 1..n /\ DOMAIN more = 1..n + 1
      /\ (\A i \in 1..n : more[i] = items[i]) /\ more[n + 1] = x
  BY Pushed, LenProperties
<1>2. IsFiniteSet(R) /\ Cardinality(R) \in Nat
  <2>1. IsFiniteSet(1..n)
    BY <1>1, FS_Interval
  <2>2. R \subseteq 1..n
    BY <1>1
  <2>3. IsFiniteSet(R)
    BY <2>1, <2>2, FS_Subset
  <2>4. QED
    BY <2>3, FS_CardinalityType
<1>3. n + 1 \notin R
  BY <1>1
<1>4. CASE x.type = "reference"
  <2>1. Q = R \cup {n + 1}
    <3> HIDE DEF more, n
    <3>1. QED
      BY <1>1, <1>4
  <2> HIDE DEF R, Q
  <2>2. Cardinality(Q) = Cardinality(R) + 1
    BY <1>2, <1>3, <2>1, FS_AddElement
  <2>3. QED
    BY <1>2, <1>4, <2>2 DEF References, R, Q
<1>5. CASE x.type # "reference"
  <2>1. Q = R
    <3> HIDE DEF more, n
    <3>1. QED
      BY <1>1, <1>5
  <2>2. References(more) = Cardinality(Q) /\ References(items) = Cardinality(R)
    BY DEF References
  <2> HIDE DEF more, R, Q
  <2>3. References(more) = References(items) + 0 /\ References(items) \in Nat
    BY <1>2, <2>1, <2>2
  <2>4. QED
    BY <1>5, <2>3 DEF more
<1>6. QED
  BY <1>4, <1>5

\* Another number of parts is no other size.
LEMMA FilledSame ==
  ASSUME NEW c, NEW vs \in Seq(Items), NEW ws \in Seq(Items), Filled(c, vs, ws),
         heap[c.obj].kind \in Kind
  PROVE  /\ Offsets(ws)[Len(ws)] = Offsets(vs)[Len(vs)]
         /\ References(ws) = References(vs)
<1>1. \A i \in 1..Len(vs) : Size(ws[i]) = Size(vs[i])
  <2> SUFFICES ASSUME NEW i \in 1..Len(vs) PROVE Size(ws[i]) = Size(vs[i])
    OBVIOUS
  <2>1. CASE i # c.index + 1
    BY <2>1 DEF Filled
  <2>2. CASE i = c.index + 1
    <3>1. ws[i].type = heap[c.obj].kind /\ vs[i].type = ws[i].type
      BY <2>2 DEF Filled
    <3>2. ws[i].type \in Kind /\ vs[i].type = ws[i].type
      BY <3>1
    <3>3. QED
      BY <3>2 DEF Size, Kind
  <2>3. QED
    BY <2>1, <2>2
<1>2. Len(ws) = Len(vs)
  BY DEF Filled
<1>3. Offsets(ws)[Len(ws)] = Offsets(vs)[Len(vs)]
  BY <1>1, <1>2, OffsetsSame
<1>4. DOMAIN vs = 1..Len(vs) /\ DOMAIN ws = 1..Len(vs)
  BY <1>2, LenProperties
<1>5. \A i \in 1..Len(vs) : vs[i].type = ws[i].type
  BY DEF Filled
<1>6. {i \in DOMAIN ws : ws[i].type = "reference"} = {i \in DOMAIN vs : vs[i].type = "reference"}
  BY <1>4, <1>5
<1>7. QED
  BY <1>3, <1>6 DEF References

\* The bytes counted so far.
Weighed ==
  Offsets(builder.values)[Len(builder.values)] = builder.bytes + 4 * References(builder.values)

\* An item more is counted.
LEMMA AddedCounts ==
  ASSUME TypeOK, Weighed, NEW x, Added(builder', x)
  PROVE  Weighed'
<1> DEFINE v == builder.values
           w == Append(v, x)
<1>1. v \in Seq(Items) /\ x \in Items /\ builder'.values = w /\ builder.bytes \in Int
      /\ builder'.bytes = builder.bytes + Claimed(x)
  BY DEF TypeOK, Builder, Added
<1>2. Offsets(w)[Len(v) + 1] = Offsets(v)[Len(v)] + Size(x)
  BY <1>1, OffsetsAppend
<1>3. Len(w) = Len(v) + 1
  BY <1>1, Pushed
<1>4. References(v) \in Nat /\ References(w) = References(v) + IF x.type = "reference" THEN 1 ELSE 0
  BY <1>1, ReferencesAppend
<1>5. Offsets(v)[Len(v)] = builder.bytes + 4 * References(v)
  BY DEF Weighed
<1>6. Size(x) = Claimed(x) + IF x.type = "reference" THEN 4 ELSE 0
  <2>1. CASE x.type = "reference"
    BY <2>1 DEF Claimed, Size
  <2>2. CASE x.type # "reference"
    <3>1. Claimed(x) = Size(x) /\ Size(x) \in Nat
      BY <2>2, SizeType DEF Claimed
    <3>2. QED
      BY <2>2, <3>1
  <2>3. QED
    BY <2>1, <2>2
<1>7. Size(x) \in Nat /\ Claimed(x) \in Int
  BY SizeType DEF Claimed
<1> HIDE DEF v, w
<1>8. Offsets(w)[Len(w)] = (builder.bytes + Claimed(x)) + 4 * References(w)
  <2> DEFINE d == IF x.type = "reference" THEN 1 ELSE 0
             ow == Offsets(w)[Len(w)]
             ov == Offsets(v)[Len(v)]
             b == builder.bytes
             rw == References(w)
             rv == References(v)
             cx == Claimed(x)
  <2>1. d \in Int /\ (IF x.type = "reference" THEN 4 ELSE 0) = 4 * d
    OBVIOUS
  <2>2. ow = ov + Size(x) /\ ov = b + 4 * rv /\ rw = rv + d /\ Size(x) = cx + 4 * d
    BY <1>2, <1>3, <1>4, <1>5, <1>6, <2>1
  <2>3. b \in Int /\ rv \in Int /\ cx \in Int
    BY <1>1, <1>4, <1>7
  <2> HIDE DEF d, ow, ov, b, rw, rv, cx
  <2>4. ow = (b + cx) + 4 * rw
    BY <2>1, <2>2, <2>3
  <2>5. QED
    BY <2>4 DEF ow, b, rw, cx
<1>9. QED
  BY <1>1, <1>8 DEF Weighed

\* Nothing of a type that is not written is reached from the values of S.
Closed(S) ==
  /\ S \subseteq Value \ {Thread} /\ Range(args) \subseteq S
  /\ \A o \in S \cap Obj : Range(heap[o].parts) \cup ({heap[o].meta} \ {NoObj}) \subseteq S

\* The calls are about objects reached from the arguments.
Within(S) == \A k \in 2..Len(calls) : calls[k].obj \in S

\* count is the sum of the values written by the calls that go on.
Tally ==
  \E c \in [Nat -> Int] :
    /\ c[0] = 0 /\ builder.count = c[Len(calls)]
    /\ \A k \in 1..Len(calls) : c[k] = c[k - 1] + calls[k].done

\* This holds as long as everything that is reached is written.
Counts == \A S \in SUBSET Value : Closed(S) /\ ~ builder.raised => Within(S) /\ Tally

\* What has been returned is what was built.
Sent ==
  msg # NoObj =>
    /\ msg = [values |-> builder.values, size |-> builder.bytes, count |-> builder.count,
              shared |-> builder.shared, flagged |-> builder.flagged]
    /\ Len(calls) = 1 /\ calls[1].done = Len(args) /\ ~ builder.raised

\* What a call writes is reached from the arguments, or a key.
LEMMA Reached ==
  ASSUME TypeOK, Frames, NEW S, Closed(S), Within(S), NEW k \in 1..Len(calls),
         NEW i \in 1..Len(calls[k].list)
  PROVE  calls[k].list[i] \in S \cup Atom /\ calls[k].list[i] # Thread
<1> DEFINE v == calls[k].list[i]
<1>1. Len(calls) \in Nat /\ calls \in Seq(Call) /\ calls[k] \in Call
  BY LenProperties, ElementOfSeq DEF TypeOK
<1>2. v \in S \cup Atom
  <2>1. CASE k = 1
    <3>1. calls[k].list = args /\ args \in Seq(Value)
      BY <2>1 DEF Frames, TypeOK
    <3>2. args[i] \in Range(args)
      <4>1. i \in DOMAIN args
        BY <3>1, LenProperties
      <4>2. QED
        BY <4>1 DEF Range
    <3>3. QED
      BY <3>1, <3>2 DEF Closed
  <2>2. CASE k # 1
    <3>1. k \in 2..Len(calls)
      BY <1>1, <2>2
    <3>2. Nested(heap, builder.values, calls[k]) /\ calls[k].obj \in S
      BY <3>1 DEF Frames, Within
    <3> DEFINE o == heap[calls[k].obj]
    <3>3. calls[k].obj \in S \cap Obj /\ o \in Object
      BY <3>2 DEF Nested, TypeOK
    <3>4. Range(o.parts) \subseteq S /\ {o.meta} \ {NoObj} \subseteq S
      BY <3>3 DEF Closed
    <3>5. CASE calls[k].kind = "meta"
      <4>1. calls[k].list = <<o.meta>> /\ o.meta \in Obj
        BY <3>2, <3>5 DEF Nested
      <4>2. o.meta # NoObj
        BY <4>1, CodecAssumption DEF Value
      <4>3. i = 1
        BY <4>1
      <4>4. QED
        BY <3>4, <4>1, <4>2, <4>3
    <3>6. CASE calls[k].kind # "meta"
      <4>1. calls[k].list = Listed(o)
        BY <3>2, <3>6 DEF Nested
      <4>2. PICK j \in 1..Len(o.parts) : Listed(o)[i] = Number \/ Listed(o)[i] = o.parts[j]
        <5>1. i \in 1..Len(Listed(o)) /\ Len(Listed(o)) = (IF o.kind = "table" THEN 2 ELSE 1) * Len(o.parts)
              /\ Len(o.parts) \in Nat
          BY <3>3, <4>1, ListedIs
        <5>2. Listed(o)[i] = Number \/ \E j \in 1..Len(o.parts) : Listed(o)[i] = o.parts[j]
          BY <3>3, <5>1, ListedIs
        <5>3. 1 \in 1..Len(o.parts)
          <6> HIDE DEF o
          <6>1. \A n \in Nat, e \in {1, 2} : i \in 1..e * n => 1 \in 1..n
            OBVIOUS
          <6>2. QED
            BY <5>1, <6>1
        <5>4. QED
          BY <5>2, <5>3
      <4>3. o.parts[j] \in Range(o.parts)
        <5>1. j \in DOMAIN o.parts
          BY <3>3, ListedIs, LenProperties
        <5>2. QED
          BY <5>1 DEF Range
      <4>4. QED
        BY <3>4, <4>1, <4>2, <4>3 DEF Atom
    <3>7. QED
      BY <3>5, <3>6
  <2>3. QED
    BY <2>1, <2>2
<1>3. v # Thread
  BY <1>2, CodecAssumption DEF Closed
<1>4. QED
  BY <1>2, <1>3

\* A call counts one more, and so does the sum.
LEMMA TallyAdvances ==
  ASSUME Tally, Advances(Caller), builder' \in Builder, builder.count \in Int,
         builder'.count = builder.count + 1,
         \/ Len(calls') = Len(calls)
         \/ Len(calls') = Len(calls) + 1 /\ calls'[Len(calls) + 1].done = 0
  PROVE  Tally'
<1> DEFINE n == Len(calls)
<1>1. /\ n \in Nat \ {0} /\ \A k \in 1..n - 1 : calls'[k] = calls[k]
      /\ calls'[n].done = calls[n].done + 1 /\ calls[n].done \in Nat
  BY DEF Advances, Call
<1>2. PICK c \in [Nat -> Int] :
        /\ c[0] = 0 /\ builder.count = c[n]
        /\ \A k \in 1..n : c[k] = c[k - 1] + calls[k].done
  BY DEF Tally
<1> DEFINE d == [k \in Nat |-> IF k >= n THEN c[n] + 1 ELSE c[k]]
<1>3. d \in [Nat -> Int] /\ d[0] = 0
  BY <1>1, <1>2
<1>4. ASSUME NEW k \in 1..n - 1 PROVE d[k] = d[k - 1] + calls'[k].done
  <2> HIDE DEF n
  <2>1. k \in 1..n /\ k \in Nat /\ k - 1 \in Nat /\ ~ (k >= n) /\ ~ (k - 1 >= n)
    BY <1>1
  <2>2. c[k] = c[k - 1] + calls[k].done /\ calls'[k] = calls[k]
    BY <1>1, <1>2, <2>1
  <2>3. d[k] = c[k] /\ d[k - 1] = c[k - 1]
    BY <2>1
  <2>4. QED
    BY <2>2, <2>3
<1>5. d[n] = d[n - 1] + calls'[n].done
  <2> HIDE DEF n
  <2>1. n \in 1..n /\ n \in Nat /\ n - 1 \in Nat /\ n >= n /\ ~ (n - 1 >= n)
    BY <1>1
  <2>2. c[n] = c[n - 1] + calls[n].done
    BY <1>2, <2>1
  <2>3. d[n] = c[n] + 1 /\ d[n - 1] = c[n - 1] /\ c[n - 1] \in Int
    BY <2>1, <1>2
  <2>4. QED
    BY <1>1, <2>2, <2>3
<1>6. builder'.count = d[Len(calls')]
  <2>1. d[n] = c[n] + 1 /\ d[n + 1] = c[n] + 1
    BY <1>1, <1>2
  <2> HIDE DEF d
  <2>2. QED
    BY <2>1, <1>2
<1>7. ASSUME NEW k \in 1..Len(calls') PROVE d[k] = d[k - 1] + calls'[k].done
  <2>1. CASE k \in 1..n - 1
    BY <2>1, <1>4
  <2>2. CASE k = n
    BY <2>2, <1>5
  <2>3. CASE k = n + 1 /\ Len(calls') = n + 1
    <3>1. d[n] = c[n] + 1 /\ d[n + 1] = c[n] + 1 /\ c[n] \in Int
      BY <1>1, <1>2
    <3>2. calls'[n + 1].done = 0 /\ (n + 1) - 1 = n
      BY <2>3, <1>1
    <3> HIDE DEF d, n
    <3>3. d[n + 1] = d[(n + 1) - 1] + calls'[n + 1].done
      BY <3>1, <3>2
    <3>4. QED
      BY <2>3, <3>3
  <2>4. k \in 1..n - 1 \/ k = n \/ (k = n + 1 /\ Len(calls') = n + 1)
    <3> DEFINE m == Len(calls')
    <3>1. n \in Nat \ {0} /\ (m = n \/ m = n + 1) /\ k \in 1..m
      BY <1>1
    <3> HIDE DEF m, n
    <3>2. k \in 1..n - 1 \/ k = n \/ (k = n + 1 /\ m = n + 1)
      BY <3>1
    <3>3. QED
      BY <3>2 DEF m
  <2>5. QED
    BY <2>1, <2>2, <2>3, <2>4
<1> HIDE DEF d
<1>8. QED
  BY <1>3, <1>6, <1>7 DEF Tally

\* A call is over, and the values it has written are taken off.
LEMMA TallyEnds ==
  ASSUME Tally, Ends(Caller), builder' \in Builder, builder.count \in Int,
         builder'.count = builder.count - Len(Caller.list),
         \/ Len(calls') = Len(calls) - 1
         \/ Len(calls') = Len(calls) /\ calls'[Len(calls)].done = 0
  PROVE  Tally'
<1> DEFINE n == Len(calls)
<1>1. /\ n \in Nat /\ n > 1 /\ \A k \in 1..n - 1 : calls'[k] = calls[k]
      /\ calls[n].done = Len(Caller.list) /\ calls[n].done \in Nat
  BY DEF Ends, Call
<1>2. PICK c \in [Nat -> Int] :
        /\ c[0] = 0 /\ builder.count = c[n]
        /\ \A k \in 1..n : c[k] = c[k - 1] + calls[k].done
  BY DEF Tally
<1> DEFINE d == [k \in Nat |-> IF k >= n THEN c[n - 1] ELSE c[k]]
<1> HIDE DEF n
<1>3. n - 1 \in Nat /\ n \in 1..n /\ ~ (n - 1 >= n) /\ ~ (0 >= n)
  BY <1>1
<1>4. d \in [Nat -> Int] /\ d[0] = 0
  BY <1>2, <1>3
<1>5. c[n] = c[n - 1] + calls[n].done /\ c[n - 1] \in Int
  BY <1>2, <1>3
<1>6. builder'.count = c[n - 1]
  <2>1. builder.count = c[n - 1] + calls[n].done /\ builder'.count = builder.count - calls[n].done
    BY <1>1, <1>2, <1>5 DEF n
  <2> DEFINE x == builder.count
             y == builder'.count
             z == calls[n].done
  <2>2. x = c[n - 1] + z /\ y = x - z /\ z \in Nat
    BY <1>1, <2>1
  <2> HIDE DEF x, y, z
  <2>3. y = c[n - 1]
    BY <1>5, <2>2
  <2>4. QED
    BY <2>3 DEF y
<1>7. d[n] = c[n - 1] /\ d[n - 1] = c[n - 1]
  BY <1>1, <1>3
<1>8. ASSUME NEW k \in 1..n - 1 PROVE d[k] = d[k - 1] + calls'[k].done
  <2>1. k \in 1..n /\ k \in Nat /\ k - 1 \in Nat /\ ~ (k >= n) /\ ~ (k - 1 >= n)
    BY <1>1
  <2>2. c[k] = c[k - 1] + calls[k].done /\ calls'[k] = calls[k]
    BY <1>1, <1>2, <2>1
  <2>3. d[k] = c[k] /\ d[k - 1] = c[k - 1]
    BY <2>1
  <2>4. QED
    BY <2>2, <2>3
<1> HIDE DEF d
<1>9. CASE Len(calls') = n - 1
  BY <1>4, <1>6, <1>7, <1>8, <1>9 DEF Tally
<1>10. CASE Len(calls') = n /\ calls'[n].done = 0
  <2>1. d[n] = d[n - 1] + calls'[n].done
    BY <1>5, <1>7, <1>10
  <2>2. ASSUME NEW k \in 1..n PROVE d[k] = d[k - 1] + calls'[k].done
    <3>1. CASE k = n
      BY <2>1, <3>1
    <3>2. CASE k # n
      <4>1. k \in 1..n - 1
        BY <1>1, <3>2
      <4>2. QED
        BY <1>8, <4>1
    <3>3. QED
      BY <3>1, <3>2
  <2>3. QED
    BY <1>4, <1>6, <1>7, <1>10, <2>2 DEF Tally
<1>11. QED
  BY <1>9, <1>10 DEF n

-----------------------------------------------------------------------------
(* The invariant of the builder. *)

\* The invariant of what is written.
Built == TypeOK /\ Frames /\ Weighed /\ Counts /\ Sent

\* The invariant holds of an empty builder.
LEMMA BuiltInit == Init => Built
<1> SUFFICES ASSUME Init PROVE Built
  OBVIOUS
<1>1. /\ heap \in [Obj -> Object] /\ args \in Seq(Value)
      /\ builder = NewBuilder /\ calls = <<Frame("message", NoObj, -1, args)>> /\ msg = NoObj
  BY CodecAssumption DEF Init
<1>2. builder \in Builder /\ builder.values = <<>> /\ builder.bytes = 0 /\ builder.count = 0
  <2>1. <<>> \in Seq(Items)
    OBVIOUS
  <2>2. QED
    BY <1>1, <2>1 DEF NewBuilder, Builder
<1>3. Frame("message", NoObj, -1, args) \in Call
  BY <1>1 DEF Frame, Call
<1>4. calls \in Seq(Call) /\ Len(calls) = 1 /\ calls[1] = Frame("message", NoObj, -1, args)
  BY <1>1, <1>3
<1>5. TypeOK
  BY <1>1, <1>2, <1>4 DEF TypeOK
<1>6. calls[1].kind = "message" /\ calls[1].index = -1 /\ calls[1].list = args /\ calls[1].done = 0
  BY <1>4 DEF Frame
<1>7. Frames
  <2>1. Len(args) \in Nat /\ 2..Len(calls) = {} /\ 1..Len(calls) = {1}
    BY <1>1, <1>4, LenProperties
  <2>2. QED
    BY <1>6, <2>1 DEF Frames
<1>8. Weighed
  <2>1. <<>> \in Seq(Items) /\ Len(<<>>) = 0 /\ DOMAIN <<>> = {}
    OBVIOUS
  <2>2. Offsets(<<>>)[0] = 0
    BY <2>1, OffsetsAre
  <2>3. References(<<>>) = 0
    <3>1. {i \in DOMAIN <<>> : <<>>[i].type = "reference"} = {}
      BY <2>1
    <3>2. QED
      BY <3>1, FS_EmptySet DEF References
  <2>4. QED
    BY <1>2, <2>1, <2>2, <2>3 DEF Weighed
<1>9. Counts
  <2>1. 2..Len(calls) = {} /\ 1..Len(calls) = {1} /\ Len(calls) = 1
    BY <1>4
  <2> DEFINE c == [k \in Nat |-> 0]
  <2>2. c \in [Nat -> Int] /\ c[0] = 0 /\ c[1] = 0
    OBVIOUS
  <2> HIDE DEF c
  <2>3. Tally
    <3>1. \A k \in 1..Len(calls) : c[k] = c[k - 1] + calls[k].done
      BY <1>6, <2>1, <2>2
    <3>2. builder.count = c[Len(calls)]
      BY <1>2, <2>1, <2>2
    <3>3. QED
      BY <2>2, <3>1, <3>2 DEF Tally
  <2>4. QED
    BY <2>1, <2>3 DEF Counts, Within
<1>10. QED
  BY <1>1, <1>5, <1>7, <1>8, <1>9 DEF Built, Sent

\* Nothing is written after the message has been made.
LEMMA NotSent ==
  ASSUME TypeOK, Frames, Sent, Advances(Caller) \/ Ends(Caller)
  PROVE  msg = NoObj
<1> SUFFICES ASSUME msg # NoObj PROVE FALSE
  OBVIOUS
<1>1. Len(calls) = 1 /\ calls[1].done = Len(args) /\ calls[1].list = args
  BY DEF Sent, Frames
<1>2. Len(args) \in Nat
  BY LenProperties DEF TypeOK
<1>3. CASE Advances(Caller)
  <2>1. Caller = calls[1] /\ Caller.done + 1 \in 1..Len(Caller.list)
    BY <1>1, <1>3 DEF Advances
  <2>2. Len(args) + 1 \in 1..Len(args)
    BY <1>1, <2>1
  <2>3. QED
    BY <1>2, <2>2
<1>4. CASE Ends(Caller)
  BY <1>1, <1>4 DEF Ends
<1>5. QED
  BY <1>3, <1>4

\* The same values are closed after a step.
LEMMA ClosedStays ==
  ASSUME UNCHANGED <<heap, args>>, NEW S, Closed(S)'
  PROVE  Closed(S)
  BY DEF Closed

\* The calls that there were are about what they were.
LEMMA AdvancesKeeps ==
  ASSUME Advances(Caller), NEW k \in 1..Len(calls)
  PROVE  /\ calls'[k].kind = calls[k].kind /\ calls'[k].obj = calls[k].obj
         /\ calls'[k].index = calls[k].index /\ calls'[k].list = calls[k].list
         /\ k < Len(calls) => calls'[k].done = calls[k].done
         /\ k = Len(calls) => calls'[k].done = calls[k].done + 1
<1>1. Len(calls) \in Nat \ {0} /\ calls[k] \in Call
  BY DEF Advances
<1>2. CASE k = Len(calls)
  <2>1. calls'[k] = [calls[k] EXCEPT !.done = @ + 1]
    BY <1>2 DEF Advances
  <2>2. QED
    BY <1>1, <1>2, <2>1 DEF Call
<1>3. CASE k # Len(calls)
  <2>1. k \in 1..Len(calls) - 1
    <3> DEFINE n == Len(calls)
    <3>1. n \in Nat \ {0} /\ k \in 1..n /\ k # n
      BY <1>1, <1>3
    <3> HIDE DEF n
    <3>2. k \in 1..n - 1
      BY <3>1
    <3>3. QED
      BY <3>2 DEF n
  <2>2. calls'[k] = calls[k]
    BY <2>1 DEF Advances
  <2>3. QED
    BY <1>3, <2>2
<1>4. QED
  BY <1>2, <1>3

\* An item more that is no object.
LEMMA BuiltItem ==
  ASSUME Built, Rest, Advances(Caller), Len(calls') = Len(calls), NEW x, Added(builder', x)
  PROVE  Built'
<1>1. TypeOK /\ Frames /\ Weighed /\ Counts /\ Sent
  BY DEF Built
<1>2. UNCHANGED <<heap, args, msg>>
  BY DEF Rest
<1>3. builder \in Builder /\ builder' \in Builder /\ x \in Items
      /\ builder'.values = Append(builder.values, x)
      /\ builder'.count = builder.count + 1 /\ builder'.raised = builder.raised
  BY <1>1 DEF Added, TypeOK
<1>4. builder.values \in Seq(Items) /\ builder.count \in Int
  BY <1>3 DEF Builder
<1>5. TypeOK'
  BY <1>1, <1>2, <1>3 DEF TypeOK, Advances
<1>6. Frames'
  <2>1. Extends(builder.values, builder'.values)
    BY <1>3, <1>4, ExtendsIs
  <2>2. QED
    BY <1>1, <1>2, <2>1, FramesAdvance
<1>7. Weighed'
  BY <1>1, AddedCounts
<1>8. Counts'
  <2> SUFFICES ASSUME NEW S \in SUBSET Value, Closed(S)', ~ builder'.raised
               PROVE  Within(S)' /\ Tally'
    BY DEF Counts
  <2>1. Closed(S)
    BY <1>2, ClosedStays
  <2>2. Within(S) /\ Tally
    BY <1>1, <1>3, <2>1 DEF Counts
  <2>3. Tally'
    BY <1>3, <1>4, <2>2, TallyAdvances
  <2>4. Within(S)'
    <3> SUFFICES ASSUME NEW k \in 2..Len(calls') PROVE calls'[k].obj \in S
      BY DEF Within
    <3>1. calls'[k].obj = calls[k].obj /\ k \in 2..Len(calls)
      <4>1. k \in 1..Len(calls) /\ k \in 2..Len(calls)
        BY DEF Advances
      <4>2. QED
        BY <4>1, AdvancesKeeps
    <3>2. QED
      BY <2>2, <3>1 DEF Within
  <2>5. QED
    BY <2>3, <2>4
<1>9. Sent'
  BY <1>1, <1>2, NotSent DEF Sent
<1>10. QED
  BY <1>5, <1>6, <1>7, <1>8, <1>9 DEF Built

\* It is preserved when write_value begins with an object,
LEMMA BuiltObject ==
  ASSUME Built, NEW v \in Obj, WriteObject(v)
  PROVE  Built'
<1> DEFINE n == Len(builder.values)
           m == Len(calls)
           x == [type |-> heap[v].kind, parts |-> 0]
           f == Frame(heap[v].kind, v, n, Listed(heap[v]))
<1>1. TypeOK /\ Frames /\ Weighed /\ Counts /\ Sent
  BY DEF Built
<1>2. /\ Rest /\ Advances(Caller) /\ Len(calls') = m + 1
      /\ Caller.list[Caller.done + 1] = v
      /\ calls'[m + 1] = f /\ Nested(heap, builder'.values, calls'[m + 1])
      /\ Added(builder', x)
  BY <1>1, ObjectDoes
<1>3. UNCHANGED <<heap, args, msg>>
  BY <1>2 DEF Rest
<1> HIDE DEF x
<1>4. builder \in Builder /\ builder' \in Builder /\ x \in Items
      /\ builder'.values = Append(builder.values, x)
      /\ builder'.count = builder.count + 1 /\ builder'.raised = builder.raised
  BY <1>1, <1>2 DEF Added, TypeOK
<1>5. builder.values \in Seq(Items) /\ builder.count \in Int
  BY <1>4 DEF Builder
<1>6. calls'[m + 1].done = 0 /\ calls'[m + 1].obj = v
  BY <1>2 DEF Frame
<1> HIDE DEF f, n
<1>7. TypeOK'
  <2>1. Len(calls') # 0 /\ calls' \in Seq(Call)
    BY <1>2 DEF Advances
  <2>2. QED
    BY <1>1, <1>3, <1>4, <2>1 DEF TypeOK
<1>8. Frames'
  <2>1. Extends(builder.values, builder'.values)
    BY <1>4, <1>5, ExtendsIs
  <2>2. QED
    BY <1>1, <1>2, <1>3, <1>6, <2>1, FramesAdvance
<1>9. Weighed'
  BY <1>1, <1>2, AddedCounts
<1>10. Counts'
  <2> SUFFICES ASSUME NEW S \in SUBSET Value, Closed(S)', ~ builder'.raised
               PROVE  Within(S)' /\ Tally'
    BY DEF Counts
  <2>1. Closed(S)
    BY <1>3, ClosedStays
  <2>2. Within(S) /\ Tally
    BY <1>1, <1>4, <2>1 DEF Counts
  <2>3. Tally'
    BY <1>2, <1>4, <1>5, <1>6, <2>2, TallyAdvances
  <2>4. v \in S
    <3>1. m \in 1..m /\ Caller = calls[m] /\ Caller.done + 1 \in 1..Len(Caller.list)
      BY <1>2 DEF Advances
    <3>2. Caller.list[Caller.done + 1] \in S \cup Atom
      BY <1>1, <2>1, <2>2, <3>1, Reached
    <3>3. QED
      BY <1>2, <3>2, CodecAssumption
  <2>5. Within(S)'
    <3> SUFFICES ASSUME NEW k \in 2..Len(calls') PROVE calls'[k].obj \in S
      BY DEF Within
    <3>1. CASE k = m + 1
      BY <1>6, <2>4, <3>1
    <3>2. CASE k # m + 1
      <4>1. k \in 2..m
        BY <1>2, <3>2 DEF Advances
      <4>2. calls'[k].obj = calls[k].obj
        <5>1. k \in 1..m
          BY <1>2, <4>1 DEF Advances
        <5>2. QED
          BY <1>2, <5>1, AdvancesKeeps
      <4>3. QED
        BY <2>2, <4>1, <4>2 DEF Within
    <3>3. QED
      BY <3>1, <3>2
  <2>6. QED
    BY <2>3, <2>5
<1>11. Sent'
  BY <1>1, <1>2, <1>3, NotSent DEF Sent
<1>12. QED
  BY <1>7, <1>8, <1>9, <1>10, <1>11 DEF Built

\* A value that is not written, or the error.
LEMMA BuiltNothing ==
  ASSUME Built, Skip \/ \E v \in Obj : Raise(v)
  PROVE  Built'
<1>1. TypeOK /\ Frames /\ Weighed /\ Counts /\ Sent
  BY DEF Built
<1>2. /\ Rest /\ Advances(Caller) /\ Len(calls') = Len(calls)
      /\ builder' \in Builder /\ builder'.values = builder.values
      /\ builder'.bytes = builder.bytes
      /\ \/ builder'.raised = TRUE
         \/ Caller.list[Caller.done + 1] = Thread /\ builder' = builder
  <2>1. CASE Skip
    <3>1. builder \in Builder
      BY <1>1 DEF TypeOK
    <3>2. QED
      BY <1>1, <2>1, <3>1, SkipDoes
  <2>2. ASSUME NEW v \in Obj, Raise(v)
        PROVE  /\ Rest /\ Advances(Caller) /\ Len(calls') = Len(calls)
               /\ builder' \in Builder /\ builder'.values = builder.values
               /\ builder'.bytes = builder.bytes /\ builder'.raised = TRUE
    BY <1>1, <2>2, RaiseDoes
  <2>3. QED
    BY <2>1, <2>2
<1>3. UNCHANGED <<heap, args, msg>>
  BY <1>2 DEF Rest
<1>4. TypeOK'
  BY <1>1, <1>2, <1>3 DEF TypeOK, Advances
<1>5. Frames'
  <2>1. builder.values \in Seq(Items)
    BY <1>1 DEF TypeOK, Builder
  <2>2. Extends(builder.values, builder'.values)
    BY <1>2, <2>1, ExtendsIs
  <2>3. QED
    BY <1>1, <1>2, <1>3, <2>2, FramesAdvance
<1>6. Weighed'
  BY <1>1, <1>2 DEF Weighed
<1>7. Counts'
  <2> SUFFICES ASSUME NEW S \in SUBSET Value, Closed(S)', ~ builder'.raised PROVE FALSE
    BY DEF Counts
  <2>1. Closed(S)
    BY <1>3, ClosedStays
  <2>2. Within(S) /\ Caller.list[Caller.done + 1] = Thread
    BY <1>1, <1>2, <2>1 DEF Counts
  <2>3. /\ Len(calls) \in 1..Len(calls) /\ Caller = calls[Len(calls)]
        /\ Caller.done + 1 \in 1..Len(Caller.list)
    BY <1>2 DEF Advances
  <2>4. Caller.list[Caller.done + 1] # Thread
    BY <1>1, <2>1, <2>2, <2>3, Reached
  <2>5. QED
    BY <2>2, <2>4
<1>8. Sent'
  BY <1>1, <1>2, <1>3, NotSent DEF Sent
<1>9. QED
  BY <1>4, <1>5, <1>6, <1>7, <1>8 DEF Built

\* The calls below one that is over are what they were.
LEMMA FramesEnd ==
  ASSUME TypeOK, Frames, Ends(Caller), Extends(builder.values, builder'.values),
         UNCHANGED <<heap, args>>,
         \/ Len(calls') = Len(calls) - 1
         \/ /\ Len(calls') = Len(calls)
            /\ Nested(heap, builder'.values, calls'[Len(calls)])
            /\ calls'[Len(calls)].done = 0
  PROVE  Frames'
<1> DEFINE n == Len(calls)
<1>1. n \in Nat /\ n > 1 /\ calls' \in Seq(Call) /\ \A k \in 1..n - 1 : calls'[k] = calls[k]
  BY DEF Ends
<1>2. 1 \in 1..n - 1
  <2> HIDE DEF n
  <2>1. QED
    BY <1>1
<1>3. calls'[1].kind = "message" /\ calls'[1].index = -1 /\ calls'[1].list = args'
  BY <1>1, <1>2 DEF Frames
<1>4. ASSUME NEW k \in 1..n - 1
      PROVE  /\ calls'[k].done =< Len(calls'[k].list)
             /\ k # 1 => Nested(heap', builder'.values, calls'[k])
  <2>1. calls'[k] = calls[k] /\ k \in 1..n /\ (k # 1 => k \in 2..n)
    <3> HIDE DEF n
    <3>1. QED
      BY <1>1
  <2>2. calls[k].done =< Len(calls[k].list)
    BY <2>1 DEF Frames
  <2>3. ASSUME k # 1 PROVE Nested(heap', builder'.values, calls'[k])
    <3>1. Nested(heap, builder.values, calls[k])
      BY <2>1, <2>3 DEF Frames
    <3>2. QED
      BY <2>1, <3>1, NestedStays
  <2>4. QED
    BY <2>1, <2>2, <2>3
<1>5. CASE Len(calls') = n - 1
  <2>1. \A k \in 2..Len(calls') : k \in 1..n - 1 /\ k # 1
    BY <1>1, <1>5
  <2>2. QED
    BY <1>3, <1>4, <1>5, <2>1 DEF Frames
<1>6. CASE /\ Len(calls') = n /\ Nested(heap, builder'.values, calls'[n])
           /\ calls'[n].done = 0
  <2>1. \A k \in 1..n : k = n \/ k \in 1..n - 1
    <3> HIDE DEF n
    <3>1. QED
      BY <1>1
  <2>2. Len(calls'[n].list) \in Nat
    <3>1. calls'[n] \in Call
      BY <1>1, <1>6, ElementOfSeq
    <3>2. QED
      BY <3>1, LenProperties DEF Call
  <2>3. \A k \in 1..Len(calls') : calls'[k].done =< Len(calls'[k].list)
    BY <1>4, <1>6, <2>1, <2>2
  <2>4. \A k \in 2..Len(calls') : Nested(heap', builder'.values, calls'[k])
    <3> SUFFICES ASSUME NEW k \in 2..Len(calls') PROVE Nested(heap', builder'.values, calls'[k])
      OBVIOUS
    <3>1. k \in 1..n /\ k # 1
      BY <1>1, <1>6
    <3>2. CASE k = n
      BY <1>6, <3>2
    <3>3. CASE k # n
      BY <1>4, <2>1, <3>1, <3>3
    <3>4. QED
      BY <3>2, <3>3
  <2>5. QED
    BY <1>3, <2>3, <2>4 DEF Frames
<1>7. QED
  BY <1>5, <1>6

\* The counts when a call is over.
LEMMA CountsEnd ==
  ASSUME Built, Ends(Caller), UNCHANGED <<heap, args>>, builder' \in Builder,
         builder'.count = builder.count - Len(Caller.list), builder'.raised = builder.raised,
         \/ Len(calls') = Len(calls) - 1
         \/ Len(calls') = Len(calls) /\ calls'[Len(calls)].done = 0 /\ calls'[Len(calls)].obj = Caller.obj
  PROVE  Counts'
<1> SUFFICES ASSUME NEW S \in SUBSET Value, Closed(S)', ~ builder'.raised
             PROVE  Within(S)' /\ Tally'
  BY DEF Counts
<1>1. Closed(S)
  BY ClosedStays
<1>2. Within(S) /\ Tally /\ builder.count \in Int
  BY <1>1 DEF Built, Counts, TypeOK, Builder
<1>3. Tally'
  BY <1>2, TallyEnds
<1>4. Within(S)'
  <2> SUFFICES ASSUME NEW k \in 2..Len(calls') PROVE calls'[k].obj \in S
    BY DEF Within
  <2> DEFINE n == Len(calls)
  <2>1. n \in Nat /\ n > 1 /\ Caller = calls[n] /\ \A i \in 1..n - 1 : calls'[i] = calls[i]
    BY DEF Ends
  <2>2. k \in 2..n /\ (k # n => k \in 1..n - 1) /\ (k = n => calls'[n].obj = Caller.obj)
    BY <2>1
  <2>3. calls'[k].obj = calls[k].obj
    BY <2>1, <2>2
  <2>4. QED
    BY <1>2, <2>2, <2>3 DEF Within
<1>5. QED
  BY <1>3, <1>4

\* when it has written the parts of one,
LEMMA BuiltParts ==
  ASSUME Built, EndParts
  PROVE  Built'
<1> DEFINE o == heap[Caller.obj]
           f == Frame("meta", Caller.obj, Caller.index, <<o.meta>>)
<1>1. TypeOK /\ Frames /\ Weighed /\ Counts /\ Sent
  BY DEF Built
<1>2. /\ Rest /\ Ends(Caller) /\ builder' \in Builder
      /\ Filled(Caller, builder.values, builder'.values)
      /\ builder'.bytes = builder.bytes /\ builder'.count = builder.count - Len(Caller.list)
      /\ builder'.raised = builder.raised
      /\ \/ Len(calls') = Len(calls) - 1
         \/ Len(calls') = Len(calls) /\ calls'[Len(calls)] = f /\ o.meta \in Obj
  BY <1>1, PartsDo
<1>3. UNCHANGED <<heap, args, msg>>
  BY <1>2 DEF Rest
<1>4. TypeOK'
  <2>1. calls' \in Seq(Call) /\ Len(calls') # 0
    BY <1>2 DEF Ends
  <2>2. QED
    BY <1>1, <1>2, <1>3, <2>1 DEF TypeOK
<1>5. Extends(builder.values, builder'.values)
  BY <1>2 DEF Filled, Extends
<1>6. /\ f.done = 0 /\ f.obj = Caller.obj /\ f.kind = "meta" /\ f.index = Caller.index
      /\ f.list = <<o.meta>>
  BY DEF Frame
<1>7. o.meta \in Obj => Nested(heap, builder'.values, f)
  <2>1. Nested(heap, builder.values, Caller)
    BY <1>2 DEF Ends
  <2>2. Nested(heap, builder'.values, Caller)
    BY <1>5, <2>1, NestedStays
  <2> HIDE DEF f
  <2>3. QED
    BY <1>6, <2>2 DEF Nested
<1> HIDE DEF f
<1>8. Frames'
  BY <1>1, <1>2, <1>3, <1>5, <1>6, <1>7, FramesEnd
<1>9. Weighed'
  <2>1. builder.values \in Seq(Items) /\ builder'.values \in Seq(Items)
    BY <1>1, <1>2 DEF TypeOK, Builder
  <2>2. o.kind \in Kind
    <3>1. o \in Object
      BY <1>2 DEF Ends
    <3>2. QED
      BY <3>1, ListedIs
  <2>3. /\ Offsets(builder'.values)[Len(builder'.values)] = Offsets(builder.values)[Len(builder.values)]
        /\ References(builder'.values) = References(builder.values)
    BY <1>2, <2>1, <2>2, FilledSame
  <2>4. QED
    BY <1>1, <1>2, <2>3 DEF Weighed
<1>10. Counts'
  <2> HIDE DEF o
  <2>1. QED
    BY <1>2, <1>3, <1>6, CountsEnd
<1>11. Sent'
  BY <1>1, <1>2, <1>3, NotSent DEF Sent
<1>12. QED
  BY <1>4, <1>8, <1>9, <1>10, <1>11 DEF Built

\* when it has written a metatable,
LEMMA BuiltMeta ==
  ASSUME Built, EndMeta
  PROVE  Built'
<1>1. TypeOK /\ Frames /\ Weighed /\ Counts /\ Sent
  BY DEF Built
<1>2. /\ Rest /\ Ends(Caller) /\ builder' \in Builder /\ Len(Caller.list) = 1
      /\ builder'.values = builder.values
      /\ builder'.bytes = builder.bytes /\ builder'.count = builder.count - 1
      /\ builder'.raised = builder.raised /\ Len(calls') = Len(calls) - 1
  BY <1>1, MetaDoes
<1>3. UNCHANGED <<heap, args, msg>>
  BY <1>2 DEF Rest
<1>4. TypeOK'
  <2>1. calls' \in Seq(Call) /\ Len(calls') # 0
    BY <1>2 DEF Ends
  <2>2. QED
    BY <1>1, <1>2, <1>3, <2>1 DEF TypeOK
<1>5. Frames'
  <2>1. builder.values \in Seq(Items)
    BY <1>1 DEF TypeOK, Builder
  <2>2. Extends(builder.values, builder'.values)
    BY <1>2, <2>1, ExtendsIs
  <2>3. QED
    BY <1>1, <1>2, <1>3, <2>2, FramesEnd
<1>6. Weighed'
  BY <1>1, <1>2 DEF Weighed
<1>7. Counts'
  BY <1>2, <1>3, CountsEnd
<1>8. Sent'
  BY <1>1, <1>2, <1>3, NotSent DEF Sent
<1>9. QED
  BY <1>4, <1>5, <1>6, <1>7, <1>8 DEF Built

\* by msg_new,
LEMMA BuiltMade ==
  ASSUME Built, NewMessage
  PROVE  Built'
<1>1. TypeOK /\ Frames /\ Weighed /\ Counts
  BY DEF Built
<1>2. /\ UNCHANGED <<heap, args, builder, calls>>
      /\ msg' = [values |-> builder.values, size |-> builder.bytes, count |-> builder.count,
                 shared |-> builder.shared, flagged |-> builder.flagged]
      /\ ~ builder.raised /\ Caller.kind = "message" /\ Caller.done = Len(Caller.list)
  BY DEF NewMessage, Over
<1>3. Len(calls) = 1 /\ Caller = calls[1]
  <2>1. calls \in Seq(Call) /\ Len(calls) # 0
    BY <1>1 DEF TypeOK
  <2>2. Caller = calls[Len(calls)] /\ Len(calls) \in Nat \ {0}
    BY <2>1, Popped DEF Caller
  <2>3. ~ (Len(calls) \in 2..Len(calls))
    <3>1. SUFFICES ASSUME Len(calls) \in 2..Len(calls) PROVE FALSE
      OBVIOUS
    <3>2. Nested(heap, builder.values, calls[Len(calls)])
      BY <1>1, <3>1 DEF Frames
    <3>3. QED
      BY <1>2, <2>2, <3>2 DEF Nested
  <2>4. \A n \in Nat \ {0} : ~ (n \in 2..n) => n = 1
    OBVIOUS
  <2>5. QED
    BY <2>2, <2>3, <2>4
<1>4. Sent'
  BY <1>1, <1>2, <1>3 DEF Sent, Frames
<1>5. TypeOK' /\ Frames' /\ Weighed'
  BY <1>1, <1>2 DEF TypeOK, Frames, Weighed
<1>6. Counts'
  BY <1>1, <1>2 DEF Counts, Closed, Within, Tally
<1>7. QED
  BY <1>4, <1>5, <1>6 DEF Built

\* by whatever decodes,
LEMMA BuiltSame ==
  ASSUME Built, UNCHANGED <<heap, args, builder, calls, msg>>
  PROVE  Built'
<1>1. TypeOK /\ Frames /\ Weighed /\ Counts /\ Sent
  BY DEF Built
<1>2. TypeOK' /\ Frames' /\ Weighed' /\ Sent'
  BY <1>1 DEF TypeOK, Frames, Weighed, Sent
<1>3. Counts'
  BY <1>1 DEF Counts, Closed, Within, Tally
<1>4. QED
  BY <1>2, <1>3 DEF Built

\* and so by every step.
LEMMA BuiltStep == Built /\ [Next]_vars => Built'
<1> SUFFICES ASSUME Built, [Next]_vars PROVE Built'
  OBVIOUS
<1>1. TypeOK
  BY DEF Built
<1>2. CASE Skip
  BY <1>2, BuiltNothing
<1>3. ASSUME NEW v \in Atom, WriteAtom(v) PROVE Built'
  BY <1>1, <1>3, AtomDoes, BuiltItem
<1>4. ASSUME NEW v \in Obj, WriteReference(v) PROVE Built'
  <2>1. PICK n \in Nat : Added(builder', [type |-> "reference", ref |-> n])
    BY <1>1, <1>4, ReferenceDoes
  <2>2. Rest /\ Advances(Caller) /\ Len(calls') = Len(calls)
    BY <1>1, <1>4, ReferenceDoes
  <2>3. QED
    BY <2>1, <2>2, BuiltItem
<1>5. ASSUME NEW v \in Obj, Raise(v) PROVE Built'
  BY <1>5, BuiltNothing
<1>6. ASSUME NEW v \in Obj, WriteObject(v) PROVE Built'
  BY <1>6, BuiltObject
<1>7. CASE EndParts
  BY <1>7, BuiltParts
<1>8. CASE EndMeta
  BY <1>8, BuiltMeta
<1>9. CASE NewMessage
  BY <1>9, BuiltMade
<1>10. CASE NothingMore \/ ReadAtom \/ ReadReference \/ ReadObject \/ EndObject \/ DecodeEnd
  <2>1. UNCHANGED <<heap, args, builder, calls, msg>>
    BY <1>10 DEF NothingMore, ReadAtom, ReadReference, ReadObject, EndObject, DecodeEnd, Due, Decoding
  <2>2. QED
    BY <2>1, BuiltSame
<1>11. CASE UNCHANGED vars
  BY <1>11, BuiltSame DEF vars
<1>12. QED
  BY <1>2, <1>3, <1>4, <1>5, <1>6, <1>7, <1>8, <1>9, <1>10, <1>11 DEF Next

\* The objects and the calls are what the code takes them for.
THEOREM Invariant == Spec => []Built
<1>1. Init => Built
  BY BuiltInit
<1>2. Built /\ [Next]_vars => Built'
  BY BuiltStep
<1>3. QED
  BY <1>1, <1>2, PTL DEF Spec

\* The bytes of a message are those counted while its items were pushed, and
\* four more for each reference (lc_pushreference in lc_message.c).
THEOREM Sizes == Spec => []SizeOffByReferences
<1>1. ASSUME Built PROVE SizeOffByReferences
  <2> SUFFICES ASSUME msg # NoObj
               PROVE  SizeOf(msg.values) = msg.size + 4 * References(msg.values)
    BY DEF SizeOffByReferences
  <2>1. msg.values = builder.values /\ msg.size = builder.bytes
    BY <1>1 DEF Built, Sent
  <2>2. QED
    BY <1>1, <2>1 DEF Built, Weighed, SizeOf
<1>2. QED
  BY <1>1, Invariant, PTL

\* However the arguments are nested and shared, count is their number when
\* nothing of a type that is not written is reached from them.
THEOREM Counted == Spec => []CountIsArguments
<1>1. ASSUME Built PROVE CountIsArguments
  <2> SUFFICES ASSUME msg # NoObj, Supported PROVE msg.count = Len(args)
    BY DEF CountIsArguments
  <2>1. /\ msg.count = builder.count /\ Len(calls) = 1 /\ calls[1].done = Len(args)
        /\ ~ builder.raised
    BY <1>1 DEF Built, Sent
  <2>2. PICK S \in SUBSET (Value \ {Thread}) : Closed(S)
    BY DEF Supported, Closed
  <2>3. Tally
    BY <1>1, <2>1, <2>2 DEF Built, Counts
  <2>4. PICK c \in [Nat -> Int] : c[0] = 0 /\ builder.count = c[1] /\ c[1] = c[0] + calls[1].done
    BY <2>1, <2>3 DEF Tally
  <2>5. Len(args) \in Nat
    BY <1>1, LenProperties DEF Built, TypeOK
  <2>6. QED
    BY <2>1, <2>4, <2>5
<1>2. QED
  BY <1>1, Invariant, PTL

-----------------------------------------------------------------------------
(* The message written.  H[p] are the calls when p items had been pushed, and *)
(* O[p] is the object of item p.  The parameters are the heap, the arguments, *)
(* the builder and its calls.                                                 *)

\* Item x, of index p, stands for value v.
Stands(x, v, p, O) ==
  \/ x.type = "atom" /\ v \in Atom /\ x.val = v
  \/ x.type = "reference" /\ v \in Obj /\ x.ref \in 0..p - 1 /\ O[x.ref] = v
  \/ x.type \in Kind /\ v \in Obj /\ O[p] = v

\* A call that has written its values.
Done(c) == c.done = Len(c.list)

\* Calls h become calls g with item x: those above q are over, q has written
\* one more value, which is x, and an object is a new call.
Adds(hp, h, x, p, O, g) ==
  \E q \in 1..Len(h) :
    /\ \A k \in q + 1..Len(h) : Done(h[k])
    /\ h[q].done < Len(h[q].list)
    /\ Stands(x, h[q].list[h[q].done + 1], p, O)
    /\ Len(g) = IF x.type \in Kind THEN q + 1 ELSE q
    /\ \A k \in 1..q - 1 : g[k] = h[k]
    /\ g[q] = [h[q] EXCEPT !.done = @ + 1]
    /\ x.type \in Kind => g[q + 1] = Frame(x.type, O[p], p, Listed(hp[O[p]]))

\* Calls cs are what is left of h when some that are over have returned.
Left(cs, h) ==
  /\ Len(cs) \in 1..Len(h)
  /\ \A k \in 1..Len(cs) : cs[k] = h[k]
  /\ \A k \in Len(cs) + 1..Len(h) : Done(h[k])

\* The calls when p items had been pushed.
Past(hp, a, vs, O, p, h) ==
  /\ Len(h) # 0 /\ h[1].index = -1 /\ h[1].list = a
  /\ \A k \in 2..Len(h) :
       /\ h[k].index \in 0..p - 1 /\ vs[h[k].index + 1].type \in Kind
       /\ h[k].obj = O[h[k].index] /\ h[k].list = Listed(hp[h[k].obj])

\* The item of an object that is complete has its parts.
Whole(hp, vs, cs, O) ==
  \A p \in 0..Len(vs) - 1 : vs[p + 1].type \in Kind =>
    /\ O[p] \in Obj /\ vs[p + 1].type = hp[O[p]].kind
    /\ vs[p + 1].parts = Len(hp[O[p]].parts) \/ \E k \in 2..Len(cs) : cs[k].index = p

\* References are to objects before, which are marked.
Refers(vs, shared) ==
  \A p \in 0..Len(vs) - 1 : vs[p + 1].type = "reference" =>
    vs[p + 1].ref \in shared \cap (0..p - 1) /\ vs[vs[p + 1].ref + 1].type = "table"

\* A table is in the table of references once, and nothing else is.
Mapped(vs, refmap, O) ==
  /\ \A r \in refmap : r[2] \in 0..Len(vs) - 1 /\ vs[r[2] + 1].type = "table" /\ O[r[2]] = r[1]
  /\ \A p \in 0..Len(vs) - 1 : vs[p + 1].type = "table" => <<O[p], p>> \in refmap
  /\ \A q, r \in refmap : q[1] = r[1] => q = r

\* Each item was added by the call that had it next; the calls there are now are
\* what is left after the last one.
Story(hp, a, b, cs, H, O) ==
  /\ H \in [Nat -> Seq(Call)] /\ O \in [Nat -> Obj \cup {NoObj}]
  /\ H[0] = <<Frame("message", NoObj, -1, a)>>
  /\ \A p \in 0..Len(b.values) - 1 : Adds(hp, H[p], b.values[p + 1], p, O, H[p + 1])
  /\ \A p \in 0..Len(b.values) : Past(hp, a, b.values, O, p, H[p])
  /\ Left(cs, H[Len(b.values)])
  /\ Whole(hp, b.values, cs, O) /\ Refers(b.values, b.shared) /\ Mapped(b.values, b.refmap, O)

\* No metatable has been written.
Plain ==
  /\ builder.flagged = {} /\ ~ builder.raised
  /\ \A k \in 1..Len(calls) : calls[k].kind # "meta"

\* The items tell how they were written, by calls H about objects O.
Told == Plain /\ Supported => \E H, O : Story(heap, args, builder, calls, H, O)

\* A step with the same items and other objects later.
LEMMA AddsStays ==
  ASSUME NEW hp, NEW h, NEW g, NEW x, NEW y, NEW p \in Nat, NEW O, NEW Q,
         Adds(hp, h, x, p, O, g), \A i \in 0..p : O[i] = Q[i],
         x = y \/ (x.type = y.type /\ x.type \in Kind)
  PROVE  Adds(hp, h, y, p, Q, g)
<1>1. x.type = y.type /\ (x.type \notin Kind => x = y) /\ O[p] = Q[p]
  OBVIOUS
<1>2. PICK q \in 1..Len(h) :
        /\ \A k \in q + 1..Len(h) : Done(h[k])
        /\ h[q].done < Len(h[q].list)
        /\ Stands(x, h[q].list[h[q].done + 1], p, O)
        /\ Len(g) = IF x.type \in Kind THEN q + 1 ELSE q
        /\ \A k \in 1..q - 1 : g[k] = h[k]
        /\ g[q] = [h[q] EXCEPT !.done = @ + 1]
        /\ x.type \in Kind => g[q + 1] = Frame(x.type, O[p], p, Listed(hp[O[p]]))
  BY DEF Adds
<1> DEFINE v == h[q].list[h[q].done + 1]
<1> HIDE DEF v
<1>3. Stands(x, v, p, O)
  BY <1>2 DEF v
<1>4. Stands(y, v, p, Q)
  <2>1. CASE x.type = "atom"
    BY <1>1, <1>3, <2>1 DEF Stands, Kind
  <2>2. CASE x.type = "reference"
    <3>1. x = y /\ v \in Obj /\ x.ref \in 0..p - 1 /\ O[x.ref] = v
      BY <1>1, <1>3, <2>2 DEF Stands, Kind
    <3>2. x.ref \in 0..p
      BY <3>1
    <3>3. Q[y.ref] = v
      BY <3>1, <3>2
    <3>4. QED
      BY <2>2, <3>1, <3>3 DEF Stands
  <2>3. CASE x.type \in Kind
    <3>1. v \in Obj /\ O[p] = v
      BY <1>3, <2>3 DEF Stands, Kind
    <3>2. QED
      BY <1>1, <2>3, <3>1 DEF Stands
  <2>4. QED
    BY <1>3, <2>1, <2>2, <2>3 DEF Stands
<1>5. Stands(y, h[q].list[h[q].done + 1], p, Q)
  BY <1>4 DEF v
<1>6. /\ Len(g) = IF y.type \in Kind THEN q + 1 ELSE q
      /\ y.type \in Kind => g[q + 1] = Frame(y.type, Q[p], p, Listed(hp[Q[p]]))
  BY <1>1, <1>2
<1>7. QED
  BY <1>2, <1>5, <1>6 DEF Adds

\* The past is not changed by later items and objects.
LEMMA PastStays ==
  ASSUME NEW hp, NEW a, NEW vs, NEW ws, NEW p \in Nat, NEW O, NEW Q, NEW h,
         Past(hp, a, vs, O, p, h), \A i \in 0..p - 1 : O[i] = Q[i],
         \A i \in 0..p - 1 : vs[i + 1].type = ws[i + 1].type
  PROVE  Past(hp, a, ws, Q, p, h)
<1>1. Len(h) # 0 /\ h[1].index = -1 /\ h[1].list = a
  BY DEF Past
<1>2. ASSUME NEW k \in 2..Len(h)
      PROVE  /\ h[k].index \in 0..p - 1 /\ ws[h[k].index + 1].type \in Kind
             /\ h[k].obj = Q[h[k].index] /\ h[k].list = Listed(hp[h[k].obj])
  <2>1. /\ h[k].index \in 0..p - 1 /\ vs[h[k].index + 1].type \in Kind
        /\ h[k].obj = O[h[k].index] /\ h[k].list = Listed(hp[h[k].obj])
    BY DEF Past
  <2>2. QED
    BY <2>1
<1>3. QED
  BY <1>1, <1>2 DEF Past

\* The story goes on with an item.
LEMMA StoryAdds ==
  ASSUME TypeOK, NEW H, NEW O, Story(heap, args, builder, calls, H, O),
         NEW x, Added(builder', x), calls' \in Seq(Call),
         NEW Q \in [Nat -> Obj \cup {NoObj}],
         \A i \in 0..Len(builder.values) - 1 : Q[i] = O[i],
         Adds(heap, H[Len(builder.values)], x, Len(builder.values), Q, calls'),
         Past(heap, args, builder'.values, Q, Len(builder.values) + 1, calls'),
         Whole(heap, builder'.values, calls', Q), Refers(builder'.values, builder'.shared),
         Mapped(builder'.values, builder'.refmap, Q)
  PROVE  \E G : Story(heap, args, builder', calls', G, Q)
<1> DEFINE v == builder.values
           n == Len(v)
           w == builder'.values
           G == [H EXCEPT ![n + 1] = calls']
<1>1. /\ n \in Nat /\ Len(w) = n + 1 /\ w[n + 1] = x
      /\ \A i \in 1..n : w[i] = v[i]
  <2>1. v \in Seq(Items) /\ x \in Items /\ w = Append(v, x)
    BY DEF TypeOK, Builder, Added
  <2>2. QED
    BY <2>1, Pushed
<1>2. H \in [Nat -> Seq(Call)] /\ H[0] = <<Frame("message", NoObj, -1, args)>>
  BY DEF Story
<1>3. G \in [Nat -> Seq(Call)] /\ G[n + 1] = calls' /\ \A i \in 0..n : G[i] = H[i]
  <2>1. n \in Nat
    BY <1>1
  <2> HIDE DEF n
  <2>2. \A i \in 0..n : i # n + 1 /\ i \in Nat
    BY <2>1
  <2>3. QED
    BY <1>2, <2>1, <2>2
<1> HIDE DEF G
<1>4. ASSUME NEW p \in 0..Len(w) - 1 PROVE Adds(heap, G[p], w[p + 1], p, Q, G[p + 1])
  <2>1. CASE p = n
    <3>1. G[p] = H[n] /\ w[p + 1] = x /\ G[p + 1] = calls'
      <4> HIDE DEF n, w
      <4>1. n \in 0..n
        BY <1>1
      <4>2. QED
        BY <1>1, <1>3, <2>1, <4>1
    <3>2. QED
      BY <2>1, <3>1
  <2>2. CASE p # n
    <3>1. p \in 0..n - 1 /\ p + 1 \in 1..n /\ p + 1 \in 0..n /\ p \in 0..n /\ p \in Nat
      <4> HIDE DEF n, w
      <4>1. QED
        BY <1>1, <2>2
    <3>2. Adds(heap, H[p], v[p + 1], p, O, H[p + 1])
      BY <3>1 DEF Story
    <3>3. \A i \in 0..p : O[i] = Q[i]
      <4>1. \A i \in 0..p : i \in 0..n - 1
        <5> HIDE DEF n
        <5>1. QED
          BY <3>1, <1>1
      <4>2. QED
        BY <4>1
    <3>4. G[p] = H[p] /\ G[p + 1] = H[p + 1] /\ w[p + 1] = v[p + 1]
      BY <1>1, <1>3, <3>1
    <3> HIDE DEF v, n, w
    <3>5. Adds(heap, H[p], v[p + 1], p, Q, H[p + 1])
      BY <3>1, <3>2, <3>3, AddsStays
    <3>6. QED
      BY <3>4, <3>5
  <2>3. QED
    BY <2>1, <2>2
<1>5. ASSUME NEW p \in 0..Len(w) PROVE Past(heap, args, w, Q, p, G[p])
  <2>1. CASE p = n + 1
    BY <1>3, <2>1
  <2>2. CASE p # n + 1
    <3>1. p \in 0..n /\ p \in Nat /\ \A i \in 0..p - 1 : i \in 0..n - 1 /\ i + 1 \in 1..n
      <4> HIDE DEF n, w
      <4>1. QED
        BY <1>1, <2>2
    <3>2. Past(heap, args, v, O, p, H[p]) /\ G[p] = H[p]
      BY <3>1, <1>3 DEF Story
    <3>3. \A i \in 0..p - 1 : O[i] = Q[i] /\ v[i + 1].type = w[i + 1].type
      BY <1>1, <3>1
    <3> HIDE DEF v, n, w
    <3>4. QED
      BY <3>1, <3>2, <3>3, PastStays
  <2>3. QED
    BY <2>1, <2>2
<1>6. Left(calls', G[Len(w)])
  <2>1. G[Len(w)] = calls' /\ Len(calls') \in Nat /\ Len(calls') # 0
    BY <1>1, <1>3, LenProperties DEF Past
  <2>2. \A m \in Nat : m # 0 => m \in 1..m /\ m + 1..m = {}
    OBVIOUS
  <2>3. QED
    BY <2>1, <2>2 DEF Left
<1>7. G[0] = <<Frame("message", NoObj, -1, args)>>
  <2> HIDE DEF n
  <2>1. 0 \in 0..n
    BY <1>1
  <2>2. QED
    BY <1>2, <1>3, <2>1
<1> HIDE DEF w
<1>8. Story(heap, args, builder', calls', G, Q)
  BY <1>3, <1>4, <1>5, <1>6, <1>7 DEF Story, w
<1>9. QED
  BY <1>8

\* The calls go on from what was left of them.
LEMMA AddsCalls ==
  ASSUME Advances(Caller), NEW h, Left(calls, h), NEW x, NEW n, NEW Q,
         Stands(x, Caller.list[Caller.done + 1], n, Q),
         x.type \notin Kind => Len(calls') = Len(calls),
         x.type \in Kind => /\ Len(calls') = Len(calls) + 1
                            /\ calls'[Len(calls) + 1] = Frame(x.type, Q[n], n, Listed(heap[Q[n]]))
  PROVE  Adds(heap, h, x, n, Q, calls')
<1> DEFINE q == Len(calls)
<1>1. /\ q \in 1..Len(h) /\ \A k \in 1..q : calls[k] = h[k]
      /\ \A k \in q + 1..Len(h) : Done(h[k])
  BY DEF Left
<1>2. /\ q \in Nat \ {0} /\ Caller = calls[q] /\ calls'[q] = [Caller EXCEPT !.done = @ + 1]
      /\ Caller.done \in Nat /\ Caller.done + 1 \in 1..Len(Caller.list)
      /\ \A k \in 1..q - 1 : calls'[k] = calls[k]
  BY DEF Advances
<1> HIDE DEF q
<1>3. q \in 1..q /\ \A k \in 1..q - 1 : k \in 1..q
  BY <1>2
<1>4. h[q] = Caller
  BY <1>1, <1>2, <1>3
<1>5. Caller.done < Len(Caller.list)
  BY <1>2
<1>6. \A k \in 1..q - 1 : calls'[k] = h[k]
  BY <1>1, <1>2, <1>3
<1>7. /\ Len(calls') = IF x.type \in Kind THEN q + 1 ELSE q
      /\ x.type \in Kind => calls'[q + 1] = Frame(x.type, Q[n], n, Listed(heap[Q[n]]))
  BY DEF q
<1>8. /\ h[q].done < Len(h[q].list) /\ Stands(x, h[q].list[h[q].done + 1], n, Q)
      /\ calls'[q] = [h[q] EXCEPT !.done = @ + 1]
  BY <1>2, <1>4, <1>5
<1>9. QED
  BY <1>1, <1>6, <1>7, <1>8 DEF Adds

\* The calls after an item are about objects among the items.
LEMMA PastCalls ==
  ASSUME Advances(Caller), NEW h, Left(calls, h), NEW n \in Nat, NEW vs, NEW ws, NEW O, NEW Q,
         Past(heap, args, vs, O, n, h),
         \A i \in 0..n - 1 : Q[i] = O[i], \A i \in 1..n : ws[i].type = vs[i].type,
         \/ Len(calls') = Len(calls)
         \/ /\ Len(calls') = Len(calls) + 1 /\ ws[n + 1].type \in Kind
            /\ calls'[Len(calls) + 1] = Frame(ws[n + 1].type, Q[n], n, Listed(heap[Q[n]]))
  PROVE  Past(heap, args, ws, Q, n + 1, calls')
<1> DEFINE q == Len(calls)
<1>1. q \in 1..Len(h) /\ \A k \in 1..q : calls[k] = h[k]
  BY DEF Left
<1>2. q \in Nat \ {0} /\ Len(calls') \in {q, q + 1}
  BY DEF Advances
<1>3. ASSUME NEW k \in 1..q
      PROVE  calls'[k].index = h[k].index /\ calls'[k].obj = h[k].obj /\ calls'[k].list = h[k].list
  BY <1>1, AdvancesKeeps
<1>4. 1 \in 1..q /\ Len(calls') # 0
  <2> HIDE DEF q
  <2>1. QED
    BY <1>2
<1>5. calls'[1].index = -1 /\ calls'[1].list = args
  BY <1>3, <1>4 DEF Past
<1>6. ASSUME NEW k \in 2..Len(calls')
      PROVE  /\ calls'[k].index \in 0..(n + 1) - 1 /\ ws[calls'[k].index + 1].type \in Kind
             /\ calls'[k].obj = Q[calls'[k].index]
             /\ calls'[k].list = Listed(heap[calls'[k].obj])
  <2>1. CASE k \in 2..q
    <3>1. k \in 1..q /\ k \in 2..Len(h)
      <4> HIDE DEF q
      <4>1. QED
        BY <1>1, <1>2, <2>1
    <3> DEFINE i == h[k].index
    <3>2. /\ i \in 0..n - 1 /\ vs[i + 1].type \in Kind
          /\ h[k].obj = O[i] /\ h[k].list = Listed(heap[h[k].obj])
      BY <3>1 DEF Past
    <3>3. calls'[k].index = i /\ calls'[k].obj = h[k].obj /\ calls'[k].list = h[k].list
      BY <1>3, <3>1
    <3> HIDE DEF i, q
    <3>4. i \in 0..(n + 1) - 1 /\ i + 1 \in 1..n
      BY <3>2
    <3>5. ws[i + 1].type \in Kind /\ Q[i] = O[i]
      BY <3>2, <3>4
    <3>6. QED
      BY <3>2, <3>3, <3>4, <3>5
  <2>2. CASE k = q + 1 /\ Len(calls') = q + 1
    <3>1. /\ calls'[k] = Frame(ws[n + 1].type, Q[n], n, Listed(heap[Q[n]]))
          /\ ws[n + 1].type \in Kind
      BY <2>2, <1>2
    <3>2. calls'[k].index = n /\ calls'[k].obj = Q[n] /\ calls'[k].list = Listed(heap[Q[n]])
      BY <3>1 DEF Frame
    <3>3. n \in 0..(n + 1) - 1
      OBVIOUS
    <3>4. QED
      BY <3>1, <3>2, <3>3
  <2>3. k \in 2..q \/ (k = q + 1 /\ Len(calls') = q + 1)
    <3> DEFINE m == Len(calls')
    <3>1. m \in {q, q + 1} /\ k \in 2..m /\ q \in Nat
      BY <1>2
    <3> HIDE DEF m, q
    <3>2. k \in 2..q \/ (k = q + 1 /\ m = q + 1)
      BY <3>1
    <3>3. QED
      BY <3>2 DEF m
  <2>4. QED
    BY <2>1, <2>2, <2>3
<1>7. QED
  BY <1>4, <1>5, <1>6 DEF Past

\* An item that is no object.
LEMMA StoryItem ==
  ASSUME TypeOK, NEW H, NEW O, Story(heap, args, builder, calls, H, O),
         Advances(Caller), Len(calls') = Len(calls),
         NEW x, Added(builder', x), x.type \notin Kind,
         Stands(x, Caller.list[Caller.done + 1], Len(builder.values), O),
         builder'.refmap = builder.refmap, builder.shared \subseteq builder'.shared,
         x.type = "reference" =>
           /\ x.ref \in builder'.shared \cap (0..Len(builder.values) - 1)
           /\ builder.values[x.ref + 1].type = "table"
  PROVE  \E G : Story(heap, args, builder', calls', G, O)
<1> DEFINE v == builder.values
           n == Len(v)
           w == builder'.values
<1>1. /\ n \in Nat /\ Len(w) = n + 1 /\ w[n + 1] = x
      /\ \A i \in 1..n : w[i] = v[i]
  <2>1. v \in Seq(Items) /\ x \in Items /\ w = Append(v, x)
    BY DEF TypeOK, Builder, Added
  <2>2. QED
    BY <2>1, Pushed
<1>2. /\ O \in [Nat -> Obj \cup {NoObj}] /\ Left(calls, H[n]) /\ Past(heap, args, v, O, n, H[n])
      /\ Whole(heap, v, calls, O) /\ Refers(v, builder.shared) /\ Mapped(v, builder.refmap, O)
  <2>1. n \in 0..n
    <3> HIDE DEF n
    <3>1. QED
      BY <1>1
  <2>2. QED
    BY <2>1 DEF Story
<1>3. Adds(heap, H[n], x, n, O, calls')
  BY <1>2, AddsCalls
<1>4. Past(heap, args, w, O, n + 1, calls')
  <2>1. \A i \in 1..n : w[i].type = v[i].type
    BY <1>1
  <2> HIDE DEF v, n, w
  <2>2. QED
    BY <1>1, <1>2, <2>1, PastCalls
<1>5. ASSUME NEW p \in 0..Len(w) - 1
      PROVE  \/ p = n /\ w[p + 1] = x
             \/ p \in 0..n - 1 /\ w[p + 1] = v[p + 1]
  <2> HIDE DEF v, n, w
  <2>1. p = n \/ (p \in 0..n - 1 /\ p + 1 \in 1..n)
    BY <1>1
  <2>2. QED
    BY <1>1, <2>1
<1>6. Whole(heap, w, calls', O)
  <2> SUFFICES ASSUME NEW p \in 0..Len(w) - 1, w[p + 1].type \in Kind
               PROVE  /\ O[p] \in Obj /\ w[p + 1].type = heap[O[p]].kind
                      /\ \/ w[p + 1].parts = Len(heap[O[p]].parts)
                         \/ \E k \in 2..Len(calls') : calls'[k].index = p
    BY DEF Whole
  <2>1. p \in 0..n - 1 /\ w[p + 1] = v[p + 1]
    BY <1>5
  <2>2. /\ O[p] \in Obj /\ v[p + 1].type = heap[O[p]].kind
        /\ v[p + 1].parts = Len(heap[O[p]].parts) \/ \E k \in 2..Len(calls) : calls[k].index = p
    BY <1>2, <2>1 DEF Whole
  <2>3. \A k \in 2..Len(calls) : calls'[k].index = calls[k].index
    <3>1. \A k \in 2..Len(calls) : k \in 1..Len(calls)
      BY DEF Advances
    <3>2. QED
      BY <3>1, AdvancesKeeps
  <2>4. QED
    BY <2>1, <2>2, <2>3
<1>7. Refers(w, builder'.shared)
  <2> SUFFICES ASSUME NEW p \in 0..Len(w) - 1, w[p + 1].type = "reference"
               PROVE  /\ w[p + 1].ref \in builder'.shared \cap (0..p - 1)
                      /\ w[w[p + 1].ref + 1].type = "table"
    BY DEF Refers
  <2> DEFINE r == w[p + 1].ref
  <2>1. r \in builder'.shared \cap (0..p - 1) /\ r \in 0..n - 1 /\ v[r + 1].type = "table"
    <3>1. CASE p = n /\ w[p + 1] = x
      BY <3>1
    <3>2. CASE p \in 0..n - 1 /\ w[p + 1] = v[p + 1]
      <4>1. r \in builder'.shared \cap (0..p - 1) /\ v[r + 1].type = "table"
        BY <1>2, <3>2 DEF Refers
      <4>2. r \in 0..n - 1
        <5> HIDE DEF r, n
        <5>1. QED
          BY <1>1, <3>2, <4>1
      <4>3. QED
        BY <4>1, <4>2
    <3>3. QED
      BY <1>5, <3>1, <3>2
  <2> HIDE DEF r, n, v, w
  <2>2. r + 1 \in 1..n
    BY <1>1, <2>1
  <2>3. w[r + 1].type = "table"
    BY <1>1, <2>1, <2>2
  <2>4. QED
    BY <2>1, <2>3 DEF r
<1>8. Mapped(w, builder'.refmap, O)
  <2>1. ASSUME NEW r \in builder'.refmap
        PROVE  r[2] \in 0..Len(w) - 1 /\ w[r[2] + 1].type = "table" /\ O[r[2]] = r[1]
    <3>1. r[2] \in 0..n - 1 /\ v[r[2] + 1].type = "table" /\ O[r[2]] = r[1]
      BY <1>2 DEF Mapped
    <3> HIDE DEF n, v, w
    <3>2. r[2] \in 0..Len(w) - 1 /\ r[2] + 1 \in 1..n
      BY <1>1, <3>1
    <3>3. QED
      BY <1>1, <3>1, <3>2
  <2>2. ASSUME NEW p \in 0..Len(w) - 1, w[p + 1].type = "table"
        PROVE  <<O[p], p>> \in builder'.refmap
    <3>1. "table" \in Kind
      BY DEF Kind
    <3>2. p \in 0..n - 1 /\ w[p + 1] = v[p + 1]
      BY <1>5, <2>2, <3>1
    <3>3. QED
      BY <1>2, <2>2, <3>2 DEF Mapped
  <2>3. QED
    BY <1>2, <2>1, <2>2 DEF Mapped
<1>9. \A i \in 0..Len(builder.values) - 1 : O[i] = O[i]
  OBVIOUS
<1>10. calls' \in Seq(Call)
  BY DEF Advances
<1>11. QED
  BY <1>2, <1>3, <1>4, <1>6, <1>7, <1>8, <1>9, <1>10, StoryAdds

\* A new object.
LEMMA StoryObject ==
  ASSUME TypeOK, NEW H, NEW O, Story(heap, args, builder, calls, H, O),
         NEW o \in Obj, WriteObject(o)
  PROVE  \E G, Q : Story(heap, args, builder', calls', G, Q)
<1> DEFINE v == builder.values
           n == Len(v)
           m == Len(calls)
           w == builder'.values
           kind == heap[o].kind
           x == [type |-> kind, parts |-> 0]
           Q == [O EXCEPT ![n] = o]
<1>1. /\ Advances(Caller) /\ Len(calls') = m + 1
      /\ Caller.list[Caller.done + 1] = o /\ kind \in Kind /\ n \in Nat
      /\ calls'[m + 1] = Frame(kind, o, n, Listed(heap[o]))
      /\ Added(builder', x)
      /\ builder'.shared = builder.shared
      /\ kind # "table" => builder'.refmap = builder.refmap
      /\ kind = "table" => ~ Seen(builder, o) /\ builder'.refmap = builder.refmap \cup {<<o, n>>}
  BY ObjectDoes
<1>2. /\ Len(w) = n + 1 /\ w[n + 1] = x
      /\ \A i \in 1..n : w[i] = v[i]
  <2> HIDE DEF x
  <2>1. v \in Seq(Items) /\ x \in Items /\ w = Append(v, x)
    BY <1>1 DEF TypeOK, Builder, Added
  <2>2. QED
    BY <2>1, Pushed
<1>3. /\ O \in [Nat -> Obj \cup {NoObj}] /\ Left(calls, H[n]) /\ Past(heap, args, v, O, n, H[n])
      /\ Whole(heap, v, calls, O) /\ Refers(v, builder.shared) /\ Mapped(v, builder.refmap, O)
  <2>1. n \in 0..n
    <3> HIDE DEF n
    <3>1. QED
      BY <1>1
  <2>2. QED
    BY <2>1 DEF Story
<1>4. Q \in [Nat -> Obj \cup {NoObj}] /\ Q[n] = o /\ \A i \in 0..n - 1 : Q[i] = O[i]
  <2> HIDE DEF n
  <2>1. \A i \in 0..n - 1 : i \in Nat /\ i # n
    BY <1>1
  <2>2. QED
    BY <1>1, <1>3, <2>1
<1>5. x.type = kind
  OBVIOUS
<1> HIDE DEF Q, x
<1>6. Adds(heap, H[n], x, n, Q, calls')
  <2>1. Stands(x, Caller.list[Caller.done + 1], n, Q)
    BY <1>1, <1>4, <1>5 DEF Stands
  <2>2. calls'[Len(calls) + 1] = Frame(x.type, Q[n], n, Listed(heap[Q[n]]))
    BY <1>1, <1>4, <1>5
  <2> HIDE DEF kind, n
  <2>3. QED
    BY <1>1, <1>3, <1>5, <2>1, <2>2, AddsCalls
<1>7. Past(heap, args, w, Q, n + 1, calls')
  <2>1. \A i \in 1..n : w[i].type = v[i].type
    BY <1>2
  <2>2. w[n + 1].type \in Kind /\ calls'[Len(calls) + 1] = Frame(w[n + 1].type, Q[n], n, Listed(heap[Q[n]]))
    BY <1>1, <1>2, <1>4, <1>5
  <2> HIDE DEF v, n, w, kind
  <2>3. QED
    BY <1>1, <1>3, <1>4, <2>1, <2>2, PastCalls, SMTT(30)
<1>8. ASSUME NEW p \in 0..Len(w) - 1
      PROVE  \/ p = n /\ w[p + 1] = x
             \/ p \in 0..n - 1 /\ w[p + 1] = v[p + 1] /\ Q[p] = O[p]
  <2> HIDE DEF v, n, w
  <2>1. p = n \/ (p \in 0..n - 1 /\ p + 1 \in 1..n)
    BY <1>1, <1>2
  <2>2. QED
    BY <1>2, <1>4, <2>1
<1>9. Whole(heap, w, calls', Q)
  <2> SUFFICES ASSUME NEW p \in 0..Len(w) - 1, w[p + 1].type \in Kind
               PROVE  /\ Q[p] \in Obj /\ w[p + 1].type = heap[Q[p]].kind
                      /\ \/ w[p + 1].parts = Len(heap[Q[p]].parts)
                         \/ \E k \in 2..Len(calls') : calls'[k].index = p
    BY DEF Whole
  <2>1. CASE p = n /\ w[p + 1] = x
    <3>1. m + 1 \in 2..Len(calls')
      <4>1. m \in Nat \ {0}
        BY <1>1 DEF Advances
      <4> HIDE DEF m
      <4>2. QED
        BY <1>1, <4>1
    <3>2. calls'[m + 1].index = n
      BY <1>1 DEF Frame
    <3>3. QED
      BY <1>4, <1>5, <2>1, <3>1, <3>2
  <2>2. CASE p \in 0..n - 1 /\ w[p + 1] = v[p + 1] /\ Q[p] = O[p]
    <3>1. /\ O[p] \in Obj /\ v[p + 1].type = heap[O[p]].kind
          /\ v[p + 1].parts = Len(heap[O[p]].parts) \/ \E k \in 2..Len(calls) : calls[k].index = p
      BY <1>3, <2>2 DEF Whole
    <3>2. \A k \in 2..Len(calls) : calls'[k].index = calls[k].index /\ k \in 2..Len(calls')
      <4>1. Len(calls) \in Nat
        BY <1>1 DEF Advances
      <4>2. \A k \in 2..Len(calls) : k \in 1..Len(calls) /\ k \in 2..Len(calls')
        BY <1>1, <4>1
      <4>3. QED
        BY <1>1, <4>2, AdvancesKeeps
    <3>3. QED
      BY <2>2, <3>1, <3>2
  <2>3. QED
    BY <1>8, <2>1, <2>2
<1>10. Refers(w, builder'.shared)
  <2> SUFFICES ASSUME NEW p \in 0..Len(w) - 1, w[p + 1].type = "reference"
               PROVE  /\ w[p + 1].ref \in builder.shared \cap (0..p - 1)
                      /\ w[w[p + 1].ref + 1].type = "table"
    BY <1>1 DEF Refers
  <2>1. x.type # "reference"
    BY <1>1, <1>5 DEF Kind
  <2>2. p \in 0..n - 1 /\ w[p + 1] = v[p + 1]
    BY <1>8, <2>1
  <2> DEFINE r == w[p + 1].ref
  <2>3. r \in builder.shared \cap (0..p - 1) /\ v[r + 1].type = "table"
    BY <1>3, <2>2 DEF Refers
  <2> HIDE DEF r, n, v, w
  <2>4. r + 1 \in 1..n
    BY <1>1, <2>2, <2>3
  <2>5. w[r + 1].type = "table"
    BY <1>2, <2>3, <2>4
  <2>6. QED
    BY <2>3, <2>5 DEF r
<1>11. Mapped(w, builder'.refmap, Q)
  <2>1. ASSUME NEW r \in builder.refmap
        PROVE  r[2] \in 0..Len(w) - 1 /\ w[r[2] + 1].type = "table" /\ Q[r[2]] = r[1]
    <3>1. r[2] \in 0..n - 1 /\ v[r[2] + 1].type = "table" /\ O[r[2]] = r[1]
      BY <1>3 DEF Mapped
    <3> HIDE DEF n, v, w
    <3>2. r[2] \in 0..Len(w) - 1 /\ r[2] + 1 \in 1..n
      BY <1>1, <1>2, <3>1
    <3>3. QED
      BY <1>2, <1>4, <3>1, <3>2
  <2>2. \A p \in 0..n - 1 : w[p + 1] = v[p + 1] /\ w[p + 1].type = "table" => <<Q[p], p>> \in builder.refmap
    BY <1>3, <1>4 DEF Mapped
  <2>3. \A q, r \in builder.refmap : q[1] = r[1] => q = r
    BY <1>3 DEF Mapped
  <2>4. CASE kind # "table"
    <3>1. builder'.refmap = builder.refmap
      BY <1>1, <2>4
    <3>2. ASSUME NEW p \in 0..Len(w) - 1, w[p + 1].type = "table" PROVE <<Q[p], p>> \in builder'.refmap
      BY <1>5, <1>8, <2>2, <2>4, <3>1, <3>2
    <3>3. QED
      BY <2>1, <2>3, <3>1, <3>2 DEF Mapped
  <2>5. CASE kind = "table"
    <3> DEFINE e == <<o, n>>
    <3>1. builder'.refmap = builder.refmap \cup {e} /\ ~ Seen(builder, o)
      BY <1>1, <2>5
    <3>2. e[1] = o /\ e[2] = n
      OBVIOUS
    <3>3. \A r \in builder.refmap : r[1] # o
      BY <3>1 DEF Seen
    <3>4. e[2] \in 0..Len(w) - 1 /\ w[e[2] + 1].type = "table" /\ Q[e[2]] = e[1]
      <4> HIDE DEF n, w, e
      <4>1. n \in 0..Len(w) - 1 /\ w[n + 1].type = "table"
        BY <1>1, <1>2, <1>5, <2>5
      <4>2. QED
        BY <1>4, <3>2, <4>1
    <3>5. ASSUME NEW p \in 0..Len(w) - 1, w[p + 1].type = "table" PROVE <<Q[p], p>> \in builder'.refmap
      <4>1. CASE p = n
        BY <1>4, <3>1, <4>1
      <4>2. CASE p # n
        BY <1>8, <2>2, <3>1, <3>5, <4>2
      <4>3. QED
        BY <4>1, <4>2
    <3> HIDE DEF e
    <3>6. \A q, r \in builder'.refmap : q[1] = r[1] => q = r
      BY <2>3, <3>1, <3>2, <3>3
    <3>7. \A r \in builder'.refmap :
            r[2] \in 0..Len(w) - 1 /\ w[r[2] + 1].type = "table" /\ Q[r[2]] = r[1]
      BY <2>1, <3>1, <3>4
    <3>8. QED
      BY <3>5, <3>6, <3>7 DEF Mapped
  <2>6. QED
    BY <2>4, <2>5
<1>12. calls' \in Seq(Call)
  BY <1>1 DEF Advances
<1>13. \E G : Story(heap, args, builder', calls', G, Q)
  BY <1>1, <1>3, <1>4, <1>6, <1>7, <1>9, <1>10, <1>11, <1>12, StoryAdds
<1>14. QED
  BY <1>13

\* An object is complete.
LEMMA StoryParts ==
  ASSUME TypeOK, Frames, NEW H, NEW O, Story(heap, args, builder, calls, H, O),
         EndParts, Len(calls') = Len(calls) - 1
  PROVE  Story(heap, args, builder', calls', H, O)
<1> DEFINE v == builder.values
           n == Len(v)
           m == Len(calls)
           w == builder'.values
           c == Caller
<1>1. /\ Ends(c) /\ Filled(c, v, w) /\ c.kind = heap[c.obj].kind
      /\ builder'.refmap = builder.refmap /\ builder'.shared = builder.shared
  BY PartsDo
<1>2. /\ n \in Nat /\ Len(w) = n /\ c.index + 1 \in 1..n
      /\ \A i \in 1..n : v[i].type = w[i].type /\ (i # c.index + 1 => v[i] = w[i])
      /\ w[c.index + 1] = [type |-> heap[c.obj].kind, parts |-> Len(heap[c.obj].parts)]
  BY <1>1 DEF Filled
<1>3. /\ m \in Nat /\ m > 1 /\ c = calls[m] /\ c \in Call /\ Done(c) /\ heap[c.obj] \in Object
      /\ c.index \in Int /\ \A k \in 1..m - 1 : calls'[k] = calls[k]
  BY <1>1 DEF Ends, Done, Call
<1>4. heap[c.obj].kind \in Kind
  BY <1>3, ListedIs
<1>5. /\ H \in [Nat -> Seq(Call)] /\ O \in [Nat -> Obj \cup {NoObj}]
      /\ H[0] = <<Frame("message", NoObj, -1, args)>>
      /\ \A p \in 0..n - 1 : Adds(heap, H[p], v[p + 1], p, O, H[p + 1])
      /\ \A p \in 0..n : Past(heap, args, v, O, p, H[p])
  BY DEF Story
<1>6. Left(calls, H[n]) /\ Whole(heap, v, calls, O) /\ Refers(v, builder.shared) /\ Mapped(v, builder.refmap, O)
  BY DEF Story
<1> HIDE DEF v, n, w, c, m
<1>7. ASSUME NEW p \in 0..n - 1 PROVE Adds(heap, H[p], w[p + 1], p, O, H[p + 1])
  <2>1. p + 1 \in 1..n /\ p \in Nat
    BY <1>2
  <2>2. v[p + 1] = w[p + 1] \/ (v[p + 1].type = w[p + 1].type /\ v[p + 1].type \in Kind)
    <3>1. CASE p + 1 = c.index + 1
      <4>1. w[p + 1].type = heap[c.obj].kind
        BY <1>2, <3>1
      <4>2. QED
        BY <1>2, <1>4, <2>1, <4>1
    <3>2. CASE p + 1 # c.index + 1
      BY <1>2, <2>1, <3>2
    <3>3. QED
      BY <3>1, <3>2
  <2>3. Adds(heap, H[p], v[p + 1], p, O, H[p + 1])
    BY <1>5
  <2>4. \A i \in 0..p : O[i] = O[i]
    OBVIOUS
  <2>5. QED
    BY <2>1, <2>2, <2>3, <2>4, AddsStays
<1>8. ASSUME NEW p \in 0..n PROVE Past(heap, args, w, O, p, H[p])
  <2>1. Past(heap, args, v, O, p, H[p]) /\ p \in Nat
    BY <1>2, <1>5
  <2>2. \A i \in 0..p - 1 : O[i] = O[i] /\ v[i + 1].type = w[i + 1].type
    <3>1. \A i \in 0..p - 1 : i + 1 \in 1..n
      BY <1>2
    <3>2. QED
      BY <1>2, <3>1
  <2>3. QED
    BY <2>1, <2>2, PastStays
<1> DEFINE h == H[n]
<1>9. /\ m \in 1..Len(h) /\ \A k \in 1..m : calls[k] = h[k]
      /\ \A k \in m + 1..Len(h) : Done(h[k])
  BY <1>6 DEF Left, m
<1>10. h[m] = c /\ m \in 2..Len(h)
  <2> HIDE DEF h
  <2>1. m \in 1..m /\ m \in 2..Len(h)
    BY <1>3, <1>9
  <2>2. QED
    BY <1>3, <1>9, <2>1
<1>11. Left(calls', h)
  <2> HIDE DEF h
  <2>1. Len(calls') = m - 1 /\ m - 1 \in 1..Len(h)
    BY <1>3, <1>9 DEF m
  <2>2. \A k \in 1..m - 1 : calls'[k] = h[k]
    <3>1. \A k \in 1..m - 1 : k \in 1..m
      BY <1>3
    <3>2. QED
      BY <1>3, <1>9, <3>1
  <2>3. \A k \in (m - 1) + 1..Len(h) : Done(h[k])
    <3>1. \A k \in (m - 1) + 1..Len(h) : k = m \/ k \in m + 1..Len(h)
      BY <1>3
    <3>2. QED
      BY <1>3, <1>9, <1>10, <3>1
  <2>4. QED
    BY <2>1, <2>2, <2>3 DEF Left
<1>12. O[c.index] = c.obj
  <2>1. n \in 0..n
    BY <1>2
  <2>2. Past(heap, args, v, O, n, h)
    BY <1>5, <2>1
  <2> HIDE DEF h
  <2>3. h[m].obj = O[h[m].index]
    BY <1>10, <2>2 DEF Past
  <2>4. QED
    BY <1>10, <2>3
<1>13. Whole(heap, w, calls', O)
  <2> SUFFICES ASSUME NEW p \in 0..Len(w) - 1, w[p + 1].type \in Kind
               PROVE  /\ O[p] \in Obj /\ w[p + 1].type = heap[O[p]].kind
                      /\ \/ w[p + 1].parts = Len(heap[O[p]].parts)
                         \/ \E k \in 2..Len(calls') : calls'[k].index = p
    BY DEF Whole
  <2>1. p \in 0..Len(v) - 1 /\ p + 1 \in 1..n /\ v[p + 1].type = w[p + 1].type
    <3>1. p \in 0..n - 1 /\ p + 1 \in 1..n
      BY <1>2
    <3>2. QED
      BY <1>2, <3>1 DEF n
  <2>2. /\ O[p] \in Obj /\ v[p + 1].type = heap[O[p]].kind
        /\ v[p + 1].parts = Len(heap[O[p]].parts) \/ \E k \in 2..m : calls[k].index = p
    BY <1>6, <2>1 DEF Whole, m
  <2>3. CASE p = c.index
    <3>1. w[p + 1].parts = Len(heap[c.obj].parts)
      BY <1>2, <2>3
    <3>2. QED
      BY <1>12, <2>1, <2>2, <2>3, <3>1
  <2>4. CASE p # c.index
    <3>1. p + 1 # c.index + 1
      BY <1>3, <2>4
    <3>2. w[p + 1] = v[p + 1]
      BY <1>2, <2>1, <3>1
    <3>3. ASSUME NEW k \in 2..m, calls[k].index = p
          PROVE  k \in 2..Len(calls') /\ calls'[k].index = p
      <4>1. k # m
        BY <1>3, <2>4, <3>3
      <4>2. k \in 2..m - 1 /\ k \in 1..m - 1
        BY <1>3, <4>1
      <4>3. Len(calls') = m - 1
        BY DEF m
      <4>4. QED
        BY <1>3, <3>3, <4>2, <4>3
    <3>4. QED
      BY <2>1, <2>2, <3>2, <3>3
  <2>5. QED
    BY <2>3, <2>4
<1>14. Refers(w, builder'.shared)
  <2> SUFFICES ASSUME NEW p \in 0..Len(w) - 1, w[p + 1].type = "reference"
               PROVE  /\ w[p + 1].ref \in builder.shared \cap (0..p - 1)
                      /\ w[w[p + 1].ref + 1].type = "table"
    BY <1>1 DEF Refers
  <2>1. p \in 0..Len(v) - 1 /\ p + 1 \in 1..n /\ v[p + 1].type = w[p + 1].type
    <3>1. p \in 0..n - 1 /\ p + 1 \in 1..n
      BY <1>2
    <3>2. QED
      BY <1>2, <3>1 DEF n
  <2>2. p + 1 # c.index + 1
    <3>1. w[c.index + 1].type = heap[c.obj].kind
      BY <1>2
    <3>2. QED
      BY <1>4, <3>1 DEF Kind
  <2>3. w[p + 1] = v[p + 1]
    BY <1>2, <2>1, <2>2
  <2> DEFINE r == w[p + 1].ref
  <2>4. r \in builder.shared \cap (0..p - 1) /\ v[r + 1].type = "table"
    BY <1>6, <2>1, <2>3 DEF Refers
  <2> HIDE DEF r
  <2>5. r + 1 \in 1..n
    BY <1>2, <2>1, <2>4
  <2>6. w[r + 1].type = "table"
    BY <1>2, <2>4, <2>5
  <2>7. QED
    BY <2>4, <2>6 DEF r
<1>15. Mapped(w, builder'.refmap, O)
  <2>1. ASSUME NEW r \in builder.refmap
        PROVE  r[2] \in 0..Len(w) - 1 /\ w[r[2] + 1].type = "table" /\ O[r[2]] = r[1]
    <3>1. r[2] \in 0..n - 1 /\ v[r[2] + 1].type = "table" /\ O[r[2]] = r[1]
      BY <1>6 DEF Mapped, n
    <3>2. r[2] + 1 \in 1..n
      BY <1>2, <3>1
    <3>3. QED
      BY <1>2, <3>1, <3>2
  <2>2. ASSUME NEW p \in 0..Len(w) - 1, w[p + 1].type = "table"
        PROVE  <<O[p], p>> \in builder.refmap
    <3>1. p \in 0..n - 1 /\ p + 1 \in 1..n
      BY <1>2
    <3>2. v[p + 1].type = "table"
      BY <1>2, <2>2, <3>1
    <3>3. QED
      BY <1>6, <3>1, <3>2 DEF Mapped, n
  <2>3. QED
    BY <1>1, <1>6, <2>1, <2>2 DEF Mapped
<1>16. /\ \A p \in 0..Len(w) - 1 : Adds(heap, H[p], w[p + 1], p, O, H[p + 1])
       /\ \A p \in 0..Len(w) : Past(heap, args, w, O, p, H[p])
       /\ Left(calls', H[Len(w)])
  BY <1>2, <1>7, <1>8, <1>11
<1>17. QED
  BY <1>5, <1>13, <1>14, <1>15, <1>16 DEF Story, w

\* A metatable once written is not taken back.
LEMMA PlainBack ==
  ASSUME Built, [Next]_vars, Plain'
  PROVE  Plain /\ ~ EndMeta /\ (EndParts => Len(calls') = Len(calls) - 1)
<1>1. TypeOK /\ Frames
  BY DEF Built
<1>2. builder'.flagged = {} /\ ~ builder'.raised /\ \A k \in 1..Len(calls') : calls'[k].kind # "meta"
  BY DEF Plain
<1>3. ASSUME Advances(Caller), builder.flagged = {}, ~ builder.raised PROVE Plain
  <2> SUFFICES ASSUME NEW k \in 1..Len(calls) PROVE calls[k].kind # "meta"
    BY <1>3 DEF Plain
  <2>1. calls'[k].kind = calls[k].kind
    BY <1>3, AdvancesKeeps
  <2>2. k \in 1..Len(calls')
    <3> DEFINE i == Len(calls)
               j == Len(calls')
    <3>1. i \in Nat /\ j >= i /\ j \in Nat /\ k \in 1..i
      BY <1>3, LenProperties DEF Advances
    <3> HIDE DEF i, j
    <3>2. k \in 1..j
      BY <3>1
    <3>3. QED
      BY <3>2 DEF j
  <2>3. QED
    BY <1>2, <2>1, <2>2
<1>4. ASSUME EndMeta PROVE FALSE
  BY <1>1, <1>2, <1>4, MetaDoes
<1>5. ASSUME EndParts PROVE Plain /\ Len(calls') = Len(calls) - 1
  <2> DEFINE f == Frame("meta", Caller.obj, Caller.index, <<heap[Caller.obj].meta>>)
             m == Len(calls)
  <2>1. /\ Ends(Caller) /\ Caller.kind = heap[Caller.obj].kind
        /\ builder'.flagged = builder.flagged /\ builder'.raised = builder.raised
        /\ Len(calls') = m - 1 \/ (Len(calls') = m /\ calls'[m] = f)
    BY <1>1, <1>5, PartsDo
  <2>2. m \in Nat /\ m > 1 /\ Caller = calls[m] /\ \A k \in 1..m - 1 : calls'[k] = calls[k]
    BY <2>1 DEF Ends
  <2>3. f.kind = "meta"
    BY DEF Frame
  <2>4. Len(calls') = m - 1
    <3>1. m \in 1..m
      BY <2>2
    <3> HIDE DEF f
    <3>2. QED
      BY <1>2, <2>1, <2>3, <3>1
  <2>5. Caller.kind # "meta"
    <3>1. heap[Caller.obj] \in Object
      BY <2>1 DEF Ends
    <3>2. heap[Caller.obj].kind \in Kind
      BY <3>1, ListedIs
    <3>3. QED
      BY <2>1, <3>2 DEF Kind
  <2>6. ASSUME NEW k \in 1..m PROVE calls[k].kind # "meta"
    <3>1. CASE k = m
      BY <2>2, <2>5, <3>1
    <3>2. CASE k # m
      <4>1. k \in 1..m - 1
        BY <2>2, <3>2
      <4>2. QED
        BY <1>2, <2>2, <2>4, <4>1
    <3>3. QED
      BY <3>1, <3>2
  <2>7. QED
    BY <1>2, <2>1, <2>4, <2>6 DEF Plain
<1>6. CASE Skip
  BY <1>1, <1>2, <1>3, <1>4, <1>5, <1>6, SkipDoes
<1>7. ASSUME NEW v \in Atom, WriteAtom(v) PROVE Plain
  <2>1. Added(builder', [type |-> "atom", val |-> v]) /\ Advances(Caller)
    BY <1>1, <1>7, AtomDoes
  <2>2. QED
    BY <1>2, <1>3, <2>1 DEF Added
<1>8. ASSUME NEW v \in Obj, WriteReference(v) PROVE Plain
  <2>1. Advances(Caller) /\ \E n \in Nat : Added(builder', [type |-> "reference", ref |-> n])
    BY <1>1, <1>8, ReferenceDoes
  <2>2. QED
    BY <1>2, <1>3, <2>1 DEF Added
<1>9. ASSUME NEW v \in Obj, Raise(v) PROVE FALSE
  BY <1>1, <1>2, <1>9, RaiseDoes
<1>10. ASSUME NEW v \in Obj, WriteObject(v) PROVE Plain
  <2>1. Advances(Caller) /\ Added(builder', [type |-> heap[v].kind, parts |-> 0])
    BY <1>1, <1>10, ObjectDoes
  <2>2. QED
    BY <1>2, <1>3, <2>1 DEF Added
<1>11. CASE \/ NewMessage \/ NothingMore \/ ReadAtom \/ ReadReference \/ ReadObject
            \/ EndObject \/ DecodeEnd \/ UNCHANGED vars
  <2>1. builder' = builder /\ calls' = calls
    BY <1>11 DEF NewMessage, NothingMore, ReadAtom, ReadReference, ReadObject, EndObject,
         DecodeEnd, Due, Decoding, vars
  <2>2. Plain
    BY <1>2, <2>1 DEF Plain
  <2>3. QED
    BY <1>4, <1>5, <2>2
<1>12. Plain
  BY <1>4, <1>5, <1>6, <1>7, <1>8, <1>9, <1>10, <1>11 DEF Next
<1>13. QED
  BY <1>4, <1>5, <1>12

\* Before the first item there is one call.
LEMMA ToldInit == Init => Told
<1> SUFFICES ASSUME Init PROVE Told
  OBVIOUS
<1> DEFINE f == Frame("message", NoObj, -1, args)
           H == [p \in Nat |-> <<f>>]
           O == [p \in Nat |-> NoObj]
<1>1. args \in Seq(Value) /\ builder = NewBuilder /\ calls = <<f>>
  BY CodecAssumption DEF Init
<1>2. builder.values = <<>> /\ builder.refmap = {} /\ Len(builder.values) = 0
  BY <1>1 DEF NewBuilder
<1>3. f \in Call /\ f.index = -1 /\ f.list = args
  BY <1>1 DEF Frame, Call
<1> HIDE DEF f
<1>4. H \in [Nat -> Seq(Call)] /\ O \in [Nat -> Obj \cup {NoObj}] /\ H[0] = <<f>>
  <2>1. <<f>> \in Seq(Call)
    BY <1>3
  <2>2. QED
    BY <2>1
<1>5. Len(<<f>>) = 1 /\ <<f>>[1] = f
  OBVIOUS
<1> HIDE DEF H, O
<1>6. 0..0 - 1 = {} /\ 0..0 = {0} /\ 2..1 = {} /\ 1..1 = {1} /\ 1 + 1..1 = {}
  OBVIOUS
<1>7. Past(heap, args, builder.values, O, 0, H[0])
  BY <1>3, <1>4, <1>5, <1>6 DEF Past
<1>8. Left(calls, H[0])
  BY <1>1, <1>4, <1>5, <1>6 DEF Left
<1>9. /\ Whole(heap, builder.values, calls, O) /\ Refers(builder.values, builder.shared)
      /\ Mapped(builder.values, builder.refmap, O)
  BY <1>2, <1>6 DEF Whole, Refers, Mapped
<1>10. Story(heap, args, builder, calls, H, O)
  BY <1>2, <1>4, <1>6, <1>7, <1>8, <1>9 DEF Story, f
<1>11. QED
  BY <1>10 DEF Told

\* Every step goes on with the story.
LEMMA ToldStep ==
  ASSUME Built, Told, [Next]_vars
  PROVE  Told'
<1> SUFFICES ASSUME Plain', Supported'
             PROVE  \E G, Q : Story(heap', args', builder', calls', G, Q)
  BY DEF Told
<1>1. TypeOK /\ Frames /\ Counts
  BY DEF Built
<1>2. Plain /\ ~ EndMeta /\ (EndParts => Len(calls') = Len(calls) - 1)
  BY PlainBack
<1>3. heap' = heap /\ args' = args
  BY DEF Next, vars, Skip, WriteAtom, WriteReference, Raise, WriteObject, EndParts, EndMeta,
         NewMessage, NothingMore, ReadAtom, ReadReference, ReadObject, EndObject, DecodeEnd,
         Write, Over, Due, Decoding
<1>4. Supported
  BY <1>3 DEF Supported
<1>5. PICK H, O : Story(heap, args, builder, calls, H, O)
  BY <1>2, <1>4 DEF Told
<1> DEFINE n == Len(builder.values)
<1> SUFFICES \E G, Q : Story(heap, args, builder', calls', G, Q)
  BY <1>3
<1>6. CASE Skip
  <2>1. PICK S \in SUBSET (Value \ {Thread}) : Closed(S)
    BY <1>4 DEF Supported, Closed
  <2>2. Within(S)
    BY <1>1, <1>2, <2>1 DEF Counts, Plain
  <2>3. Advances(Caller) /\ Caller.list[Caller.done + 1] = Thread
    BY <1>1, <1>6, SkipDoes
  <2>4. /\ Len(calls) \in 1..Len(calls) /\ Caller = calls[Len(calls)]
        /\ Caller.done + 1 \in 1..Len(Caller.list)
    BY <2>3 DEF Advances
  <2>5. Caller.list[Caller.done + 1] # Thread
    BY <1>1, <2>1, <2>2, <2>4, Reached
  <2>6. QED
    BY <2>3, <2>5
<1>7. ASSUME NEW v \in Atom, WriteAtom(v)
      PROVE  \E G, Q : Story(heap, args, builder', calls', G, Q)
  <2> DEFINE x == [type |-> "atom", val |-> v]
  <2>1. /\ Advances(Caller) /\ Len(calls') = Len(calls) /\ Caller.list[Caller.done + 1] = v
        /\ Added(builder', x)
        /\ builder'.refmap = builder.refmap /\ builder'.shared = builder.shared
    BY <1>1, <1>7, AtomDoes
  <2>2. x.type = "atom" /\ x.val = v
    OBVIOUS
  <2> HIDE DEF x
  <2>3. Stands(x, Caller.list[Caller.done + 1], n, O)
    BY <2>1, <2>2 DEF Stands
  <2>4. x.type \notin Kind /\ x.type # "reference"
    BY <2>2 DEF Kind
  <2>5. \E G : Story(heap, args, builder', calls', G, O)
    BY <1>1, <1>5, <2>1, <2>3, <2>4, StoryItem
  <2>6. QED
    BY <2>5
<1>8. ASSUME NEW v \in Obj, WriteReference(v)
      PROVE  \E G, Q : Story(heap, args, builder', calls', G, Q)
  <2>1. /\ Advances(Caller) /\ Len(calls') = Len(calls) /\ Caller.list[Caller.done + 1] = v
    BY <1>1, <1>8, ReferenceDoes
  <2>2. PICK r \in Nat :
          /\ <<v, r>> \in builder.refmap
          /\ Added(builder', [type |-> "reference", ref |-> r])
          /\ builder'.refmap = builder.refmap /\ builder'.shared = builder.shared \cup {r}
    BY <1>1, <1>8, ReferenceDoes
  <2> DEFINE x == [type |-> "reference", ref |-> r]
  <2>3. x.type = "reference" /\ x.ref = r /\ Added(builder', x)
    BY <2>2
  <2> HIDE DEF x
  <2>4. r \in 0..n - 1 /\ builder.values[r + 1].type = "table" /\ O[r] = v
    <3>1. Mapped(builder.values, builder.refmap, O)
      BY <1>5 DEF Story
    <3> DEFINE e == <<v, r>>
    <3>2. e \in builder.refmap /\ e[1] = v /\ e[2] = r
      BY <2>2
    <3> HIDE DEF e
    <3>3. e[2] \in 0..n - 1 /\ builder.values[e[2] + 1].type = "table" /\ O[e[2]] = e[1]
      BY <3>1, <3>2 DEF Mapped
    <3>4. QED
      BY <3>2, <3>3
  <2>5. Stands(x, Caller.list[Caller.done + 1], n, O)
    BY <2>1, <2>3, <2>4 DEF Stands
  <2>6. x.type \notin Kind
    BY <2>3 DEF Kind
  <2>7. x.ref \in builder'.shared \cap (0..n - 1) /\ builder.values[x.ref + 1].type = "table"
    BY <2>2, <2>3, <2>4
  <2>8. builder'.refmap = builder.refmap /\ builder.shared \subseteq builder'.shared
    BY <2>2
  <2>9. \E G : Story(heap, args, builder', calls', G, O)
    BY <1>1, <1>5, <2>1, <2>3, <2>5, <2>6, <2>7, <2>8, StoryItem
  <2>10. QED
    BY <2>9
<1>9. ASSUME NEW v \in Obj, Raise(v) PROVE FALSE
  <2>1. builder'.raised = TRUE
    BY <1>1, <1>9, RaiseDoes
  <2>2. QED
    BY <2>1 DEF Plain
<1>10. ASSUME NEW v \in Obj, WriteObject(v)
       PROVE  \E G, Q : Story(heap, args, builder', calls', G, Q)
  BY <1>1, <1>5, <1>10, StoryObject
<1>11. CASE EndParts
  <2>1. Story(heap, args, builder', calls', H, O)
    BY <1>1, <1>2, <1>5, <1>11, StoryParts
  <2>2. QED
    BY <2>1
<1>12. CASE \/ NewMessage \/ NothingMore \/ ReadAtom \/ ReadReference \/ ReadObject
            \/ EndObject \/ DecodeEnd \/ UNCHANGED vars
  <2>1. builder' = builder /\ calls' = calls
    BY <1>12 DEF NewMessage, NothingMore, ReadAtom, ReadReference, ReadObject, EndObject,
         DecodeEnd, Due, Decoding, vars
  <2>2. Story(heap, args, builder', calls', H, O)
    BY <1>5, <2>1
  <2>3. QED
    BY <2>2
<1>13. QED
  BY <1>2, <1>6, <1>7, <1>8, <1>9, <1>10, <1>11, <1>12 DEF Next

-----------------------------------------------------------------------------
(* The message read.  When n of its items have been read, the calls of        *)
(* decode_value are those there were of write_value when n had been pushed,   *)
(* and the stack holds what they had written.                                 *)

\* Values, calls and objects of the receiver, and the reader.
Datum == [type : {"atom"}, val : Atom] \cup [type : {"object"}, id : Nat]

ReadCall == [index : Int, base : Nat, got : Nat]

Made == [id : Nat, kind : Kind, parts : Seq(Datum)]

Reader == [next : Nat, stack : Seq(Datum), objects : Seq(Made), calls : Seq(ReadCall),
           fault : BOOLEAN, more : BOOLEAN]

\* d stands for v, which is an object among the first n items for one.
Like(vs, O, n, v, d) ==
  IF v \in Obj
    THEN d.type = "object" /\ d.id \in 0..n - 1 /\ vs[d.id + 1].type \in Kind /\ O[d.id] = v
    ELSE d.type = "atom" /\ d.val = v

\* The calls of decode_value are those of write_value.
Synced(d, h) ==
  /\ Len(d.calls) \in 1..Len(h)
  /\ \A k \in 1..Len(d.calls) : d.calls[k].index = h[k].index /\ d.calls[k].got = h[k].done
  /\ \A k \in Len(d.calls) + 1..Len(h) : Done(h[k])

\* What a call has decoded lies above what those below it have.
Stacked(d) ==
  /\ d.calls[1].base = 0
  /\ \A k \in 1..Len(d.calls) - 1 : d.calls[k + 1].base = d.calls[k].base + d.calls[k].got
  /\ \A k, l \in 1..Len(d.calls) : k < l => d.calls[k].base + d.calls[k].got =< d.calls[l].base
  /\ Len(d.stack) = d.calls[Len(d.calls)].base + d.calls[Len(d.calls)].got

\* What lies on the stack for a call are the values that it was to decode.
Holds(vs, O, d, h) ==
  \A k \in 1..Len(d.calls) : \A j \in 1..d.calls[k].got :
    Like(vs, O, d.next, h[k].list[j], d.stack[d.calls[k].base + j])

\* Object r is a copy.
Copies(hp, vs, O, n, r) ==
  /\ r.id \in 0..n - 1 /\ vs[r.id + 1].type \in Kind /\ r.kind = vs[r.id + 1].type
  /\ Len(r.parts) = Len(Listed(hp[O[r.id]]))
  /\ \A j \in 1..Len(r.parts) : Like(vs, O, n, Listed(hp[O[r.id]])[j], r.parts[j])

\* The objects made are copies.
Makes(hp, vs, O, d) == \A i \in 1..Len(d.objects) : Copies(hp, vs, O, d.next, d.objects[i])

\* Each item makes one object.
Unique(d) ==
  /\ \A i, j \in 1..Len(d.objects) : d.objects[i].id = d.objects[j].id => i = j
  /\ \A k, l \in 1..Len(d.calls) : d.calls[k].index = d.calls[l].index => k = l
  /\ \A k \in 1..Len(d.calls) : d.calls[k].index < d.next
  /\ \A i \in 1..Len(d.objects), k \in 1..Len(d.calls) : d.objects[i].id # d.calls[k].index

\* Each object read has been made, or a call is about it.
Covers(vs, d) ==
  \A p \in 0..d.next - 1 : vs[p + 1].type \in Kind =>
    \/ \E i \in 1..Len(d.objects) : d.objects[i].id = p
    \/ \E k \in 1..Len(d.calls) : d.calls[k].index = p

\* Reader d is as far as write_value was when its calls were h.
Mirrors(hp, vs, d, h, O) ==
  /\ d \in Reader /\ d.next \in 0..Len(vs)
  /\ Synced(d, h) /\ Stacked(d) /\ Holds(vs, O, d, h)
  /\ Makes(hp, vs, O, d) /\ Unique(d) /\ Covers(vs, d)
  /\ d.fault = FALSE
  /\ d.more = FALSE => Len(d.calls) = 1 /\ d.next = Len(vs)

\* What is stood for by a value goes on to be so.
LEMMA LikeStays ==
  ASSUME NEW vs, NEW O, NEW n \in Nat, NEW v, NEW d, Like(vs, O, n, v, d)
  PROVE  Like(vs, O, n + 1, v, d)
<1>1. \A i \in 0..n - 1 : i \in 0..(n + 1) - 1
  OBVIOUS
<1>2. QED
  BY <1>1 DEF Like

\* Reader d reads item x, which made calls g of h, for value v, and has value c
\* of it; it is e then.
Reads(vs, O, h, g, d, e, x, v, c) ==
  /\ e \in Reader /\ c \in Datum /\ d.next < Len(vs) /\ vs[d.next + 1] = x
  /\ Len(vs) \in Nat /\ Len(h) \in Nat
  /\ Len(g) = IF x.type \in Kind THEN Len(d.calls) + 1 ELSE Len(d.calls)
  /\ \A k \in 1..Len(d.calls) - 1 : g[k] = h[k]
  /\ g[Len(d.calls)] = [h[Len(d.calls)] EXCEPT !.done = @ + 1]
  /\ h[Len(d.calls)] \in Call
  /\ v = h[Len(d.calls)].list[h[Len(d.calls)].done + 1]
  /\ x.type \in Kind => g[Len(d.calls) + 1].index = d.next /\ g[Len(d.calls) + 1].done = 0
  /\ Like(vs, O, d.next + 1, v, c)
  /\ e.next = d.next + 1 /\ e.stack = Append(d.stack, c) /\ e.objects = d.objects
  /\ e.fault = d.fault /\ e.more = d.more /\ d.more = TRUE
  /\ Len(e.calls) = Len(g)
  /\ \A k \in 1..Len(d.calls) - 1 : e.calls[k] = d.calls[k]
  /\ e.calls[Len(d.calls)] = [d.calls[Len(d.calls)] EXCEPT !.got = @ + 1]
  /\ x.type \in Kind => e.calls[Len(d.calls) + 1] = Reading(d.next, Len(d.stack) + 1)

\* A value more has been decoded.
LEMMA MirrorsRead ==
  ASSUME NEW hp, NEW vs, NEW O, NEW h, NEW g, NEW x, NEW d, NEW e, NEW v, NEW c,
         Mirrors(hp, vs, d, h, O), Reads(vs, O, h, g, d, e, x, v, c)
  PROVE  Mirrors(hp, vs, e, g, O)
<1> SUFFICES
  ASSUME e \in Reader, c \in Datum,
         Len(vs) \in Nat, d.next < Len(vs), vs[d.next + 1] = x,
         Len(h) \in Nat, Len(g) = IF x.type \in Kind THEN Len(d.calls) + 1 ELSE Len(d.calls),
         \A k \in 1..Len(d.calls) - 1 : g[k] = h[k],
         g[Len(d.calls)] = [h[Len(d.calls)] EXCEPT !.done = @ + 1],
         h[Len(d.calls)] \in Call,
         v = h[Len(d.calls)].list[h[Len(d.calls)].done + 1],
         x.type \in Kind => g[Len(d.calls) + 1].index = d.next /\ g[Len(d.calls) + 1].done = 0,
         Like(vs, O, d.next + 1, v, c),
         e.next = d.next + 1, e.stack = Append(d.stack, c), e.objects = d.objects,
         e.fault = d.fault, e.more = d.more, d.more = TRUE,
         Len(e.calls) = Len(g),
         \A k \in 1..Len(d.calls) - 1 : e.calls[k] = d.calls[k],
         e.calls[Len(d.calls)] = [d.calls[Len(d.calls)] EXCEPT !.got = @ + 1],
         x.type \in Kind => e.calls[Len(d.calls) + 1] = Reading(d.next, Len(d.stack) + 1)
  PROVE  Mirrors(hp, vs, e, g, O)
  BY DEF Reads
<1> DEFINE m == Len(d.calls)
           n == d.next
           s == d.stack
<1>1. /\ d.calls \in Seq(ReadCall) /\ s \in Seq(Datum) /\ n \in Nat /\ d.objects \in Seq(Made)
  BY DEF Mirrors, Reader
<1>2. m \in Nat /\ m # 0 /\ Len(s) \in Nat /\ Len(d.objects) \in Nat
  <2>1. m \in 1..Len(h)
    BY DEF Mirrors, Synced
  <2>2. QED
    BY <1>1, <2>1, LenProperties
<1>3. \A k \in 1..m : d.calls[k] \in ReadCall
  BY <1>1, ElementOfSeq
<1>4. /\ Len(Append(s, c)) = Len(s) + 1 /\ Append(s, c)[Len(s) + 1] = c
      /\ \A i \in 1..Len(s) : Append(s, c)[i] = s[i]
  BY <1>1, Pushed
<1> DEFINE dc == d.calls
           ec == e.calls
           es == e.stack
<1>5. ASSUME NEW k \in 1..m
      PROVE  /\ ec[k].index = dc[k].index /\ ec[k].base = dc[k].base
             /\ ec[k].got = dc[k].got + (IF k = m THEN 1 ELSE 0)
             /\ g[k].index = h[k].index /\ g[k].list = h[k].list
             /\ g[k].done = h[k].done + (IF k = m THEN 1 ELSE 0)
             /\ dc[k].got = h[k].done /\ dc[k].index = h[k].index
             /\ dc[k].base \in Nat /\ dc[k].got \in Nat /\ dc[k].index \in Int
  <2>1. dc[k].base \in Nat /\ dc[k].got \in Nat /\ dc[k].index \in Int /\ dc[k] \in ReadCall
    BY <1>3 DEF ReadCall
  <2>2. dc[k].got = h[k].done /\ dc[k].index = h[k].index
    BY DEF Mirrors, Synced
  <2>3. CASE k = m
    <3>1. ec[k] = [dc[k] EXCEPT !.got = @ + 1] /\ g[k] = [h[k] EXCEPT !.done = @ + 1] /\ h[k] \in Call
      BY <2>3
    <3> HIDE DEF dc, ec, m
    <3>2. ec[k].index = dc[k].index /\ ec[k].base = dc[k].base /\ ec[k].got = dc[k].got + 1
      BY <2>1, <3>1 DEF ReadCall
    <3>3. g[k].index = h[k].index /\ g[k].list = h[k].list /\ g[k].done = h[k].done + 1
      BY <3>1 DEF Call
    <3>4. QED
      BY <2>1, <2>2, <2>3, <3>2, <3>3
  <2>4. CASE k # m
    <3>1. k \in 1..m - 1
      <4> HIDE DEF m
      <4>1. QED
        BY <1>2, <2>4
    <3>2. ec[k] = dc[k] /\ g[k] = h[k]
      BY <3>1
    <3> HIDE DEF dc, ec, m
    <3>3. dc[k].got + 0 = dc[k].got /\ h[k].done + 0 = h[k].done
      BY <2>1, <2>2
    <3>4. QED
      BY <2>1, <2>2, <2>4, <3>2, <3>3
  <2>5. QED
    BY <2>3, <2>4
<1>6. /\ Len(ec) = IF x.type \in Kind THEN m + 1 ELSE m
      /\ Len(g) = Len(ec)
      /\ x.type \in Kind => /\ ec[m + 1].index = n /\ ec[m + 1].base = Len(s) + 1 /\ ec[m + 1].got = 0
                            /\ g[m + 1].index = n /\ g[m + 1].done = 0
  BY DEF Reading
<1>7. /\ dc[1].base = 0
      /\ \A k \in 1..m - 1 : dc[k + 1].base = dc[k].base + dc[k].got
      /\ \A k, l \in 1..m : k < l => dc[k].base + dc[k].got =< dc[l].base
      /\ Len(s) = dc[m].base + dc[m].got
  BY DEF Mirrors, Stacked
<1>8. es = Append(s, c) /\ Len(es) = Len(s) + 1
  BY <1>4
<1>9. e.next = n + 1 /\ Like(vs, O, n + 1, v, c)
  OBVIOUS
<1>10. ASSUME NEW k \in 1..Len(ec) PROVE k \in 1..m \/ (k = m + 1 /\ x.type \in Kind)
  <2> DEFINE q == Len(ec)
  <2>1. q = (IF x.type \in Kind THEN m + 1 ELSE m) /\ k \in 1..q
    BY <1>6
  <2> HIDE DEF q, m
  <2>2. QED
    BY ONLY <1>2, <2>1
<1>11. m \in 1..m
  <2> HIDE DEF m
  <2>1. QED
    BY <1>2
<1> HIDE DEF m, n, s, dc, ec, es
<1>top. /\ Len(s) = dc[m].base + dc[m].got /\ dc[m].base \in Nat /\ dc[m].got \in Nat
        /\ ec[m].base = dc[m].base /\ ec[m].got = dc[m].got + 1
  <2>1. Len(s) = dc[m].base + dc[m].got
    BY <1>7
  <2>2. dc[m].base \in Nat /\ dc[m].got \in Nat
        /\ ec[m].base = dc[m].base /\ ec[m].got = dc[m].got + 1
    BY <1>5, <1>11
  <2>3. QED
    BY <2>1, <2>2
<1>12. Synced(e, g)
  <2>1. Len(ec) \in 1..Len(g)
    BY ONLY <1>2, <1>6
  <2>2. ASSUME NEW k \in 1..Len(ec) PROVE ec[k].index = g[k].index /\ ec[k].got = g[k].done
    <3>1. CASE k \in 1..m
      BY <1>5, <3>1
    <3>2. CASE k = m + 1 /\ x.type \in Kind
      BY <1>6, <3>2
    <3>3. QED
      BY <1>10, <3>1, <3>2
  <2>3. \A k \in Len(ec) + 1..Len(g) : Done(g[k])
    <3>1. Len(ec) \in Nat /\ Len(g) = Len(ec)
      BY <1>2, <1>6
    <3>2. Len(ec) + 1..Len(g) = {}
      BY <3>1
    <3>3. QED
      BY <3>2
  <2>4. QED
    BY <2>1, <2>2, <2>3 DEF Synced, ec
<1>13. Stacked(e)
  <2>1. ec[1].base = 0
    <3>1. 1 \in 1..m
      BY <1>2
    <3>2. QED
      BY <1>5, <1>7, <3>1
  <2>2. ASSUME NEW k \in 1..Len(ec) - 1 PROVE ec[k + 1].base = ec[k].base + ec[k].got
    <3>1. CASE k \in 1..m - 1
      <4>1. k \in 1..m /\ k + 1 \in 1..m /\ k # m
        BY <1>2, <3>1
      <4>2. ec[k].base = dc[k].base /\ ec[k].got = dc[k].got + 0 /\ dc[k].got \in Nat
            /\ ec[k + 1].base = dc[k + 1].base
        BY <1>5, <4>1
      <4>3. dc[k + 1].base = dc[k].base + dc[k].got
        BY <1>7, <3>1
      <4>4. QED
        BY <4>2, <4>3
    <3>2. CASE k = m /\ x.type \in Kind
      <4>1. ec[m + 1].base = Len(s) + 1
        BY <1>6, <3>2
      <4>2. Len(s) + 1 = ec[m].base + ec[m].got
        <5>1. \A a, b \in Nat : (a + b) + 1 = a + (b + 1)
          OBVIOUS
        <5>2. QED
          BY ONLY <1>top, <5>1
      <4>3. ec[m + 1].base = ec[m].base + ec[m].got
        BY <4>1, <4>2
      <4>4. QED
        BY <3>2, <4>3
    <3>3. k \in 1..m - 1 \/ (k = m /\ x.type \in Kind)
      <4> DEFINE q == Len(ec)
      <4>1. q = (IF x.type \in Kind THEN m + 1 ELSE m) /\ k \in 1..q - 1
        BY <1>6
      <4> HIDE DEF q
      <4>2. QED
        BY <1>2, <4>1
    <3>4. QED
      BY <3>1, <3>2, <3>3
  <2>3. ASSUME NEW k \in 1..Len(ec), NEW l \in 1..Len(ec), k < l
        PROVE  ec[k].base + ec[k].got =< ec[l].base
    <3>1. k \in 1..m
      <4> DEFINE q == Len(ec)
      <4>1. q \in {m, m + 1} /\ k \in 1..q /\ l \in 1..q
        BY <1>6
      <4> HIDE DEF q
      <4>2. QED
        BY <1>2, <2>3, <4>1
    <3>2. CASE l \in 1..m
      <4>1. k # m
        BY <1>2, <2>3, <3>2
      <4>2. ec[k].base = dc[k].base /\ ec[k].got = dc[k].got + 0 /\ dc[k].got \in Nat
            /\ ec[l].base = dc[l].base
        BY <1>5, <3>1, <3>2, <4>1
      <4>3. dc[k].base + dc[k].got =< dc[l].base
        BY <1>7, <2>3, <3>1, <3>2
      <4>4. QED
        BY <4>2, <4>3
    <3>3. CASE l = m + 1 /\ x.type \in Kind
      <4>1. ec[l].base = Len(s) + 1
        BY <1>6, <3>3
      <4>2. CASE k = m
        <5>1. ec[m].base + ec[m].got =< Len(s) + 1
          BY ONLY <1>top
        <5>2. QED
          BY <4>1, <4>2, <5>1
      <4>3. CASE k # m
        <5>1. ec[k].base = dc[k].base /\ ec[k].got = dc[k].got + 0 /\ dc[k].got \in Nat /\ dc[k].base \in Nat
          BY <1>5, <3>1, <4>3
        <5>2. k < m
          BY <1>2, <3>1, <4>3
        <5>3. dc[k].base + dc[k].got =< dc[m].base
          BY <1>7, <1>11, <3>1, <5>2
        <5>4. dc[k].base \in Nat /\ dc[k].got \in Nat
          BY <1>5, <3>1
        <5>5. dc[k].base + dc[k].got =< Len(s) + 1
          <6>1. \A y, b, z \in Nat : y =< b /\ b =< z => y =< z + 1
            OBVIOUS
          <6>2. dc[k].base + dc[k].got \in Nat
            BY ONLY <5>4
          <6>3. dc[m].base =< Len(s)
            BY ONLY <1>top
          <6>4. QED
            BY ONLY <1>2, <1>top, <5>3, <6>1, <6>2, <6>3
        <5>6. QED
          BY <4>1, <5>1, <5>5
      <4>4. QED
        BY <4>2, <4>3
    <3>4. QED
      BY <1>10, <3>2, <3>3
  <2>4. Len(es) = ec[Len(ec)].base + ec[Len(ec)].got
    <3>1. CASE x.type \in Kind
      <4>1. Len(ec) = m + 1 /\ ec[m + 1].base = Len(s) + 1 /\ ec[m + 1].got = 0
        BY <1>6, <3>1
      <4>2. QED
        BY <1>2, <1>8, <4>1
    <3>2. CASE x.type \notin Kind
      <4>1. Len(ec) = m
        BY <1>6, <3>2
      <4>2. ec[m].base = dc[m].base /\ ec[m].got = dc[m].got + 1 /\ dc[m].base \in Nat /\ dc[m].got \in Nat
        BY <1>5, <1>11
      <4>3. Len(es) = ec[m].base + ec[m].got
        <5>1. \A a, b \in Nat : (a + b) + 1 = a + (b + 1)
          OBVIOUS
        <5>2. QED
          BY ONLY <1>top, <1>8, <5>1
      <4>4. QED
        BY <4>1, <4>3
    <3>3. QED
      BY <3>1, <3>2
  <2>5. QED
    BY <2>1, <2>2, <2>3, <2>4 DEF Stacked, ec, es
<1>14. Holds(vs, O, e, g)
  <2>1. ASSUME NEW k \in 1..m, NEW j \in 1..dc[k].got
        PROVE  Like(vs, O, n + 1, g[k].list[j], es[dc[k].base + j])
    <3>1. Like(vs, O, n, h[k].list[j], s[dc[k].base + j])
      BY DEF Mirrors, Holds, dc, s, n, m
    <3>2. dc[k].base + j \in 1..Len(s)
      <4>1. dc[k].base \in Nat /\ dc[k].got \in Nat /\ dc[m].base \in Nat /\ dc[m].got \in Nat
        BY <1>5, <1>11
      <4>2. dc[k].base + dc[k].got =< Len(s)
        <5>1. CASE k = m
          BY <1>2, <1>top, <5>1
        <5>2. CASE k # m
          <6>1. k < m
            BY <1>2, <5>2
          <6>2. dc[k].base + dc[k].got =< dc[m].base
            BY <1>7, <1>11, <6>1
          <6>3. \A a, z, w \in Nat : a =< z => a =< z + w
            OBVIOUS
          <6>4. dc[k].base + dc[k].got \in Nat
            BY ONLY <4>1
          <6>5. QED
            BY ONLY <1>top, <6>2, <6>3, <6>4
        <5>3. QED
          BY <5>1, <5>2
      <4> DEFINE b == dc[k].base
                 y == dc[k].got
      <4>3. b \in Nat /\ y \in Nat /\ j \in 1..y /\ b + y =< Len(s)
        BY <4>1, <4>2
      <4> HIDE DEF b, y
      <4>4. b + j \in 1..Len(s)
        BY ONLY <1>2, <4>3
      <4>5. QED
        BY <4>4 DEF b
    <3>3. es[dc[k].base + j] = s[dc[k].base + j] /\ g[k].list = h[k].list
      BY <1>4, <1>5, <1>8, <3>2
    <3>4. Like(vs, O, n + 1, h[k].list[j], s[dc[k].base + j])
      BY <1>1, <3>1, LikeStays
    <3>5. QED
      BY <3>3, <3>4
  <2>2. Like(vs, O, n + 1, g[m].list[dc[m].got + 1], es[dc[m].base + (dc[m].got + 1)])
    <3>1. g[m].list = h[m].list /\ dc[m].got = h[m].done /\ dc[m].base \in Nat /\ dc[m].got \in Nat
      BY <1>5, <1>11
    <3>2. dc[m].base + (dc[m].got + 1) = Len(s) + 1
      BY ONLY <1>top
    <3>3. v = h[m].list[dc[m].got + 1]
      BY <3>1 DEF m
    <3>4. es[Len(s) + 1] = c
      BY <1>4, <1>8
    <3>5. QED
      BY <1>9, <3>1, <3>2, <3>3, <3>4
  <2>3. ASSUME NEW k \in 1..Len(ec), NEW j \in 1..ec[k].got
        PROVE  Like(vs, O, n + 1, g[k].list[j], es[ec[k].base + j])
    <3>1. CASE k \in 1..m
      <4>1. ec[k].base = dc[k].base /\ ec[k].got = dc[k].got + (IF k = m THEN 1 ELSE 0) /\ dc[k].got \in Nat
        BY <1>5, <3>1
      <4>2. j \in 1..dc[k].got \/ (k = m /\ j = dc[k].got + 1)
        <5> DEFINE y == dc[k].got
        <5>1. y \in Nat /\ j \in 1..y + (IF k = m THEN 1 ELSE 0)
          BY <4>1
        <5> HIDE DEF y
        <5>2. j \in 1..y \/ (k = m /\ j = y + 1)
          BY <5>1
        <5>3. QED
          BY <5>2 DEF y
      <4>3. QED
        BY <2>1, <2>2, <3>1, <4>1, <4>2
    <3>2. CASE k = m + 1 /\ x.type \in Kind
      <4>1. ec[k].got = 0
        BY <1>6, <3>2
      <4>2. QED
        BY <4>1
    <3>3. QED
      BY <1>10, <3>1, <3>2
  <2>4. QED
    BY <1>9, <2>3 DEF Holds, ec, es
<1>15. Makes(hp, vs, O, e)
  <2> SUFFICES ASSUME NEW i \in 1..Len(d.objects) PROVE Copies(hp, vs, O, n + 1, d.objects[i])
    BY <1>9 DEF Makes
  <2> DEFINE r == d.objects[i]
             b == Listed(hp[O[r.id]])
  <2>1. Copies(hp, vs, O, n, r)
    BY DEF Mirrors, Makes, n
  <2> HIDE DEF r
  <2>2. /\ r.id \in 0..n - 1 /\ vs[r.id + 1].type \in Kind /\ r.kind = vs[r.id + 1].type
        /\ Len(r.parts) = Len(b)
        /\ \A j \in 1..Len(r.parts) : Like(vs, O, n, b[j], r.parts[j])
    BY <2>1 DEF Copies
  <2>3. r.id \in 0..(n + 1) - 1
    BY <1>1, <2>2
  <2> HIDE DEF b
  <2>4. \A j \in 1..Len(r.parts) : Like(vs, O, n + 1, b[j], r.parts[j])
    BY <1>1, <2>2, LikeStays
  <2>5. Copies(hp, vs, O, n + 1, r)
    BY <2>2, <2>3, <2>4 DEF Copies, b
  <2>6. QED
    BY <2>5 DEF r
<1>16. Unique(e)
  <2>1. /\ \A i, j \in 1..Len(d.objects) : d.objects[i].id = d.objects[j].id => i = j
        /\ \A k, l \in 1..m : dc[k].index = dc[l].index => k = l
        /\ \A k \in 1..m : dc[k].index < n
        /\ \A i \in 1..Len(d.objects), k \in 1..m : d.objects[i].id # dc[k].index
    BY DEF Mirrors, Unique, n, m, dc
  <2>2. \A i \in 1..Len(d.objects) : d.objects[i].id # n
    <3> SUFFICES ASSUME NEW i \in 1..Len(d.objects) PROVE d.objects[i].id # n
      OBVIOUS
    <3>1. d.objects[i].id \in 0..n - 1
      BY DEF Mirrors, Makes, Copies, n
    <3>2. QED
      BY <1>1, <3>1
  <2>3. \A k \in 1..m : ec[k].index = dc[k].index /\ dc[k].index \in Int
    BY <1>5
  <2>4. ASSUME NEW k \in 1..Len(ec), NEW l \in 1..Len(ec), ec[k].index = ec[l].index PROVE k = l
    <3>1. CASE k \in 1..m /\ l \in 1..m
      BY <2>1, <2>3, <2>4, <3>1
    <3>2. CASE k = m + 1 /\ l \in 1..m /\ x.type \in Kind
      <4>1. ec[l].index < n /\ ec[l].index \in Int
        BY <2>1, <2>3, <3>2
      <4>2. ec[k].index = n
        BY <1>6, <3>2
      <4>3. QED
        BY <1>1, <2>4, <4>1, <4>2
    <3>3. CASE k \in 1..m /\ l = m + 1 /\ x.type \in Kind
      <4>1. ec[k].index < n /\ ec[k].index \in Int
        BY <2>1, <2>3, <3>3
      <4>2. ec[l].index = n
        BY <1>6, <3>3
      <4>3. QED
        BY <1>1, <2>4, <4>1, <4>2
    <3>4. CASE k = m + 1 /\ l = m + 1
      BY <3>4
    <3>5. QED
      BY <1>10, <3>1, <3>2, <3>3, <3>4
  <2>5. ASSUME NEW k \in 1..Len(ec) PROVE ec[k].index < n + 1
    <3>1. CASE k \in 1..m
      <4>1. ec[k].index \in Int /\ ec[k].index < n
        BY <2>1, <2>3, <3>1
      <4>2. QED
        BY <1>1, <4>1
    <3>2. CASE k = m + 1 /\ x.type \in Kind
      BY <1>1, <1>6, <3>2
    <3>3. QED
      BY <1>10, <3>1, <3>2
  <2>6. ASSUME NEW i \in 1..Len(d.objects), NEW k \in 1..Len(ec) PROVE d.objects[i].id # ec[k].index
    <3>1. CASE k \in 1..m
      BY <2>1, <2>3, <3>1
    <3>2. CASE k = m + 1 /\ x.type \in Kind
      BY <1>6, <2>2, <3>2
    <3>3. QED
      BY <1>10, <3>1, <3>2
  <2>7. e.objects = d.objects
    OBVIOUS
  <2>8. QED
    BY ONLY <1>9, <2>1, <2>4, <2>5, <2>6, <2>7 DEF Unique, ec
<1>17. Covers(vs, e)
  <2> SUFFICES ASSUME NEW p \in 0..(n + 1) - 1, vs[p + 1].type \in Kind
               PROVE  \/ \E i \in 1..Len(d.objects) : d.objects[i].id = p
                      \/ \E k \in 1..Len(ec) : ec[k].index = p
    BY <1>9, SMTT(30) DEF Covers, ec
  <2>1. \A k \in 1..m : k \in 1..Len(ec)
    BY <1>2, <1>6
  <2>2. CASE p = n
    <3>1. x.type \in Kind
      BY <2>2 DEF n
    <3>2. m + 1 \in 1..Len(ec) /\ ec[m + 1].index = n
      BY <1>2, <1>6, <3>1
    <3>3. QED
      BY <2>2, <3>2
  <2>3. CASE p # n
    <3>1. p \in 0..n - 1
      BY <1>1, <2>3
    <3>2. \/ \E i \in 1..Len(d.objects) : d.objects[i].id = p
          \/ \E k \in 1..m : dc[k].index = p
      BY <3>1 DEF Mirrors, Covers, n, m, dc
    <3>3. QED
      BY <1>5, <2>1, <3>2
  <2>4. QED
    BY <2>2, <2>3
<1>18. e.next \in 0..Len(vs)
  BY <1>1, <1>9 DEF n
<1>19. e.fault = FALSE /\ e.more = TRUE
  BY DEF Mirrors
<1>20. QED
  BY <1>12, <1>13, <1>14, <1>15, <1>16, <1>17, <1>18, <1>19 DEF Mirrors

\* A part of a sequence.
LEMMA Cut ==
  ASSUME NEW S, NEW s \in Seq(S), NEW a \in Nat, NEW n \in Nat, a + n =< Len(s)
  PROVE  /\ SubSeq(s, a + 1, a + n) \in Seq(S) /\ Len(SubSeq(s, a + 1, a + n)) = n
         /\ \A j \in 1..n : SubSeq(s, a + 1, a + n)[j] = s[a + j] /\ s[a + j] \in S
<1> DEFINE b == a + 1
           c == a + n
<1>1. b \in Int /\ c \in Int /\ Len(s) \in Nat /\ \A i \in b..c : i \in 1..Len(s)
  BY LenProperties
<1>2. \A i \in b..c : s[i] \in S
  BY <1>1, ElementOfSeq
<1>3. c - b + 1 = n /\ (IF b =< c THEN c - b + 1 ELSE 0) = n
      /\ \A j \in 1..n : b + j - 1 = a + j /\ a + j \in b..c
  OBVIOUS
<1> HIDE DEF b, c
<1>4. /\ SubSeq(s, b, c) \in Seq(S)
      /\ Len(SubSeq(s, b, c)) = (IF b =< c THEN c - b + 1 ELSE 0)
      /\ \A i \in 1..(c - b + 1) : SubSeq(s, b, c)[i] = s[b + i - 1]
  BY <1>1, <1>2, SubSeqProperties
<1>5. SubSeq(s, b, c) \in Seq(S) /\ Len(SubSeq(s, b, c)) = n
  BY <1>3, <1>4
<1>6. \A j \in 1..n : SubSeq(s, b, c)[j] = s[a + j] /\ s[a + j] \in S
  BY <1>2, <1>3, <1>4
<1>7. QED
  BY <1>5, <1>6 DEF b, c

\* The object of item i has been decoded by reader d, from the n values above
\* position b of the stack; it is e then.
Completes(hp, vs, O, h, d, e, i, b, n) ==
  /\ Len(d.calls) # 1 /\ Len(h) \in Nat /\ e \in Reader /\ n \in Nat
  /\ i = d.calls[Len(d.calls)].index /\ b = d.calls[Len(d.calls)].base
  /\ n = d.calls[Len(d.calls)].got /\ n = Len(h[Len(d.calls)].list)
  /\ i \in 0..d.next - 1 /\ vs[i + 1].type \in Kind
  /\ h[Len(d.calls)].list = Listed(hp[O[i]])
  /\ e.next = d.next /\ e.calls = Front(d.calls) /\ e.stack = SubSeq(d.stack, 1, b)
  /\ e.objects = Append(d.objects, [id |-> i, kind |-> vs[i + 1].type,
                                    parts |-> SubSeq(d.stack, b + 1, b + n)])
  /\ e.fault = FALSE /\ e.more = d.more

\* An object has been decoded: its parts leave the stack, and it stays there.
LEMMA MirrorsEnd ==
  ASSUME NEW hp, NEW vs, NEW O, NEW h, NEW d, NEW e, NEW i, NEW b, NEW n,
         Mirrors(hp, vs, d, h, O), Completes(hp, vs, O, h, d, e, i, b, n)
  PROVE  Mirrors(hp, vs, e, h, O)
<1>0. /\ n \in Nat /\ Len(d.calls) # 1 /\ Len(h) \in Nat /\ e \in Reader
      /\ i = d.calls[Len(d.calls)].index /\ b = d.calls[Len(d.calls)].base
      /\ n = d.calls[Len(d.calls)].got /\ n = Len(h[Len(d.calls)].list)
      /\ i \in 0..d.next - 1 /\ vs[i + 1].type \in Kind
      /\ h[Len(d.calls)].list = Listed(hp[O[i]])
      /\ e.next = d.next /\ e.calls = Front(d.calls) /\ e.stack = SubSeq(d.stack, 1, b)
      /\ e.objects = Append(d.objects, [id |-> i, kind |-> vs[i + 1].type,
                                        parts |-> SubSeq(d.stack, b + 1, b + n)])
      /\ e.fault = FALSE /\ e.more = d.more
  BY DEF Completes
<1> DEFINE m == Len(d.calls)
           s == d.stack
           dc == d.calls
           ec == e.calls
           es == e.stack
           p == SubSeq(s, b + 1, b + n)
           r == [id |-> i, kind |-> vs[i + 1].type, parts |-> p]
           os == d.objects
           k2 == Len(os)
<1>1. dc \in Seq(ReadCall) /\ s \in Seq(Datum) /\ d.next \in Nat /\ os \in Seq(Made)
  BY DEF Mirrors, Reader
<1>2. m \in 1..Len(h) /\ Len(s) \in Nat /\ k2 \in Nat
  BY <1>0, <1>1, LenProperties DEF Mirrors, Synced
<1>3. m \in Nat /\ m > 1 /\ m \in 1..m /\ m - 1 \in 1..m
  <2>1. m # 1
    BY <1>0
  <2> HIDE DEF m
  <2>2. QED
    BY ONLY <1>2, <2>1
<1>4. /\ ec \in Seq(ReadCall) /\ Len(ec) = m - 1
      /\ \A k \in 1..m - 1 : ec[k] = dc[k]
  <2>1. m # 0
    <3> HIDE DEF m
    <3>1. QED
      BY ONLY <1>3
  <2>2. m = Len(dc) /\ ec = Front(dc)
    BY <1>0
  <2> HIDE DEF m, dc, ec
  <2>3. QED
    BY ONLY <1>1, <2>1, <2>2, Popped
<1>5. \A k \in 1..m : dc[k] \in ReadCall /\ dc[k].base \in Nat /\ dc[k].got \in Nat /\ dc[k].index \in Int
  <2>1. m = Len(dc)
    OBVIOUS
  <2> HIDE DEF m, dc
  <2>2. \A k \in 1..m : dc[k] \in ReadCall
    BY <1>1, <2>1, ElementOfSeq
  <2>3. QED
    BY <2>2 DEF ReadCall
<1>6. /\ dc[1].base = 0
      /\ \A k \in 1..m - 1 : dc[k + 1].base = dc[k].base + dc[k].got
      /\ \A k, l \in 1..m : k < l => dc[k].base + dc[k].got =< dc[l].base
      /\ Len(s) = dc[m].base + dc[m].got
  BY DEF Mirrors, Stacked
<1>7. /\ b \in Nat /\ n \in Nat /\ Len(s) = b + n /\ b + n =< Len(s) /\ b =< Len(s)
  <2>1. dc[m].base = b /\ dc[m].got = n
    BY <1>0
  <2> HIDE DEF dc, m, s
  <2>2. b \in Nat /\ n \in Nat /\ Len(s) = b + n
    BY <1>3, <1>5, <1>6, <2>1
  <2>3. \A x, y, z \in Nat : x = y + z => y + z =< x /\ y =< x
    BY ONLY <1>2
  <2>4. QED
    BY <1>2, <2>2, <2>3
<1>8. dc[m].index = i /\ dc[m].base = b /\ dc[m].got = n /\ n = Len(h[m].list)
      /\ h[m].list = Listed(hp[O[i]])
  BY <1>0
<1> HIDE DEF p
<1>9. p \in Seq(Datum) /\ Len(p) = n /\ \A j \in 1..n : p[j] = s[b + j]
  <2> HIDE DEF s
  <2>1. QED
    BY ONLY <1>1, <1>7, Cut DEF p
<1>10. es \in Seq(Datum) /\ Len(es) = b /\ \A j \in 1..b : es[j] = s[j]
  <2>1. es = SubSeq(s, 1, b)
    BY <1>0
  <2> HIDE DEF s, es
  <2>2. 0 + b =< Len(s) /\ 0 \in Nat /\ 0 + 1 = 1 /\ 0 + b = b
    BY ONLY <1>7
  <2>3. /\ SubSeq(s, 0 + 1, 0 + b) \in Seq(Datum) /\ Len(SubSeq(s, 0 + 1, 0 + b)) = b
        /\ \A j \in 1..b : SubSeq(s, 0 + 1, 0 + b)[j] = s[0 + j] /\ s[0 + j] \in Datum
    BY ONLY <1>1, <1>7, <2>2, Cut
  <2>4. \A j \in 1..b : 0 + j = j
    BY ONLY <1>7
  <2>5. QED
    BY <2>1, <2>2, <2>3, <2>4
<1>11. r.id = i /\ r.kind = vs[i + 1].type /\ r.parts = p
  OBVIOUS
<1>12. r \in Made
  <2>1. i \in Nat
    <3>1. i \in 0..d.next - 1
      BY <1>0
    <3>2. QED
      BY ONLY <1>1, <3>1
  <2>2. vs[i + 1].type \in Kind
    BY <1>0
  <2>3. QED
    BY <1>9, <2>1, <2>2 DEF Made
<1> HIDE DEF r
<1> DEFINE eo == e.objects
<1>13. /\ Len(eo) = k2 + 1 /\ eo[k2 + 1] = r
       /\ \A j \in 1..k2 : eo[j] = os[j]
  <2>1. eo = Append(os, r)
    BY <1>0 DEF r, p
  <2>2. os \in Seq(Made)
    BY <1>1
  <2> HIDE DEF eo, os
  <2>3. QED
    BY ONLY <1>12, <2>1, <2>2, Pushed
<1>14. \A j \in 1..k2 + 1 : j \in 1..k2 \/ j = k2 + 1
  <2> HIDE DEF k2
  <2>1. QED
    BY ONLY <1>2
<1>15. \A k \in 1..m - 1 : k \in 1..m /\ k < m
  <2> HIDE DEF m
  <2>1. QED
    BY ONLY <1>3
<1>16. /\ e.next = d.next /\ e.fault = FALSE /\ e.more = d.more
       /\ e \in Reader /\ i \in 0..d.next - 1 /\ vs[i + 1].type \in Kind
  BY <1>0
<1> HIDE DEF m, s, dc, ec, es, os, eo, k2
<1>17. Synced(e, h)
  <2>1. Len(ec) \in 1..Len(h)
    BY ONLY <1>2, <1>3, <1>4
  <2>2. \A k \in 1..Len(ec) : ec[k].index = h[k].index /\ ec[k].got = h[k].done
    <3>1. \A k \in 1..m : dc[k].index = h[k].index /\ dc[k].got = h[k].done
      BY DEF Mirrors, Synced, m, dc
    <3>2. QED
      BY <1>4, <1>15, <3>1
  <2>3. \A k \in Len(ec) + 1..Len(h) : Done(h[k])
    <3>1. \A k \in m + 1..Len(h) : Done(h[k])
      BY DEF Mirrors, Synced, m
    <3>2. Done(h[m])
      <4>1. dc[m].got = h[m].done
        BY <1>3 DEF Mirrors, Synced, m, dc
      <4>2. QED
        BY <1>8, <4>1 DEF Done
    <3>3. \A k \in (m - 1) + 1..Len(h) : k = m \/ k \in m + 1..Len(h)
      BY ONLY <1>2, <1>3
    <3>4. QED
      BY <1>4, <3>1, <3>2, <3>3
  <2>4. QED
    BY <2>1, <2>2, <2>3 DEF Synced, ec
<1>18. Stacked(e)
  <2>1. ec[1].base = 0
    <3>1. 1 \in 1..m - 1
      BY ONLY <1>3
    <3>2. QED
      BY <1>4, <1>6, <3>1
  <2>2. ASSUME NEW k \in 1..Len(ec) - 1 PROVE ec[k + 1].base = ec[k].base + ec[k].got
    <3> DEFINE q == m - 1
    <3>1. q \in Nat /\ k \in 1..q - 1
      <4>1. Len(ec) = q /\ k \in 1..Len(ec) - 1
        BY <1>4
      <4>2. q \in Nat
        BY ONLY <1>3
      <4>3. QED
        BY ONLY <4>1, <4>2
    <3> HIDE DEF q
    <3>2. k \in 1..q /\ k + 1 \in 1..q
      BY ONLY <3>1
    <3>3. ec[k] = dc[k] /\ ec[k + 1] = dc[k + 1]
      BY <1>4, <3>2 DEF q
    <3>4. dc[k + 1].base = dc[k].base + dc[k].got
      BY <1>6, <3>2 DEF q
    <3>5. QED
      BY ONLY <3>3, <3>4
  <2>3. \A k, l \in 1..Len(ec) : k < l => ec[k].base + ec[k].got =< ec[l].base
    BY <1>4, <1>6, <1>15
  <2>4. Len(es) = ec[Len(ec)].base + ec[Len(ec)].got
    <3>1. m - 1 \in 1..m - 1 /\ (m - 1) + 1 = m
      BY ONLY <1>3
    <3>2. dc[m].base = dc[m - 1].base + dc[m - 1].got
      BY <1>6, <3>1
    <3>3. ec[m - 1] = dc[m - 1] /\ Len(ec) = m - 1
      BY <1>4, <3>1
    <3>4. Len(es) = dc[m].base
      BY <1>8, <1>10
    <3>5. QED
      BY <3>2, <3>3, <3>4
  <2>5. QED
    BY <2>1, <2>2, <2>3, <2>4 DEF Stacked, ec, es
<1>19. Holds(vs, O, e, h)
  <2> SUFFICES ASSUME NEW k \in 1..Len(ec), NEW j \in 1..ec[k].got
               PROVE  Like(vs, O, d.next, h[k].list[j], es[ec[k].base + j])
    BY <1>16 DEF Holds, ec, es
  <2>1. k \in 1..m /\ k < m /\ ec[k] = dc[k]
    BY <1>4, <1>15
  <2>2. Like(vs, O, d.next, h[k].list[j], s[dc[k].base + j])
    BY <2>1 DEF Mirrors, Holds, dc, s, m
  <2>3. dc[k].base + j \in 1..b
    <3> DEFINE y == dc[k].base
               z == dc[k].got
    <3>1. y + z =< b
      BY <1>3, <1>6, <1>8, <2>1
    <3>2. y \in Nat /\ z \in Nat /\ j \in 1..z
      BY <1>5, <2>1
    <3> HIDE DEF y, z
    <3>3. y + j \in 1..b
      BY ONLY <1>7, <3>1, <3>2
    <3>4. QED
      BY <3>3 DEF y
  <2>4. QED
    BY <1>10, <2>1, <2>2, <2>3
<1>20. Makes(hp, vs, O, e)
  <2> SUFFICES ASSUME NEW j \in 1..k2 + 1 PROVE Copies(hp, vs, O, d.next, eo[j])
    BY <1>13, <1>16 DEF Makes, eo
  <2>1. CASE j \in 1..k2
    BY <1>13, <2>1 DEF Mirrors, Makes, os, k2
  <2>2. CASE j = k2 + 1
    <3>1. ASSUME NEW l \in 1..n PROVE Like(vs, O, d.next, h[m].list[l], p[l])
      <4>1. Like(vs, O, d.next, h[m].list[l], s[dc[m].base + l])
        <5>1. l \in 1..dc[m].got
          BY <1>8
        <5>2. QED
          BY <1>3, <5>1 DEF Mirrors, Holds, dc, s, m
      <4>2. p[l] = s[b + l]
        BY <1>9
      <4>3. QED
        BY <1>8, <4>1, <4>2
    <3>2. Len(r.parts) = Len(Listed(hp[O[r.id]])) /\ Len(r.parts) = n
      BY <1>8, <1>9, <1>11
    <3>3. \A l \in 1..Len(r.parts) : Like(vs, O, d.next, Listed(hp[O[r.id]])[l], r.parts[l])
      BY <1>8, <1>11, <3>1, <3>2
    <3>4. Copies(hp, vs, O, d.next, r)
      BY <1>11, <1>16, <3>2, <3>3 DEF Copies
    <3>5. QED
      BY <1>13, <2>2, <3>4
  <2>3. QED
    BY <1>14, <2>1, <2>2
<1>21. Unique(e)
  <2>1. /\ \A j, l \in 1..k2 : os[j].id = os[l].id => j = l
        /\ \A k, l \in 1..m : dc[k].index = dc[l].index => k = l
        /\ \A k \in 1..m : dc[k].index < d.next
        /\ \A j \in 1..k2, k \in 1..m : os[j].id # dc[k].index
    BY DEF Mirrors, Unique, os, k2, m, dc
  <2>2. \A j \in 1..k2 : os[j].id # i
    BY <1>3, <1>8, <2>1
  <2>3. \A k \in 1..m - 1 : ec[k].index # i /\ ec[k].index = dc[k].index
    <3>1. \A k \in 1..m - 1 : k \in 1..m /\ k # m
      BY ONLY <1>3
    <3>2. QED
      BY <1>3, <1>4, <1>8, <2>1, <3>1
  <2>4. eo[k2 + 1].id = i
    BY <1>11, <1>13
  <2>5. \A j, l \in 1..k2 + 1 : eo[j].id = eo[l].id => j = l
    <3> SUFFICES ASSUME NEW j \in 1..k2 + 1, NEW l \in 1..k2 + 1, eo[j].id = eo[l].id PROVE j = l
      OBVIOUS
    <3>1. CASE j \in 1..k2 /\ l \in 1..k2
      BY <1>13, <2>1, <3>1
    <3>2. CASE j = k2 + 1 /\ l \in 1..k2
      BY <1>13, <2>2, <2>4, <3>2
    <3>3. CASE j \in 1..k2 /\ l = k2 + 1
      BY <1>13, <2>2, <2>4, <3>3
    <3>4. CASE j = k2 + 1 /\ l = k2 + 1
      BY <3>4
    <3>5. QED
      BY <1>14, <3>1, <3>2, <3>3, <3>4
  <2>6. \A k, l \in 1..m - 1 : ec[k].index = ec[l].index => k = l
    BY <1>15, <2>1, <2>3
  <2>7. \A k \in 1..m - 1 : ec[k].index < d.next
    BY <1>15, <2>1, <2>3
  <2>8. \A j \in 1..k2 + 1, k \in 1..m - 1 : eo[j].id # ec[k].index
    <3> SUFFICES ASSUME NEW j \in 1..k2 + 1, NEW k \in 1..m - 1 PROVE eo[j].id # ec[k].index
      OBVIOUS
    <3>1. CASE j \in 1..k2
      <4>1. eo[j] = os[j] /\ ec[k].index = dc[k].index /\ k \in 1..m
        BY <1>13, <1>15, <2>3, <3>1
      <4>2. QED
        BY <2>1, <3>1, <4>1
    <3>2. CASE j = k2 + 1
      BY <2>3, <2>4, <3>2
    <3>3. QED
      BY <1>14, <3>1, <3>2
  <2>9. QED
    BY ONLY <1>4, <1>13, <1>16, <2>5, <2>6, <2>7, <2>8 DEF Unique, ec, eo
<1>22. Covers(vs, e)
  <2> SUFFICES ASSUME NEW q \in 0..d.next - 1, vs[q + 1].type \in Kind
               PROVE  \/ \E j \in 1..Len(eo) : eo[j].id = q
                      \/ \E k \in 1..Len(ec) : ec[k].index = q
    BY <1>16 DEF Covers, ec, eo
  <2>1. \/ \E j \in 1..k2 : os[j].id = q
        \/ \E k \in 1..m : dc[k].index = q
    BY DEF Mirrors, Covers, m, dc, os, k2
  <2>2. ASSUME NEW j \in 1..k2, os[j].id = q PROVE \E l \in 1..Len(eo) : eo[l].id = q
    <3>1. Len(eo) = k2 + 1 /\ k2 \in Nat
      BY <1>2, <1>13
    <3>2. j \in 1..Len(eo)
      <4>1. \A a \in Nat : 1..a \subseteq 1..a + 1
        BY ONLY <3>1
      <4>2. j \in 1..k2
        OBVIOUS
      <4>3. QED
        BY ONLY <3>1, <4>1, <4>2
    <3>3. QED
      BY <1>13, <2>2, <3>2
  <2>3. ASSUME NEW k \in 1..m, dc[k].index = q
        PROVE  \/ \E j \in 1..Len(eo) : eo[j].id = q
               \/ \E l \in 1..Len(ec) : ec[l].index = q
    <3>1. CASE k = m
      <4>1. k2 + 1 \in 1..Len(eo) /\ eo[k2 + 1].id = q
        <5>1. Len(eo) = k2 + 1 /\ k2 \in Nat /\ eo[k2 + 1] = r
          BY <1>2, <1>13
        <5>2. r.id = q
          BY <1>8, <1>11, <2>3, <3>1
        <5>3. k2 + 1 \in 1..Len(eo)
          BY ONLY <5>1
        <5>4. QED
          BY <5>1, <5>2, <5>3
      <4>2. QED
        BY <4>1
    <3>2. CASE k # m
      <4>1. k \in 1..m - 1
        <5>1. k \in 1..m
          OBVIOUS
        <5>2. QED
          BY ONLY <1>3, <3>2, <5>1
      <4>2. QED
        BY <1>4, <2>3, <4>1
    <3>3. QED
      BY <3>1, <3>2
  <2>4. QED
    BY <2>1, <2>2, <2>3
<1>23. d.more = TRUE
  <2>1. d.more \in BOOLEAN /\ (d.more = FALSE => m = 1)
    BY DEF Mirrors, Reader, m
  <2>2. QED
    BY ONLY <1>3, <2>1
<1>24. e.next \in 0..Len(vs) /\ e.fault = FALSE /\ e.more # FALSE
  BY <1>16, <1>23 DEF Mirrors
<1>25. QED
  BY <1>16, <1>17, <1>18, <1>19, <1>20, <1>21, <1>22, <1>24 DEF Mirrors

\* What msg_new returned.
LEMMA Returned ==
  ASSUME Built, msg # NoObj
  PROVE  /\ msg.values = builder.values /\ msg.size = builder.bytes
         /\ msg.shared = builder.shared /\ msg.flagged = builder.flagged
         /\ msg.count = builder.count
         /\ Len(calls) = 1 /\ calls[1].done = Len(args) /\ ~ builder.raised
         /\ msg.values \in Seq(Items) /\ Len(msg.values) \in Nat
<1>1. /\ msg = [values |-> builder.values, size |-> builder.bytes, count |-> builder.count,
                shared |-> builder.shared, flagged |-> builder.flagged]
      /\ Len(calls) = 1 /\ calls[1].done = Len(args) /\ ~ builder.raised
  BY DEF Built, Sent
<1>2. msg.values = builder.values /\ builder.values \in Seq(Items)
  BY <1>1 DEF Built, TypeOK, Builder
<1>3. QED
  BY <1>1, <1>2, LenProperties

\* All the items of a message that can be read begin within its size.
LEMMA MoreIs ==
  ASSUME Built, Readable, reader.next \in 0..Len(msg.values)
  PROVE  /\ More => reader.next < Len(msg.values)
         /\ reader.next < Len(msg.values) => More
<1> DEFINE vs == msg.values
           n == Len(vs)
           f == Offsets(vs)
<1>1. msg # NoObj /\ vs # <<>> /\ f[n - 1] < msg.size
  BY DEF Readable
<1>2. vs \in Seq(Items) /\ n \in Nat /\ vs = builder.values /\ msg.size = builder.bytes
  BY <1>1, Returned
<1>3. n # 0 /\ n - 1 \in 0..n /\ n \in Nat
  <2>1. n # 0
    BY <1>1, <1>2, EmptySeq
  <2> HIDE DEF n
  <2>2. QED
    BY <1>2, <2>1
<1>4. \A k \in 0..n - 1 : f[k] =< f[n - 1]
  <2>1. \A m \in 0..Len(vs) : \A k \in 0..m : Offsets(vs)[k] =< Offsets(vs)[m]
    BY <1>2, OffsetsGrow
  <2>2. QED
    BY <1>3, <2>1
<1>5. \A k \in 0..n : f[k] \in Int
  BY <1>2, OffsetsAre
<1>6. f[n] = msg.size + 4 * References(vs) /\ References(vs) \in Nat /\ msg.size \in Int
  <2>1. f[n] = msg.size + 4 * References(vs)
    BY <1>2 DEF Built, Weighed
  <2>2. msg.size \in Int
    BY <1>2 DEF Built, TypeOK, Builder
  <2>3. References(vs) \in Nat
    <3>1. IsFiniteSet(1..n)
      BY <1>2, FS_Interval
    <3>2. {i \in DOMAIN vs : vs[i].type = "reference"} \subseteq 1..n
      BY <1>2, LenProperties
    <3>3. IsFiniteSet({i \in DOMAIN vs : vs[i].type = "reference"})
      BY <3>1, <3>2, FS_Subset
    <3>4. QED
      BY <3>3, FS_CardinalityType DEF References
  <2>4. QED
    BY <2>1, <2>2, <2>3
<1> DEFINE r == reader.next
           z == msg.size
<1>7. More = (f[r] < z)
  BY DEF More
<1>8. r \in 0..n
  OBVIOUS
<1> HIDE DEF f, n, vs, r, z
<1>9. f[r] < z => r < n
  <2> SUFFICES ASSUME ~ (r < n) PROVE ~ (f[r] < z)
    OBVIOUS
  <2>1. r = n
    BY <1>3, <1>8
  <2>2. f[n] = z + 4 * References(vs) /\ References(vs) \in Nat /\ z \in Int
    BY <1>6 DEF z
  <2>3. \A a, c \in Int, b \in Nat : a = c + 4 * b => ~ (a < c)
    OBVIOUS
  <2>4. n \in 0..n
    BY <1>3
  <2>5. QED
    BY <1>5, <2>1, <2>2, <2>3, <2>4
<1>10. r < n => f[r] < z
  <2> SUFFICES ASSUME r < n PROVE f[r] < z
    OBVIOUS
  <2>1. r \in 0..n - 1
    BY <1>3, <1>8
  <2>2. f[r] \in Int /\ f[n - 1] \in Int /\ z \in Int
    BY <1>3, <1>5, <1>6, <1>8 DEF z
  <2>3. f[r] =< f[n - 1] /\ f[n - 1] < z
    BY <1>1, <1>4, <2>1 DEF z
  <2>4. QED
    BY <2>2, <2>3
<1>11. QED
  BY <1>7, <1>9, <1>10 DEF r, n, vs

\* The call that goes on.
LEMMA TopIs ==
  ASSUME Built, msg # NoObj, NEW H, NEW O, Story(heap, args, builder, calls, H, O),
         Mirrors(heap, msg.values, reader, H[reader.next], O)
  PROVE  LET n == reader.next
             h == H[n]
             m == Len(reader.calls)
         IN /\ n \in Nat /\ h \in Seq(Call) /\ Len(h) \in Nat
            /\ m \in 1..Len(h) /\ Top = reader.calls[m] /\ Top \in ReadCall /\ h[m] \in Call
            /\ Top.index = h[m].index /\ Top.got = h[m].done
            /\ m = 1 => Top.index = -1
            /\ m # 1 => /\ Top.index \in 0..n - 1 /\ Here = msg.values[Top.index + 1]
                        /\ Here.type \in Kind
                        /\ h[m].list = Listed(heap[O[Top.index]])
                        /\ Needed = Len(h[m].list) /\ Needed \in Nat
<1> DEFINE n == reader.next
           h == H[n]
           m == Len(reader.calls)
           vs == msg.values
<1>1. /\ vs = builder.values /\ vs \in Seq(Items) /\ Len(vs) \in Nat /\ Len(calls) = 1
  BY Returned
<1>2. reader \in Reader /\ n \in 0..Len(vs) /\ n \in Nat
  BY DEF Mirrors, Reader
<1>3. h \in Seq(Call) /\ Past(heap, args, vs, O, n, h) /\ Whole(heap, vs, calls, O)
  BY <1>1, <1>2 DEF Story
<1>4. m \in 1..Len(h) /\ \A k \in 1..m : reader.calls[k].index = h[k].index /\ reader.calls[k].got = h[k].done
  BY DEF Mirrors, Synced
<1>5. Len(h) \in Nat
  BY <1>3, LenProperties
<1>6. m \in Nat \ {0} /\ m \in 1..m /\ Top = reader.calls[m] /\ Top \in ReadCall
  <2>1. reader.calls \in Seq(ReadCall) /\ m # 0
    BY <1>2, <1>4 DEF Reader
  <2>2. Last(reader.calls) = reader.calls[m] /\ Last(reader.calls) \in ReadCall /\ m \in Nat \ {0}
    BY <2>1, Popped
  <2> HIDE DEF m
  <2>3. QED
    BY <2>2 DEF Top
<1>7. h[m] \in Call
  BY <1>3, <1>4, ElementOfSeq
<1>8. Top.index = h[m].index /\ Top.got = h[m].done
  BY <1>4, <1>6
<1>9. m = 1 => Top.index = -1
  BY <1>3, <1>8 DEF Past
<1>10. ASSUME m # 1
       PROVE  /\ Top.index \in 0..n - 1 /\ Here = vs[Top.index + 1] /\ Here.type \in Kind
              /\ h[m].list = Listed(heap[O[Top.index]])
              /\ Needed = Len(h[m].list) /\ Needed \in Nat
  <2> DEFINE i == Top.index
             o == heap[O[i]]
  <2>1. m \in 2..Len(h)
    <3> HIDE DEF m, h
    <3>1. QED
      BY <1>4, <1>5, <1>6, <1>10
  <2>2. i \in 0..n - 1 /\ vs[i + 1].type \in Kind /\ h[m].list = Listed(o)
    <3>1. /\ h[m].index \in 0..n - 1 /\ vs[h[m].index + 1].type \in Kind
          /\ h[m].obj = O[h[m].index] /\ h[m].list = Listed(heap[h[m].obj])
      BY <1>3, <2>1 DEF Past
    <3>2. QED
      BY <1>8, <3>1
  <2>3. Here = vs[i + 1]
    BY DEF Here
  <2> HIDE DEF i
  <2>4. /\ O[i] \in Obj /\ vs[i + 1].type = o.kind /\ vs[i + 1].parts = Len(o.parts)
    <3>1. i \in 0..Len(vs) - 1
      <4> HIDE DEF vs, n
      <4>1. QED
        BY <1>1, <1>2, <2>2
    <3>2. \A k \in 2..Len(calls) : FALSE
      BY <1>1
    <3> HIDE DEF vs
    <3>3. QED
      BY <1>3, <2>2, <3>1, <3>2 DEF Whole
  <2>5. o \in Object
    BY <2>4 DEF Built, TypeOK
  <2> HIDE DEF o
  <2>6. Len(Listed(o)) = (IF o.kind = "table" THEN 2 ELSE 1) * Len(o.parts) /\ Len(o.parts) \in Nat
    BY <2>5, ListedIs
  <2>7. Needed = IF o.kind = "table" THEN 2 * Len(o.parts) ELSE Len(o.parts)
    BY <2>3, <2>4 DEF Needed
  <2>8. Needed = Len(Listed(o)) /\ Needed \in Nat
    <3>1. CASE o.kind = "table"
      <4>1. Len(Listed(o)) = 2 * Len(o.parts) /\ Needed = 2 * Len(o.parts)
        BY ONLY <2>6, <2>7, <3>1
      <4>2. \A a \in Nat : 2 * a \in Nat
        OBVIOUS
      <4>3. Len(o.parts) \in Nat
        BY <2>6
      <4>4. 2 * Len(o.parts) \in Nat
        BY ONLY <4>2, <4>3
      <4>5. QED
        BY ONLY <4>1, <4>4
    <3>2. CASE o.kind # "table"
      <4>1. Len(Listed(o)) = 1 * Len(o.parts) /\ Needed = Len(o.parts)
        BY ONLY <2>6, <2>7, <3>2
      <4>2. \A a \in Nat : 1 * a = a
        OBVIOUS
      <4>3. Len(o.parts) \in Nat
        BY <2>6
      <4>4. 1 * Len(o.parts) = Len(o.parts)
        BY ONLY <4>2, <4>3
      <4>5. QED
        BY ONLY <4>1, <4>3, <4>4
    <3>3. QED
      BY ONLY <3>1, <3>2
  <2>9. QED
    BY <2>2, <2>3, <2>8 DEF i, o
<1> HIDE DEF m, h
<1>11. QED
  BY <1>2, <1>3, <1>4, <1>5, <1>6, <1>7, <1>8, <1>9, <1>10 DEF m, h

\* The item that is read now was pushed by the call it is read for.
LEMMA NextIs ==
  ASSUME Built, msg # NoObj, NEW H, NEW O, Story(heap, args, builder, calls, H, O),
         Mirrors(heap, msg.values, reader, H[reader.next], O),
         Due, reader.next < Len(msg.values)
  PROVE  LET n == reader.next
             h == H[n]
             g == H[n + 1]
             m == Len(reader.calls)
             x == Item
         IN /\ Len(g) = IF x.type \in Kind THEN m + 1 ELSE m
            /\ \A k \in 1..m - 1 : g[k] = h[k]
            /\ g[m] = [h[m] EXCEPT !.done = @ + 1]
            /\ Stands(x, h[m].list[h[m].done + 1], n, O)
            /\ x.type \in Kind => g[m + 1].index = n /\ g[m + 1].done = 0
<1> DEFINE n == reader.next
           h == H[n]
           g == H[n + 1]
           m == Len(reader.calls)
           x == Item
<1>1. /\ n \in Nat /\ h \in Seq(Call) /\ Len(h) \in Nat
      /\ m \in 1..Len(h) /\ h[m] \in Call
      /\ Top.index = h[m].index /\ Top.got = h[m].done
      /\ m # 1 => Top.index \in 0..n - 1 /\ Needed = Len(h[m].list) /\ Needed \in Nat
  BY TopIs
<1>2. x = builder.values[n + 1] /\ n \in 0..Len(builder.values) - 1
  <2>1. msg.values = builder.values /\ Len(msg.values) \in Nat
    BY Returned
  <2>2. n \in 0..Len(msg.values) - 1
    <3> HIDE DEF n
    <3>1. n < Len(msg.values)
      BY DEF n
    <3>2. QED
      BY <1>1, <2>1, <3>1
  <2>3. QED
    BY <2>1, <2>2 DEF Item
<1>3. Adds(heap, h, x, n, O, g)
  BY <1>2 DEF Story
<1>4. m # 1 => ~ Done(h[m])
  <2> SUFFICES ASSUME m # 1 PROVE ~ Done(h[m])
    OBVIOUS
  <2>1. Top.index # -1
    BY <1>1
  <2>2. Top.got < Needed
    BY <2>1 DEF Due
  <2>3. h[m].done < Len(h[m].list) /\ Len(h[m].list) \in Nat
    BY <1>1, <2>2
  <2>4. QED
    BY <2>3 DEF Done
<1>5. \A k \in m + 1..Len(h) : Done(h[k])
  BY DEF Mirrors, Synced
<1>6. PICK q \in 1..Len(h) :
        /\ \A k \in q + 1..Len(h) : Done(h[k])
        /\ h[q].done < Len(h[q].list)
        /\ Stands(x, h[q].list[h[q].done + 1], n, O)
        /\ Len(g) = IF x.type \in Kind THEN q + 1 ELSE q
        /\ \A k \in 1..q - 1 : g[k] = h[k]
        /\ g[q] = [h[q] EXCEPT !.done = @ + 1]
        /\ x.type \in Kind => g[q + 1] = Frame(x.type, O[n], n, Listed(heap[O[n]]))
  BY <1>3 DEF Adds
<1>7. ~ Done(h[q])
  <2>1. h[q] \in Call
    BY <1>1, ElementOfSeq
  <2>2. h[q].done \in Nat
    BY <2>1 DEF Call
  <2>3. QED
    BY <1>6, <2>2 DEF Done
<1> HIDE DEF m, h, n, g, x
<1>8. q = m
  <2>1. CASE q < m
    <3>1. m # 1 /\ m \in q + 1..Len(h)
      BY <1>1, <2>1
    <3>2. QED
      BY <1>4, <1>6, <3>1
  <2>2. CASE m < q
    <3>1. q \in m + 1..Len(h)
      BY <1>1, <2>2
    <3>2. QED
      BY <1>5, <1>7, <3>1
  <2>3. q \in Nat /\ m \in Nat
    BY <1>1
  <2>4. QED
    BY <2>1, <2>2, <2>3
<1>9. x.type \in Kind => g[m + 1].index = n /\ g[m + 1].done = 0
  BY <1>6, <1>8 DEF Frame
<1>10. QED
  BY <1>6, <1>8, <1>9 DEF m, h, n, g, x

\* decode_value has been called once more, and has left value c.
LEMMA ReadIs ==
  ASSUME reader \in Reader, Len(reader.calls) # 0, NEW c \in Datum
  PROVE  LET m == Len(reader.calls)
             e == PushValue(Read, c)
         IN /\ e \in Reader /\ e.next = reader.next + 1 /\ e.stack = Append(reader.stack, c)
            /\ e.objects = reader.objects /\ e.fault = reader.fault /\ e.more = reader.more
            /\ e.calls \in Seq(ReadCall) /\ Len(e.calls) = m /\ m \in Nat \ {0}
            /\ \A k \in 1..m - 1 : e.calls[k] = reader.calls[k]
            /\ e.calls[m] = [reader.calls[m] EXCEPT !.got = @ + 1]
<1> DEFINE m == Len(reader.calls)
           cs == reader.calls
           t == [Last(cs) EXCEPT !.got = @ + 1]
           e == PushValue(Read, c)
<1>1. /\ cs \in Seq(ReadCall) /\ reader.stack \in Seq(Datum) /\ reader.next \in Nat
      /\ reader.objects \in Seq(Made) /\ reader.fault \in BOOLEAN /\ reader.more \in BOOLEAN
  BY DEF Reader
<1>2. Last(cs) = cs[Len(cs)] /\ Last(cs) \in ReadCall
  <2> HIDE DEF cs
  <2>1. Len(cs) # 0
    BY DEF cs
  <2>2. QED
    BY <1>1, <2>1, Popped
<1>3. t \in ReadCall
  <2> HIDE DEF cs
  <2>1. QED
    BY <1>2 DEF ReadCall
<1>4. t = [cs[m] EXCEPT !.got = @ + 1]
  BY <1>2
<1>5. Asked = Append(Front(cs), t)
  BY DEF Asked, Top
<1> HIDE DEF t
<1>6. /\ Asked \in Seq(ReadCall) /\ Len(Asked) = m /\ m \in Nat \ {0}
      /\ \A i \in 1..m - 1 : Asked[i] = cs[i]
      /\ Asked[m] = t
  <2>1. Len(cs) # 0 /\ m = Len(cs)
    OBVIOUS
  <2> HIDE DEF cs, m
  <2>2. QED
    BY <1>1, <1>3, <1>5, <2>1, Replaced
<1>7. Append(reader.stack, c) \in Seq(Datum)
  BY <1>1, Pushed
<1> DEFINE a == [reader EXCEPT !.next = @ + 1]
           r == [a EXCEPT !.calls = Asked]
           s == Append(reader.stack, c)
<1>8. /\ a \in Reader /\ a.next = reader.next + 1 /\ a.stack = reader.stack
      /\ a.objects = reader.objects /\ a.fault = reader.fault /\ a.more = reader.more
  BY <1>1 DEF Reader
<1>9. r = Read
  BY DEF Read
<1> HIDE DEF a, cs
<1>10. /\ r \in Reader /\ r.next = reader.next + 1 /\ r.stack = reader.stack
       /\ r.objects = reader.objects /\ r.fault = reader.fault /\ r.more = reader.more
       /\ r.calls = Asked
  BY <1>6, <1>8 DEF Reader
<1>11. e = [r EXCEPT !.stack = s]
  BY <1>9, <1>10 DEF PushValue
<1> HIDE DEF r, e, s, m
<1>12. /\ e \in Reader /\ e.next = reader.next + 1 /\ e.stack = s
       /\ e.objects = reader.objects /\ e.fault = reader.fault /\ e.more = reader.more
       /\ e.calls = Asked
  <2>1. s \in Seq(Datum)
    BY <1>7 DEF s
  <2>2. QED
    BY <1>10, <1>11, <2>1 DEF Reader
<1>13. QED
  BY <1>4, <1>6, <1>12 DEF e, m, cs, s

\* An item has been read, and what it stands for lies on the stack.
LEMMA ReadStep ==
  ASSUME Built, msg # NoObj, NEW H, NEW O, Story(heap, args, builder, calls, H, O),
         Mirrors(heap, msg.values, reader, H[reader.next], O),
         Due, reader.next < Len(msg.values), NEW c \in Datum,
         Stands(Item, H[reader.next][Len(reader.calls)].list[Top.got + 1], reader.next, O)
           => Like(msg.values, O, reader.next + 1,
                   H[reader.next][Len(reader.calls)].list[Top.got + 1], c),
         NEW e,
         e = IF Item.type \in Kind
               THEN [PushValue(Read, c)
                       EXCEPT !.calls = Append(@, Reading(reader.next, Len(reader.stack) + 1))]
               ELSE PushValue(Read, c)
  PROVE  Mirrors(heap, msg.values, e, H[e.next], O)
<1> DEFINE n == reader.next
           h == H[n]
           g == H[n + 1]
           m == Len(reader.calls)
           x == Item
           v == h[m].list[h[m].done + 1]
           p == PushValue(Read, c)
           f == Reading(n, Len(reader.stack) + 1)
<1>1. /\ n \in Nat /\ Len(h) \in Nat /\ m \in 1..Len(h) /\ h[m] \in Call
      /\ Top.got = h[m].done
  BY TopIs
<1>2. /\ Len(g) = IF x.type \in Kind THEN m + 1 ELSE m
      /\ \A k \in 1..m - 1 : g[k] = h[k]
      /\ g[m] = [h[m] EXCEPT !.done = @ + 1]
      /\ Stands(x, v, n, O)
      /\ x.type \in Kind => g[m + 1].index = n /\ g[m + 1].done = 0
  BY NextIs
<1>3. Like(msg.values, O, n + 1, v, c)
  BY <1>1, <1>2
<1>4. reader \in Reader /\ m # 0 /\ reader.more = TRUE
  <2>1. reader \in Reader /\ m \in 1..Len(h)
    BY <1>1 DEF Mirrors
  <2>2. reader.more = TRUE
    BY <2>1 DEF Due, Decoding, Reader
  <2>3. QED
    BY <1>1, <2>1, <2>2
<1>5. /\ p \in Reader /\ p.next = n + 1 /\ p.stack = Append(reader.stack, c)
      /\ p.objects = reader.objects /\ p.fault = reader.fault /\ p.more = reader.more
      /\ p.calls \in Seq(ReadCall) /\ Len(p.calls) = m /\ m \in Nat \ {0}
      /\ \A k \in 1..m - 1 : p.calls[k] = reader.calls[k]
      /\ p.calls[m] = [reader.calls[m] EXCEPT !.got = @ + 1]
  BY <1>4, ReadIs
<1>6. f \in ReadCall
  <2>1. Len(reader.stack) \in Nat
    BY <1>4, LenProperties DEF Reader
  <2>2. QED
    BY <1>1, <2>1 DEF Reading, ReadCall
<1>7. msg.values \in Seq(Items) /\ Len(msg.values) \in Nat
  BY Returned
<1>8. msg.values[n + 1] = x
  BY DEF Item
<1> DEFINE cs == p.calls
<1>9. /\ Append(cs, f) \in Seq(ReadCall) /\ Len(Append(cs, f)) = Len(cs) + 1
      /\ \A i \in 1..Len(cs) : Append(cs, f)[i] = cs[i]
      /\ Append(cs, f)[Len(cs) + 1] = f
  <2> HIDE DEF f, p
  <2>1. cs \in Seq(ReadCall)
    BY <1>5
  <2> HIDE DEF cs
  <2>2. QED
    BY <1>6, <2>1, Pushed
<1>10. e = IF x.type \in Kind THEN [p EXCEPT !.calls = Append(cs, f)] ELSE p
  OBVIOUS
<1> HIDE DEF p, f, x, v, g, h
<1>11. /\ e \in Reader /\ e.next = n + 1 /\ e.stack = Append(reader.stack, c)
       /\ e.objects = reader.objects /\ e.fault = reader.fault /\ e.more = reader.more
       /\ Len(e.calls) = IF x.type \in Kind THEN m + 1 ELSE m
       /\ \A k \in 1..m - 1 : e.calls[k] = reader.calls[k]
       /\ e.calls[m] = [reader.calls[m] EXCEPT !.got = @ + 1]
       /\ x.type \in Kind => e.calls[m + 1] = f
  <2>1. CASE x.type \notin Kind
    BY <1>5, <1>10, <2>1
  <2>2. CASE x.type \in Kind
    <3>1. e = [p EXCEPT !.calls = Append(cs, f)]
      BY <1>10, <2>2
    <3>2. /\ e \in Reader /\ e.next = p.next /\ e.stack = p.stack /\ e.objects = p.objects
          /\ e.fault = p.fault /\ e.more = p.more /\ e.calls = Append(cs, f)
      <4> HIDE DEF cs
      <4>1. QED
        BY <1>5, <1>9, <3>1 DEF Reader
    <3>3. Len(cs) = m /\ m \in 1..m /\ \A k \in 1..m - 1 : k \in 1..m
      BY <1>5
    <3> HIDE DEF cs, m
    <3>4. Len(e.calls) = m + 1 /\ e.calls[m + 1] = f
          /\ \A k \in 1..m : e.calls[k] = cs[k]
      BY <1>9, <3>2, <3>3
    <3>5. \A k \in 1..m : e.calls[k] = p.calls[k]
      BY <3>4 DEF cs
    <3>6. QED
      BY <1>5, <2>2, <3>2, <3>3, <3>4, <3>5
  <2>3. QED
    BY <2>1, <2>2
<1>12. Len(e.calls) = Len(g)
  BY <1>2, <1>11
<1>13. x.type \in Kind => e.calls[m + 1] = Reading(n, Len(reader.stack) + 1)
  BY <1>11 DEF f
<1>14. Mirrors(heap, msg.values, reader, h, O)
  BY DEF h
<1>15. v = h[m].list[h[m].done + 1]
  BY DEF v
<1>16. Mirrors(heap, msg.values, e, g, O)
  <2>1. c \in Datum /\ n < Len(msg.values)
    OBVIOUS
  <2>2. Reads(msg.values, O, h, g, reader, e, x, v, c)
    BY ONLY <1>1, <1>2, <1>3, <1>4, <1>7, <1>8, <1>11, <1>12, <1>13, <1>15, <2>1 DEF Reads
  <2>3. QED
    BY ONLY <1>14, <2>2, MirrorsRead
<1>17. QED
  BY <1>11, <1>16 DEF g

\* What msg_next reads next.
LEMMA ItemIs ==
  ASSUME Built, msg # NoObj, reader.next \in Nat, reader.next < Len(msg.values)
  PROVE  Item \in Items
<1>1. msg.values \in Seq(Items) /\ Len(msg.values) \in Nat
  BY Returned
<1>2. reader.next + 1 \in 1..Len(msg.values)
  BY <1>1
<1>3. QED
  BY <1>1, <1>2, ElementOfSeq DEF Item

\* decode_value stays in step when it reads an atom,
LEMMA AtomRead ==
  ASSUME Built, Readable, NEW H, NEW O, Story(heap, args, builder, calls, H, O),
         Mirrors(heap, msg.values, reader, H[reader.next], O), ReadAtom
  PROVE  Mirrors(heap, msg.values, reader', H[reader'.next], O)
<1> DEFINE v == H[reader.next][Len(reader.calls)].list[Top.got + 1]
<1>1. msg # NoObj /\ msg.flagged = {}
  BY DEF Readable
<1>2. reader.next \in 0..Len(msg.values) /\ reader.next \in Nat
  BY DEF Mirrors, Reader
<1>3. Due /\ reader.next < Len(msg.values) /\ Item.type = "atom"
  BY <1>2, MoreIs DEF ReadAtom
<1>4. Item \in Items
  BY <1>1, <1>2, <1>3, ItemIs
<1>5. Item \in Datum /\ Item.type \notin Kind
  BY <1>3, <1>4 DEF Items, Datum, Kind
<1>6. reader' = PushValue(Read, Item)
  BY <1>1 DEF ReadAtom, Attach
<1> HIDE DEF v
<1>7. Stands(Item, v, reader.next, O) => Like(msg.values, O, reader.next + 1, v, Item)
  <2> SUFFICES ASSUME Stands(Item, v, reader.next, O)
               PROVE  Like(msg.values, O, reader.next + 1, v, Item)
    OBVIOUS
  <2>1. v \in Atom /\ Item.val = v
    BY <1>3 DEF Stands, Kind
  <2>2. v \notin Obj
    BY <2>1, CodecAssumption
  <2>3. QED
    BY <1>3, <2>1, <2>2 DEF Like
<1>8. QED
  BY <1>1, <1>3, <1>5, <1>6, <1>7, ReadStep DEF v

\* when it reads a reference, which stands for the table of that item,
LEMMA ReferenceRead ==
  ASSUME Built, Readable, NEW H, NEW O, Story(heap, args, builder, calls, H, O),
         Mirrors(heap, msg.values, reader, H[reader.next], O), ReadReference
  PROVE  Mirrors(heap, msg.values, reader', H[reader'.next], O)
<1> DEFINE v == H[reader.next][Len(reader.calls)].list[Top.got + 1]
           c == [type |-> "object", id |-> Item.ref]
           n == reader.next
<1>1. msg # NoObj /\ msg.flagged = {}
  BY DEF Readable
<1>2. n \in 0..Len(msg.values) /\ n \in Nat
  BY DEF Mirrors, Reader
<1>3. Due /\ n < Len(msg.values) /\ Item.type = "reference"
  BY <1>2, MoreIs DEF ReadReference
<1>4. Item \in Items
  BY <1>1, <1>2, <1>3, ItemIs
<1>5. Item.ref \in Nat /\ Item.type \notin Kind
  BY <1>3, <1>4 DEF Items, Kind
<1>6. Item.ref \in msg.shared /\ Item.ref \in 0..n - 1 /\ msg.values[Item.ref + 1].type = "table"
  <2>1. Refers(msg.values, msg.shared)
    BY <1>1, Returned DEF Story
  <2>2. n \in 0..Len(msg.values) - 1
    <3>1. Len(msg.values) \in Nat
      BY <1>1, Returned
    <3> HIDE DEF n
    <3>2. QED
      BY <1>2, <1>3, <3>1
  <2>3. QED
    BY <1>3, <2>1, <2>2 DEF Refers, Item
<1>7. reader' = PushValue(Read, c)
  BY <1>1, <1>6 DEF ReadReference, Attach
<1>8. c \in Datum
  BY <1>5 DEF Datum
<1> HIDE DEF v
<1>9. Stands(Item, v, n, O) => Like(msg.values, O, n + 1, v, c)
  <2> SUFFICES ASSUME Stands(Item, v, n, O) PROVE Like(msg.values, O, n + 1, v, c)
    OBVIOUS
  <2>1. v \in Obj /\ O[Item.ref] = v
    BY <1>3 DEF Stands, Kind
  <2>2. c.type = "object" /\ c.id = Item.ref
    OBVIOUS
  <2>3. Item.ref \in 0..(n + 1) - 1
    BY <1>2, <1>6
  <2> HIDE DEF c, n
  <2>4. QED
    BY <1>6, <2>1, <2>2, <2>3 DEF Like, Kind
<1> HIDE DEF c
<1>10. QED
  BY <1>1, <1>3, <1>5, <1>7, <1>8, <1>9, ReadStep DEF v

\* when it reads an object, and begins to decode the parts,
LEMMA ObjectRead ==
  ASSUME Built, Readable, NEW H, NEW O, Story(heap, args, builder, calls, H, O),
         Mirrors(heap, msg.values, reader, H[reader.next], O), ReadObject
  PROVE  Mirrors(heap, msg.values, reader', H[reader'.next], O)
<1> DEFINE v == H[reader.next][Len(reader.calls)].list[Top.got + 1]
           n == reader.next
           c == [type |-> "object", id |-> n]
<1>1. msg # NoObj
  BY DEF Readable
<1>2. n \in 0..Len(msg.values) /\ n \in Nat
  BY DEF Mirrors, Reader
<1>3. Due /\ n < Len(msg.values) /\ Item.type \in Kind
  BY <1>2, MoreIs DEF ReadObject, Kind
<1>4. Item = msg.values[n + 1]
  BY DEF Item
<1>5. reader' = [PushValue(Read, c) EXCEPT !.calls = Append(@, Reading(n, Len(reader.stack) + 1))]
  BY DEF ReadObject
<1>6. c \in Datum
  BY <1>2 DEF Datum
<1> HIDE DEF v
<1>7. Stands(Item, v, n, O) => Like(msg.values, O, n + 1, v, c)
  <2> SUFFICES ASSUME Stands(Item, v, n, O) PROVE Like(msg.values, O, n + 1, v, c)
    OBVIOUS
  <2>1. v \in Obj /\ O[n] = v
    BY <1>3 DEF Stands, Kind
  <2>2. c.type = "object" /\ c.id = n /\ n \in 0..(n + 1) - 1
    BY <1>2
  <2> HIDE DEF c, n
  <2>3. QED
    BY <1>3, <1>4, <2>1, <2>2 DEF Like
<1> HIDE DEF c
<1>8. QED
  BY <1>1, <1>3, <1>5, <1>6, <1>7, ReadStep DEF v, n

\* There is nothing more to read when everything has been decoded.
LEMMA NothingRead ==
  ASSUME Built, Readable, NEW H, NEW O, Story(heap, args, builder, calls, H, O),
         Mirrors(heap, msg.values, reader, H[reader.next], O), NothingMore
  PROVE  Mirrors(heap, msg.values, reader', H[reader'.next], O)
<1> DEFINE n == reader.next
           h == H[n]
           m == Len(reader.calls)
<1>1. msg # NoObj
  BY DEF Readable
<1>2. n \in 0..Len(msg.values) /\ reader \in Reader
  BY DEF Mirrors
<1>3. n = Len(msg.values)
  <2>1. ~ (n < Len(msg.values))
    BY <1>2, MoreIs DEF NothingMore
  <2>2. Len(msg.values) \in Nat
    BY <1>1, Returned
  <2> HIDE DEF n
  <2>3. QED
    BY <1>2, <2>1, <2>2
<1>4. /\ Len(h) \in Nat /\ m \in 1..Len(h)
      /\ Top.index = h[m].index /\ Top.got = h[m].done
      /\ m = 1 => Top.index = -1
      /\ m # 1 => Top.index \in 0..n - 1 /\ Needed = Len(h[m].list) /\ Needed \in Nat
      /\ h[m] \in Call
  BY <1>1, TopIs
<1>5. \A k \in 2..Len(h) : Done(h[k])
  <2>1. msg.values = builder.values /\ Len(calls) = 1
    BY <1>1, Returned
  <2>2. Left(calls, h)
    BY <1>3, <2>1 DEF Story
  <2>3. Len(calls) + 1 = 2
    BY <2>1
  <2> HIDE DEF h
  <2>4. QED
    BY <2>2, <2>3 DEF Left
<1>6. m = 1
  <2> SUFFICES ASSUME m # 1 PROVE FALSE
    OBVIOUS
  <2>1. Top.index \in 0..n - 1 /\ Needed = Len(h[m].list)
    BY <1>4
  <2>2. Top.index # -1
    BY <2>1
  <2>3. Top.got < Needed
    BY <2>2 DEF NothingMore, Due
  <2>4. m \in 2..Len(h)
    <3>1. m # 1
      OBVIOUS
    <3> HIDE DEF m, h
    <3>2. QED
      BY <1>4, <3>1
  <2>5. h[m].done = Len(h[m].list)
    BY <1>5, <2>4 DEF Done
  <2>6. Needed \in Nat
    BY <1>4
  <2>7. Top.got = Needed
    BY <1>4, <2>1, <2>5
  <2>8. QED
    BY ONLY <2>3, <2>6, <2>7
<1>7. reader' = [reader EXCEPT !.more = FALSE]
  BY <1>4, <1>6 DEF NothingMore
<1>8. /\ reader' \in Reader /\ reader'.next = reader.next /\ reader'.stack = reader.stack
      /\ reader'.objects = reader.objects /\ reader'.calls = reader.calls
      /\ reader'.fault = reader.fault
  BY <1>2, <1>7 DEF Reader
<1> DEFINE d == reader
           e == reader'
           vs == msg.values
<1>9. Mirrors(heap, vs, d, h, O)
  OBVIOUS
<1>10. /\ e \in Reader /\ e.next = d.next /\ e.stack = d.stack /\ e.objects = d.objects
       /\ e.calls = d.calls /\ e.fault = d.fault /\ Len(d.calls) = 1 /\ d.next = Len(vs)
  BY <1>3, <1>6, <1>8
<1>11. H[reader'.next] = h
  BY <1>8
<1> HIDE DEF d, e, vs, h
<1>12. e.next \in 0..Len(vs) /\ Synced(e, h) /\ Stacked(e) /\ e.fault = FALSE
  BY <1>9, <1>10 DEF Mirrors, Synced, Stacked
<1>13. Holds(vs, O, e, h)
  BY <1>9, <1>10 DEF Mirrors, Holds
<1>14. Makes(heap, vs, O, e)
  BY <1>9, <1>10 DEF Mirrors, Makes
<1>15. Unique(e) /\ Covers(vs, e)
  BY <1>9, <1>10 DEF Mirrors, Unique, Covers
<1>16. Mirrors(heap, vs, e, h, O)
  BY <1>10, <1>12, <1>13, <1>14, <1>15 DEF Mirrors
<1>17. QED
  BY <1>11, <1>16 DEF vs, e

\* and when it has decoded them, which are as many as were written.
LEMMA ObjectEnded ==
  ASSUME Built, Readable, NEW H, NEW O, Story(heap, args, builder, calls, H, O),
         Mirrors(heap, msg.values, reader, H[reader.next], O), EndObject
  PROVE  Mirrors(heap, msg.values, reader', H[reader'.next], O)
<1> DEFINE n == reader.next
           h == H[n]
           m == Len(reader.calls)
           i == Top.index
           b == Top.base
           s == reader.stack
           vs == msg.values
           c == SubSeq(s, b + 1, b + Needed)
           r == [id |-> i, kind |-> vs[i + 1].type, parts |-> c]
<1>1. msg # NoObj /\ msg.flagged = {}
  BY DEF Readable
<1>2. /\ n \in Nat /\ Len(h) \in Nat /\ m \in 1..Len(h)
      /\ Top = reader.calls[m] /\ Top \in ReadCall
      /\ Top.got = h[m].done
      /\ m = 1 => i = -1
      /\ m # 1 => /\ i \in 0..n - 1 /\ Here = vs[i + 1] /\ Here.type \in Kind
                  /\ h[m].list = Listed(heap[O[i]])
                  /\ Needed = Len(h[m].list) /\ Needed \in Nat
  BY <1>1, TopIs
<1>3. m # 1 /\ Top.got = Needed
  BY <1>2 DEF EndObject
<1>4. /\ i \in 0..n - 1 /\ Here = vs[i + 1] /\ Here.type \in Kind
      /\ h[m].list = Listed(heap[O[i]]) /\ Needed = Len(h[m].list) /\ Needed \in Nat
  BY <1>2, <1>3
<1>5. b \in Nat
  BY <1>2 DEF ReadCall
<1>6. reader \in Reader /\ Len(s) = b + Needed
  <2>1. Len(s) = reader.calls[m].base + reader.calls[m].got
    BY DEF Mirrors, Stacked
  <2>2. QED
    BY <1>2, <1>3, <2>1 DEF Mirrors
<1>7. /\ s \in Seq(Datum) /\ reader.objects \in Seq(Made) /\ reader.calls \in Seq(ReadCall)
      /\ reader.next \in Nat /\ reader.fault \in BOOLEAN /\ reader.more \in BOOLEAN
  BY <1>6 DEF Reader
<1>8. c \in Seq(Datum)
  <2>1. b + Needed =< Len(s)
    BY <1>4, <1>5, <1>6
  <2> HIDE DEF s, b
  <2>2. QED
    BY <1>4, <1>5, <1>7, <2>1, Cut
<1>9. SubSeq(s, 1, b) \in Seq(Datum)
  <2>1. 0 + b =< Len(s) /\ 0 + 1 = 1 /\ 0 + b = b /\ 0 \in Nat
    BY <1>4, <1>5, <1>6
  <2> HIDE DEF s, b
  <2>2. SubSeq(s, 0 + 1, 0 + b) \in Seq(Datum)
    BY <1>5, <1>7, <2>1, Cut
  <2>3. QED
    BY <2>1, <2>2
<1>10. r \in Made
  <2>1. i \in Nat /\ vs[i + 1].type \in Kind
    BY <1>2, <1>4
  <2> HIDE DEF i, c, vs
  <2>2. QED
    BY <1>8, <2>1 DEF Made
<1> HIDE DEF r
<1>11. Append(reader.objects, r) \in Seq(Made)
  BY <1>7, <1>10, Pushed
<1>12. Front(reader.calls) \in Seq(ReadCall)
  <2>1. Len(reader.calls) # 0
    BY <1>2
  <2>2. QED
    BY <1>7, <2>1, Popped
<1> DEFINE q == [reader EXCEPT !.stack = SubSeq(s, 1, b)]
           p == [q EXCEPT !.objects = Append(reader.objects, r)]
           e == [p EXCEPT !.calls = Front(reader.calls)]
<1>13. /\ q \in Reader /\ q.next = n /\ q.stack = SubSeq(s, 1, b)
       /\ q.objects = reader.objects /\ q.calls = reader.calls
       /\ q.fault = reader.fault /\ q.more = reader.more
  BY <1>6, <1>7, <1>9 DEF Reader
<1>14. Collect(reader, i, Here.type, b, Needed) = p
  <2>1. r = [id |-> i, kind |-> Here.type, parts |-> SubSeq(reader.stack, b + 1, b + Needed)]
    BY <1>4 DEF r
  <2> HIDE DEF i, b
  <2>2. QED
    BY <1>6, <2>1 DEF Collect
<1> HIDE DEF q
<1>15. /\ p \in Reader /\ p.next = n /\ p.stack = SubSeq(s, 1, b)
       /\ p.objects = Append(reader.objects, r) /\ p.calls = reader.calls
       /\ p.fault = reader.fault /\ p.more = reader.more
  BY <1>11, <1>13 DEF Reader
<1>16. reader' = e
  BY <1>1, <1>14, <1>15 DEF EndObject, Attach
<1> HIDE DEF p
<1>17. /\ e \in Reader /\ e.next = n /\ e.stack = SubSeq(s, 1, b)
       /\ e.objects = Append(reader.objects, r) /\ e.calls = Front(reader.calls)
       /\ e.fault = reader.fault /\ e.more = reader.more
  BY <1>12, <1>15 DEF Reader
<1> HIDE DEF e
<1>18. /\ reader' \in Reader /\ reader'.next = n /\ reader'.stack = SubSeq(s, 1, b)
       /\ reader'.objects = Append(reader.objects, r)
       /\ reader'.calls = Front(reader.calls)
       /\ reader'.fault = FALSE /\ reader'.more = reader.more
  <2>1. reader.fault = FALSE
    BY DEF Mirrors
  <2>2. QED
    BY <1>16, <1>17, <2>1
<1>19. /\ i = reader.calls[m].index /\ b = reader.calls[m].base
       /\ Needed = reader.calls[m].got /\ Needed = Len(h[m].list)
       /\ i \in 0..reader.next - 1 /\ vs[i + 1].type \in Kind
       /\ h[m].list = Listed(heap[O[i]])
  BY <1>2, <1>3, <1>4
<1>20. reader'.objects = Append(reader.objects, [id |-> i, kind |-> vs[i + 1].type,
                                                 parts |-> SubSeq(s, b + 1, b + Needed)])
  BY <1>18 DEF r
<1>21. Mirrors(heap, vs, reader, h, O)
  OBVIOUS
<1> HIDE DEF h, i, b, vs, r, c
<1>22. Mirrors(heap, vs, reader', h, O)
  <2>1. Completes(heap, vs, O, h, reader, reader', i, b, Needed)
    BY ONLY <1>2, <1>3, <1>4, <1>18, <1>19, <1>20 DEF Completes
  <2>2. QED
    BY ONLY <1>21, <2>1, MirrorsEnd
<1>23. QED
  BY <1>18, <1>22 DEF h, vs

\* Before anything is read, nothing had been pushed.
LEMMA MirrorsNew ==
  ASSUME NEW hp, NEW vs, NEW O, NEW a, Len(vs) \in Nat
  PROVE  Mirrors(hp, vs, NewReader, <<Frame("message", NoObj, -1, a)>>, O)
<1> DEFINE h == <<Frame("message", NoObj, -1, a)>>
           d == NewReader
           f == Reading(-1, 0)
<1>1. f \in ReadCall /\ f.index = -1 /\ f.base = 0 /\ f.got = 0
  BY DEF Reading, ReadCall
<1>2. h[1].index = -1 /\ h[1].done = 0 /\ Len(h) = 1
  BY DEF Frame
<1>3. /\ d.next = 0 /\ d.stack = <<>> /\ d.objects = <<>> /\ d.calls = <<f>>
      /\ d.fault = FALSE /\ d.more = TRUE
  BY DEF NewReader
<1> HIDE DEF h, f
<1>4. <<f>> \in Seq(ReadCall) /\ Len(<<f>>) = 1 /\ <<f>>[1] = f
  BY <1>1
<1>5. d \in Reader
  <2>1. <<>> \in Seq(Datum) /\ <<>> \in Seq(Made)
    OBVIOUS
  <2>2. d = [next |-> 0, stack |-> <<>>, objects |-> <<>>, calls |-> <<f>>,
             fault |-> FALSE, more |-> TRUE]
    BY DEF NewReader, f
  <2> HIDE DEF d
  <2>3. QED
    BY <1>4, <2>1, <2>2 DEF Reader
<1>6. Len(d.calls) = 1 /\ d.calls[1] = f /\ Len(d.objects) = 0 /\ Len(d.stack) = 0
  BY <1>3, <1>4
<1>7. 1..1 = {1} /\ 1..0 = {} /\ 1 + 1..1 = {} /\ 1..1 - 1 = {} /\ 0..0 - 1 = {}
  OBVIOUS
<1> HIDE DEF d
<1>8. Synced(d, h)
  BY <1>1, <1>2, <1>6, <1>7 DEF Synced
<1>9. Stacked(d)
  <2>1. \A k, l \in 1..1 : ~ (k < l)
    BY <1>7
  <2>2. QED
    BY <1>1, <1>6, <1>7, <2>1 DEF Stacked
<1>10. Holds(vs, O, d, h) /\ Makes(hp, vs, O, d)
  BY <1>1, <1>6, <1>7 DEF Holds, Makes
<1>11. Unique(d) /\ Covers(vs, d)
  <2>1. \A k \in 1..1 : k = 1
    BY <1>7
  <2>2. QED
    BY <1>1, <1>3, <1>6, <1>7, <2>1 DEF Unique, Covers
<1>12. d.next \in 0..Len(vs)
  BY <1>3
<1>13. QED
  BY <1>3, <1>5, <1>8, <1>9, <1>10, <1>11, <1>12 DEF Mirrors, d, h

\* A message that can be read is read in the order it was written.
Decoded ==
  /\ msg = NoObj => reader = NewReader
  /\ Readable => \E H, O : /\ Story(heap, args, builder, calls, H, O)
                           /\ Mirrors(heap, msg.values, reader, H[reader.next], O)

\* Nothing has been read at first.
LEMMA DecodedInit == Init => Decoded
  BY DEF Init, Decoded, Readable

\* Once there is a message, nothing more is written.
LEMMA Finished ==
  ASSUME Built, msg # NoObj
  PROVE  Caller.kind = "message" /\ ~ (Caller.done < Len(Caller.list))
<1>1. Len(calls) = 1 /\ calls[1].done = Len(args)
  BY Returned
<1>2. calls \in Seq(Call) /\ args \in Seq(Value) /\ calls[1].kind = "message" /\ calls[1].list = args
  BY DEF Built, TypeOK, Frames
<1>3. Caller = calls[1]
  <2>1. Len(calls) # 0
    BY <1>1
  <2>2. QED
    BY <1>1, <1>2, <2>1, Popped DEF Caller
<1>4. Len(args) \in Nat
  BY <1>2, LenProperties
<1>5. QED
  BY <1>1, <1>2, <1>3, <1>4

\* A message is read only after it has been written.
LEMMA Sides ==
  ASSUME Built, [Next]_vars
  PROVE  \/ NewMessage
         \/ /\ NothingMore \/ ReadAtom \/ ReadReference \/ ReadObject \/ EndObject
            /\ UNCHANGED <<heap, args, builder, calls, msg>> /\ msg # NoObj
         \/ UNCHANGED <<heap, args, builder, calls, msg, reader>>
         \/ reader' = reader /\ msg' = msg /\ msg = NoObj
<1>1. ASSUME NEW v, NEW b, Write(v, b) PROVE reader' = reader /\ msg' = msg /\ msg = NoObj
  <2>1. reader' = reader /\ msg' = msg /\ Caller.done < Len(Caller.list)
    BY <1>1 DEF Write
  <2>2. QED
    BY <2>1, Finished
<1>2. CASE EndParts \/ EndMeta
  <2>1. reader' = reader /\ msg' = msg /\ Caller.kind # "message"
    BY <1>2 DEF EndParts, EndMeta, Over
  <2>2. QED
    BY <2>1, Finished
<1>3. CASE NothingMore \/ ReadAtom \/ ReadReference \/ ReadObject \/ EndObject
  BY <1>3 DEF NothingMore, ReadAtom, ReadReference, ReadObject, EndObject, Due, Decoding
<1>4. CASE DecodeEnd
  BY <1>4 DEF DecodeEnd
<1>5. CASE UNCHANGED vars
  BY <1>5 DEF vars
<1>6. CASE Skip
  BY <1>1, <1>6 DEF Skip
<1>7. ASSUME NEW v \in Atom, WriteAtom(v) PROVE reader' = reader /\ msg' = msg /\ msg = NoObj
  BY <1>1, <1>7 DEF WriteAtom
<1>8. ASSUME NEW v \in Obj, WriteReference(v) \/ Raise(v) \/ WriteObject(v)
      PROVE  reader' = reader /\ msg' = msg /\ msg = NoObj
  BY <1>1, <1>8 DEF WriteReference, Raise, WriteObject
<1>9. QED
  BY <1>2, <1>3, <1>4, <1>5, <1>6, <1>7, <1>8 DEF Next

\* What has been read is in step with what was written, after any step.
LEMMA DecodedStep ==
  ASSUME Built, Built', Told', Decoded, [Next]_vars
  PROVE  Decoded'
<1> USE DEF Decoded
<1>1. CASE NewMessage
  <2>1. msg = NoObj /\ reader' = reader
    BY <1>1 DEF NewMessage, Over
  <2>2. reader' = NewReader
    BY <2>1
  <2> SUFFICES ASSUME Readable'
               PROVE  \E H, O : /\ Story(heap', args', builder', calls', H, O)
                                /\ Mirrors(heap', msg'.values, reader', H[reader'.next], O)
    BY <2>2
  <2>3. msg' # NoObj /\ msg'.flagged = {} /\ Supported'
    BY DEF Readable
  <2>4. /\ msg'.values = builder'.values /\ msg'.flagged = builder'.flagged
        /\ Len(calls') = 1 /\ ~ builder'.raised
    BY <2>3 DEF Built, Sent
  <2>5. calls'[1].kind = "message" /\ builder' \in Builder
    BY DEF Built, Frames, TypeOK
  <2>6. Plain'
    <3>1. \A k \in 1..Len(calls') : k = 1
      BY <2>4
    <3>2. QED
      BY <2>3, <2>4, <2>5, <3>1 DEF Plain
  <2>7. PICK H, O : Story(heap', args', builder', calls', H, O)
    BY <2>3, <2>6 DEF Told
  <2>8. Len(msg'.values) \in Nat
    <3>1. builder'.values \in Seq(Items)
      BY <2>5 DEF Builder
    <3>2. QED
      BY <2>4, <3>1, LenProperties
  <2>9. H[reader'.next] = <<Frame("message", NoObj, -1, args')>>
    <3>1. reader'.next = 0
      BY <2>2 DEF NewReader
    <3>2. QED
      BY <2>7, <3>1 DEF Story
  <2>10. Mirrors(heap', msg'.values, reader', H[reader'.next], O)
    BY <2>2, <2>8, <2>9, MirrorsNew
  <2>11. QED
    BY <2>7, <2>10
<1>2. CASE /\ NothingMore \/ ReadAtom \/ ReadReference \/ ReadObject \/ EndObject
           /\ UNCHANGED <<heap, args, builder, calls, msg>> /\ msg # NoObj
  <2>1. UNCHANGED <<heap, args, builder, calls, msg>> /\ msg' # NoObj
    BY <1>2
  <2>2. Readable' <=> Readable
    BY <2>1 DEF Readable, Supported
  <2> SUFFICES ASSUME Readable
               PROVE  \E H, O : /\ Story(heap, args, builder, calls, H, O)
                                /\ Mirrors(heap, msg.values, reader', H[reader'.next], O)
    BY <2>1, <2>2
  <2>3. PICK H, O : /\ Story(heap, args, builder, calls, H, O)
                    /\ Mirrors(heap, msg.values, reader, H[reader.next], O)
    OBVIOUS
  <2>4. Mirrors(heap, msg.values, reader', H[reader'.next], O)
    <3>1. CASE NothingMore
      BY <2>3, <3>1, NothingRead
    <3>2. CASE ReadAtom
      BY <2>3, <3>2, AtomRead
    <3>3. CASE ReadReference
      BY <2>3, <3>3, ReferenceRead
    <3>4. CASE ReadObject
      BY <2>3, <3>4, ObjectRead
    <3>5. CASE EndObject
      BY <2>3, <3>5, ObjectEnded
    <3>6. QED
      BY <1>2, <3>1, <3>2, <3>3, <3>4, <3>5
  <2>5. QED
    BY <2>3, <2>4
<1>3. CASE UNCHANGED <<heap, args, builder, calls, msg, reader>>
  BY <1>3 DEF Readable, Supported
<1>4. CASE reader' = reader /\ msg' = msg /\ msg = NoObj
  BY <1>4 DEF Readable
<1>5. QED
  BY <1>1, <1>2, <1>3, <1>4, Sides

\* A message that can be read has been decoded into its arguments.
LEMMA Copied ==
  ASSUME Built, Decoded
  PROVE  RoundTrip
<1> DEFINE vs == msg.values
           os == reader.objects
           ids == {r.id : r \in Range(os)}
           Good(origin) ==
             /\ Len(reader.stack) = Len(args)
             /\ \A i \in DOMAIN args : Image(origin, args[i], reader.stack[i])
             /\ \A r \in Range(os) :
                  LET o == heap[origin[r.id]]
                  IN /\ r.kind = o.kind /\ Len(r.parts) = Len(Listed(o))
                     /\ \A i \in DOMAIN r.parts : Image(origin, Listed(o)[i], r.parts[i])
             /\ \A q, r \in Range(os) :
                  q.kind = "table" /\ origin[q.id] = origin[r.id] => q = r
<1> SUFFICES ASSUME Readable
             PROVE  ~ reader.fault /\ (~ reader.more => \E origin \in [ids -> Obj] : Good(origin))
  BY DEF RoundTrip
<1>1. PICK H, O : /\ Story(heap, args, builder, calls, H, O)
                  /\ Mirrors(heap, vs, reader, H[reader.next], O)
  BY DEF Decoded
<1>2. reader.fault = FALSE /\ reader \in Reader
  BY <1>1 DEF Mirrors
<1> HIDE DEF Good
<1> SUFFICES ASSUME ~ reader.more PROVE \E origin \in [ids -> Obj] : Good(origin)
  BY <1>2
<1>3. Len(reader.calls) = 1 /\ reader.next = Len(vs)
  <2>1. reader.more = FALSE
    BY <1>2 DEF Reader
  <2>2. QED
    BY <1>1, <2>1 DEF Mirrors
<1>4. /\ msg # NoObj /\ vs = builder.values /\ Len(vs) \in Nat
      /\ Len(calls) = 1 /\ calls[1].done = Len(args)
  <2>1. msg # NoObj
    BY DEF Readable
  <2>2. QED
    BY <2>1, Returned
<1> DEFINE n == Len(vs)
           h == H[n]
           c == reader.calls[1]
<1>5. /\ Synced(reader, h) /\ Stacked(reader) /\ Holds(vs, O, reader, h)
      /\ Makes(heap, vs, O, reader) /\ Unique(reader) /\ Covers(vs, reader)
  BY <1>1, <1>3 DEF Mirrors
<1>6. /\ Left(calls, h) /\ Past(heap, args, vs, O, n, h) /\ Whole(heap, vs, calls, O)
      /\ Mapped(vs, builder.refmap, O)
  <2>1. n \in 0..n
    BY <1>4
  <2>2. QED
    BY <1>1, <1>4, <2>1 DEF Story
<1>7. os \in Seq(Made) /\ reader.stack \in Seq(Datum) /\ Len(os) \in Nat
  <2>1. os \in Seq(Made) /\ reader.stack \in Seq(Datum)
    BY <1>2 DEF Reader
  <2>2. QED
    BY <2>1, LenProperties
<1>8. c.index = -1 /\ c.got = Len(args) /\ c.base = 0 /\ h[1].list = args
  <2>1. c.index = h[1].index /\ c.got = h[1].done
    BY <1>3, <1>5 DEF Synced
  <2>2. calls[1] = h[1]
    BY <1>4, <1>6 DEF Left
  <2>3. h[1].index = -1 /\ h[1].list = args
    BY <1>6 DEF Past
  <2>4. c.base = 0
    BY <1>5 DEF Stacked
  <2>5. QED
    BY <1>4, <2>1, <2>2, <2>3, <2>4
<1>9. Len(args) \in Nat /\ args \in Seq(Value) /\ DOMAIN args = 1..Len(args)
  <2>1. args \in Seq(Value)
    BY DEF Built, TypeOK
  <2>2. QED
    BY <2>1, LenProperties
<1>10. Len(reader.stack) = Len(args)
  <2>1. Len(reader.stack) = c.base + c.got
    BY <1>3, <1>5 DEF Stacked
  <2> HIDE DEF c
  <2>2. QED
    BY <1>8, <1>9, <2>1
<1>11. ASSUME NEW p \in 0..n - 1, vs[p + 1].type \in Kind
       PROVE  \E i \in 1..Len(os) : os[i].id = p
  <2>1. \/ \E i \in 1..Len(os) : os[i].id = p
        \/ \E k \in 1..1 : reader.calls[k].index = p
    BY <1>3, <1>5, <1>11 DEF Covers
  <2>2. ~ \E k \in 1..1 : reader.calls[k].index = p
    <3>1. p # -1 /\ \A k \in 1..1 : k = 1
      BY <1>4
    <3>2. QED
      BY <1>8, <3>1
  <2>3. QED
    BY <2>1, <2>2
<1>12. /\ \A i \in 1..Len(os) : os[i] \in Range(os)
       /\ \A r \in Range(os) : \E i \in 1..Len(os) : r = os[i]
  <2> HIDE DEF os
  <2>1. DOMAIN os = 1..Len(os)
    BY <1>7, LenProperties
  <2>2. QED
    BY <2>1 DEF Range
<1>13. ASSUME NEW p \in 0..n - 1, vs[p + 1].type \in Kind
       PROVE  O[p] \in Obj /\ vs[p + 1].type = heap[O[p]].kind
  BY <1>4, <1>6, <1>13 DEF Whole
<1>14. ASSUME NEW r \in Range(os)
       PROVE  /\ Copies(heap, vs, O, n, r) /\ r.id \in 0..n - 1 /\ vs[r.id + 1].type \in Kind
              /\ O[r.id] \in Obj /\ r.kind = heap[O[r.id]].kind /\ r.id \in ids
              /\ DOMAIN r.parts = 1..Len(r.parts)
  <2>1. PICK i \in 1..Len(os) : r = os[i]
    BY <1>12
  <2>2. Copies(heap, vs, O, n, r)
    BY <1>3, <1>5, <2>1 DEF Makes
  <2>3. r.id \in 0..n - 1 /\ vs[r.id + 1].type \in Kind /\ r.kind = vs[r.id + 1].type
    BY <2>2 DEF Copies
  <2>4. r \in Made
    <3> HIDE DEF os
    <3>1. QED
      BY <1>7, <2>1, ElementOfSeq
  <2>5. DOMAIN r.parts = 1..Len(r.parts)
    <3>1. r.parts \in Seq(Datum)
      BY <2>4 DEF Made
    <3>2. QED
      BY <3>1, LenProperties
  <2> HIDE DEF os, vs
  <2>6. QED
    BY <1>13, <2>2, <2>3, <2>5 DEF os
<1> DEFINE origin == [id \in ids |-> O[id]]
<1>15. origin \in [ids -> Obj]
  <2>1. \A p \in ids : O[p] \in Obj
    BY <1>14
  <2> HIDE DEF ids
  <2>2. QED
    BY <2>1
<1>16. ASSUME NEW v, NEW d, Like(vs, O, n, v, d) PROVE Image(origin, v, d)
  <2>1. CASE v \in Obj
    <3>1. d.type = "object" /\ d.id \in 0..n - 1 /\ vs[d.id + 1].type \in Kind /\ O[d.id] = v
      BY <1>16, <2>1 DEF Like
    <3>2. PICK i \in 1..Len(os) : os[i].id = d.id
      BY <1>11, <3>1
    <3>3. d.id \in ids
      BY <1>12, <3>2
    <3> HIDE DEF ids
    <3>4. d.id \in DOMAIN origin /\ origin[d.id] = v
      BY <3>1, <3>3
    <3>5. QED
      BY <2>1, <3>1, <3>4 DEF Image
  <2>2. CASE v \notin Obj
    BY <1>16, <2>2 DEF Like, Image
  <2>3. QED
    BY <2>1, <2>2
<1>17. ASSUME NEW i \in DOMAIN args PROVE Image(origin, args[i], reader.stack[i])
  <2>1. i \in 1..Len(args) /\ 0 + i = i
    BY <1>9
  <2>2. Like(vs, O, reader.next, h[1].list[i], reader.stack[reader.calls[1].base + i])
    <3>1. 1 \in 1..Len(reader.calls) /\ i \in 1..reader.calls[1].got
      BY <1>3, <1>8, <2>1
    <3>2. QED
      BY <1>5, <3>1 DEF Holds
  <2>3. Like(vs, O, n, args[i], reader.stack[i])
    BY <1>3, <1>8, <2>1, <2>2
  <2>4. QED
    BY <1>16, <2>3
<1> HIDE DEF origin
<1>18. ASSUME NEW r \in Range(os)
       PROVE  /\ r.kind = heap[origin[r.id]].kind
              /\ Len(r.parts) = Len(Listed(heap[origin[r.id]]))
              /\ \A i \in DOMAIN r.parts :
                   Image(origin, Listed(heap[origin[r.id]])[i], r.parts[i])
  <2>1. origin[r.id] = O[r.id]
    <3>1. r.id \in ids
      BY <1>14
    <3> HIDE DEF ids
    <3>2. QED
      BY <3>1 DEF origin
  <2>2. Copies(heap, vs, O, n, r) /\ r.kind = heap[O[r.id]].kind /\ DOMAIN r.parts = 1..Len(r.parts)
    BY <1>14
  <2>3. /\ Len(r.parts) = Len(Listed(heap[O[r.id]]))
        /\ \A i \in 1..Len(r.parts) : Like(vs, O, n, Listed(heap[O[r.id]])[i], r.parts[i])
    BY <2>2 DEF Copies
  <2>4. \A i \in DOMAIN r.parts : Image(origin, Listed(heap[O[r.id]])[i], r.parts[i])
    BY <1>16, <2>2, <2>3
  <2>5. QED
    BY <2>1, <2>2, <2>3, <2>4
<1>19. ASSUME NEW q \in Range(os), NEW r \in Range(os),
              q.kind = "table", origin[q.id] = origin[r.id]
       PROVE  q = r
  <2>1. q.id \in ids /\ r.id \in ids
    BY <1>14
  <2>2. O[q.id] = O[r.id]
    <3> HIDE DEF ids
    <3>1. QED
      BY <1>19, <2>1 DEF origin
  <2>3. /\ q.id \in 0..n - 1 /\ r.id \in 0..n - 1
        /\ q.kind = heap[O[q.id]].kind /\ r.kind = heap[O[r.id]].kind
        /\ Copies(heap, vs, O, n, q) /\ Copies(heap, vs, O, n, r)
    BY <1>14
  <2>4. vs[q.id + 1].type = "table" /\ vs[r.id + 1].type = "table"
    BY <1>19, <2>2, <2>3 DEF Copies
  <2> DEFINE x == <<O[q.id], q.id>>
             y == <<O[r.id], r.id>>
  <2>5. x \in builder.refmap /\ y \in builder.refmap
    BY <1>6, <2>3, <2>4 DEF Mapped
  <2>6. x[1] = y[1] /\ x[2] = q.id /\ y[2] = r.id
    BY <2>2
  <2> HIDE DEF x, y
  <2>7. x = y
    BY <1>6, <2>5, <2>6 DEF Mapped
  <2>8. q.id = r.id
    BY <2>6, <2>7
  <2>9. PICK i, j \in 1..Len(os) : q = os[i] /\ r = os[j]
    BY <1>12
  <2>10. i = j
    BY <1>5, <2>8, <2>9 DEF Unique
  <2>11. QED
    BY <2>9, <2>10
<1> HIDE DEF ids, os
<1>20. Good(origin)
  BY <1>10, <1>17, <1>18, <1>19 DEF Good
<1>21. QED
  BY <1>15, <1>20

\* Whatever the arguments and the objects reached from them are, a message that
\* can be read is decoded into copies of them (write_value and decode_value in
\* lc_message.c).
THEOREM Decodes == Spec => []RoundTrip
<1>1. Init => Built /\ Told /\ Decoded
  BY BuiltInit, ToldInit, DecodedInit
<1>2. Built /\ Told /\ Decoded /\ [Next]_vars => (Built /\ Told /\ Decoded)'
  <2> SUFFICES ASSUME Built, Told, Decoded, [Next]_vars PROVE Built' /\ Told' /\ Decoded'
    OBVIOUS
  <2>1. Built'
    BY BuiltStep
  <2>2. Told'
    BY ToldStep
  <2>3. QED
    BY <2>1, <2>2, DecodedStep
<1>3. Built /\ Told /\ Decoded => RoundTrip
  BY Copied
<1>4. QED
  BY <1>1, <1>2, <1>3, PTL DEF Spec

=============================================================================

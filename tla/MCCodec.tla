------------------------------- MODULE MCCodec -------------------------------
(* Constants of the Codec runs. *)
EXTENDS Codec

CONSTANTS o1, o2

\* write_value does not come to an end for a cycle of functions and userdata.
Ends(h) ==
  \E rank \in [Obj -> 1..Cardinality(Obj)] :
    \A o \in Obj, p \in Obj :
      h[o].kind # "table" /\ h[p].kind # "table" /\ p \in Range(h[o].parts)
        => rank[o] < rank[p]

\* Two objects with at most two parts each.
Graphs(kinds, values, metas) ==
  {h \in [Obj -> [kind : kinds, parts : BoundedSeq(values, 2), meta : metas]] : Ends(h)}

Kinds == {"table", "function", "userdata"}
AnyGraph == Graphs(Kinds, {Number, String, o1, o2}, {NoObj})

\* Tables with metatables; tables that hold a coroutine.
MetaTables == Graphs({"table"}, {Number}, {NoObj, o2})
WithThread == Graphs({"table"}, {Number, Thread}, {NoObj})
Mixed == Graphs({"table"}, {Thread, o2}, {NoObj, o2})

Everything == AnyGraph \cup Mixed

\* One object twice, two objects, an object after something else.
Lists == {<<o1, o1>>, <<o1, o2>>, <<Nil, o1>>, <<o1, o2, o1>>}
Plain == {<<o1>>, <<o1, Number>>}

=============================================================================

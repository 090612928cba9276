-------------------------------- MODULE Codec --------------------------------
(***************************************************************************)
(* Messages: write_value and the lc_push* functions collect the items of   *)
(* the arguments in a builder, msg_new writes them out, msg_next and       *)
(* decode_value read them back (message.c, lc_message.c).                  *)
(*                                                                         *)
(* An item is written with its type and the fields its type has, so the    *)
(* bytes of a message are a sequence of items, and a position in them is   *)
(* the number of items before it.  Sizes are in bytes: an int has 4, a     *)
(* number 8.                                                               *)
(*                                                                         *)
(* write_value and decode_value call themselves.  Their frames are the     *)
(* sequences calls and reader.calls, of which the first element is the     *)
(* loop of lua_newmessage or of lua_decodemessage; a step goes on to the   *)
(* next call or return.                                                    *)
(***************************************************************************)
EXTENDS Integers, Sequences, FiniteSets, SequencesExt

CONSTANTS
  Number, String,  \* the values without parts, by type; booleans are like nil
  Nil,
  Thread,          \* a value no message can hold
  Obj,             \* tables, functions and userdata of the sending state
  Heaps,           \* what these objects may be, see Object
  Arguments,       \* argument lists a message may be made of
  NoObj

Atom == {Number, String, Nil}
Value == Atom \cup {Thread} \cup Obj

\* parts: the values of a table, each with a number as its key, in the order of
\* lua_next; the upvalues of a function; what __save returns after the name.
Object == [kind : {"table", "function", "userdata"}, parts : Seq(Value), meta : Obj \cup {NoObj}]

ASSUME CodecAssumption ==
  /\ Thread \notin Atom \cup Obj /\ NoObj \notin Value /\ Atom \cap Obj = {}
  /\ Heaps \subseteq [Obj -> Object]
  /\ Arguments \subseteq Seq(Value)

VARIABLES
  heap, args,  \* the input
  builder,     \* the message_builder_t, and whether Lua has raised an error
  calls,       \* the calls of write_value
  msg,         \* what msg_new returned, or NoObj
  reader,      \* the cursor, the Lua stack, and the objects and calls of decode_value
  below        \* what the stack holds below the decoded values

vars == <<heap, args, builder, calls, msg, reader, below>>

-----------------------------------------------------------------------------
(* Items and their sizes. *)

\* The length of every string, name and dumped function.
Bytes == 3

\* What msg_new writes for an item.
Size(i) ==
  CASE i.type = "table"                    -> 4 + 8
    [] i.type \in {"function", "userdata"} -> 4 + 4 + 4 + Bytes
    [] i.type = "reference"                -> 4 + 4
    [] i.type = "atom" /\ i.val = String   -> 4 + 4 + Bytes
    [] i.type = "atom" /\ i.val = Number   -> 4 + 8
    [] OTHER                               -> 4

\* A mutant of Claimed: the length of a dumped function is forgotten.
ClaimedNoLength(i) ==
  CASE i.type = "reference" -> 4 [] i.type = "function" -> Size(i) - 4 [] OTHER -> Size(i)

\* What lc_push* adds to mb->bytes: lc_pushreference leaves out the type.
Claimed(i) == IF i.type = "reference" THEN 4 ELSE Size(i)

References(items) == Cardinality({i \in DOMAIN items : items[i].type = "reference"})

\* Offsets(items)[n]: the bytes of the first n items.
Offsets(items) ==
  LET f[n \in 0..Len(items)] == IF n = 0 THEN 0 ELSE f[n - 1] + Size(items[n])
  IN f

SizeOf(items) == Offsets(items)[Len(items)]

-----------------------------------------------------------------------------
(* The builder. *)

\* msg_builder_init.
NewBuilder == [values |-> <<>>, bytes |-> 0, count |-> 0, refmap |-> {},
               shared |-> {}, flagged |-> {}, raised |-> FALSE]

\* lc_push*, with next_index.  Indices begin at 0.
Push(b, item) == [b EXCEPT !.values = Append(@, item), !.bytes = @ + Claimed(item),
                           !.count = @ + 1]

\* A mutant of SetParts: a slot counts for one value.
SetPartsOnce(b, index, n, each) ==
  [b EXCEPT !.values[index + 1].parts = n, !.count = @ - n]

\* lc_settable, lc_setfunction, lc_setuserdata: the n parts, of each values,
\* are no arguments of their own.
SetParts(b, index, n, each) ==
  [b EXCEPT !.values[index + 1].parts = n, !.count = @ - each * n]

\* lc_setmeta, which write_value gives the SUCCESS it got for the metatable,
\* so that the first item of the message is flagged.
SetMeta(b) == [b EXCEPT !.flagged = @ \cup {0}, !.count = @ - 1]

\* ref_check of a table seen for the first time.
Remember(b, o) == [b EXCEPT !.refmap = @ \cup {<<o, Len(b.values)>>}]

Seen(b, o) == \E r \in b.refmap : r[1] = o

\* A mutant of Refer: the table is not marked as one that is referred to.
ReferUnmarked(b, o) ==
  Push(b, [type |-> "reference", ref |-> (CHOOSE r \in b.refmap : r[1] = o)[2]])

\* ref_check and lc_pushreference of one seen before.
Refer(b, o) ==
  LET index == (CHOOSE r \in b.refmap : r[1] = o)[2]
  IN [Push(b, [type |-> "reference", ref |-> index]) EXCEPT !.shared = @ \cup {index}]

\* A table is written as its keys and values.
Keyed(vs) == [i \in 1..(2 * Len(vs)) |-> IF i % 2 = 1 THEN Number ELSE vs[i \div 2]]

\* The values written for an object.
Listed(o) == IF o.kind = "table" THEN Keyed(o.parts) ELSE o.parts

\* A call: what it writes, the item it has pushed for it, the values it writes
\* after that, and how many of them it has called write_value for.
Frame(kind, obj, index, list) ==
  [kind |-> kind, obj |-> obj, index |-> index, list |-> list, done |-> 0]

-----------------------------------------------------------------------------
(* The cursor and the receiving Lua state.  An object is named by the index  *)
(* of its item, and its parts are values of the receiving state.             *)

\* A call of decode_value for the object of item index, which is at position
\* base of the stack, and how many values it has called decode_value for.
Reading(index, base) == [index |-> index, base |-> base, got |-> 0]

\* msg_cursor_init.
NewReader == [next |-> 0, stack |-> <<>>, objects |-> <<>>, calls |-> <<Reading(-1, 0)>>,
              fault |-> FALSE, more |-> TRUE]

PushValue(d, v) == [d EXCEPT !.stack = Append(@, v)]

\* The object of item index takes the values above position base of the stack
\* as its n parts, and is left on it.  A value that was not decoded is missed on
\* the stack.
Collect(d, index, kind, base, n) ==
  IF Len(d.stack) # base + n THEN [d EXCEPT !.fault = TRUE]
  ELSE [d EXCEPT !.stack = SubSeq(@, 1, base),
                 !.objects = Append(@, [id |-> index, kind |-> kind,
                                        parts |-> SubSeq(d.stack, base + 1, base + n)])]

\* value_is_meta: the value becomes the metatable of the one below it, which
\* is none of the message if this is the first.
Attach(d, index) ==
  IF index \notin msg.flagged THEN d
  ELSE IF Len(d.stack) < 2 THEN [d EXCEPT !.fault = TRUE]
  ELSE [d EXCEPT !.stack = Front(@)]

-----------------------------------------------------------------------------
Init ==
  /\ heap \in Heaps
  /\ args \in Arguments
  /\ builder = NewBuilder
  /\ calls = <<Frame("message", NoObj, -1, args)>>
  /\ msg = NoObj
  /\ reader = NewReader
  /\ below = "receiver"

(* write_value. *)

Caller == Last(calls)

\* write_value is called for v, which makes b of the builder.
Write(v, b) ==
  /\ ~ builder.raised
  /\ Caller.done < Len(Caller.list) /\ v = Caller.list[Caller.done + 1]
  /\ builder' = b
  /\ UNCHANGED <<heap, args, msg, reader, below>>

\* The calls when it has been.
Called == Append(Front(calls), [Caller EXCEPT !.done = @ + 1])

\* What has no type is not written, and its caller counts it all the same.
Skip == Write(Thread, builder) /\ calls' = Called

WriteAtom(v) == Write(v, Push(builder, [type |-> "atom", val |-> v])) /\ calls' = Called

WriteReference(v) ==
  /\ heap[v].kind = "table" /\ Seen(builder, v)
  /\ Write(v, Refer(builder, v)) /\ calls' = Called

\* The index of the value counts from the top of the Lua stack, as it does for
\* parts of tables and functions; it is wrong once luaL_getmetafield has pushed
\* __save, which is then called with itself.
Relative == Caller.kind \in {"table", "function", "meta"}

Raise(v) ==
  /\ heap[v].kind = "userdata" /\ Relative
  /\ Write(v, [builder EXCEPT !.raised = TRUE]) /\ calls' = Called

\* An object is pushed before its parts.
WriteObject(v) ==
  LET kind == heap[v].kind
  IN /\ kind = "table" => ~ Seen(builder, v)
     /\ kind = "userdata" => ~ Relative
     /\ Write(v, Push(IF kind = "table" THEN Remember(builder, v) ELSE builder,
                      [type |-> kind, parts |-> 0]))
     /\ calls' = Append(Called, Frame(kind, v, Len(builder.values), Listed(heap[v])))

\* Everything a call writes has been written.
Over(kinds) ==
  /\ ~ builder.raised
  /\ Caller.kind \in kinds /\ Caller.done = Len(Caller.list)
  /\ UNCHANGED <<heap, args, reader, below>>

\* After its parts a table goes on with its metatable.
EndParts ==
  LET o == heap[Caller.obj]
  IN /\ Over({"table", "function", "userdata"})
     /\ builder' = SetParts(builder, Caller.index, Len(o.parts), IF o.kind = "table" THEN 2 ELSE 1)
     /\ calls' = IF o.kind = "table" /\ o.meta # NoObj
                   THEN Append(Front(calls), Frame("meta", Caller.obj, Caller.index, <<o.meta>>))
                   ELSE Front(calls)
     /\ UNCHANGED msg

EndMeta ==
  /\ Over({"meta"})
  /\ builder' = SetMeta(builder) /\ calls' = Front(calls)
  /\ UNCHANGED msg

\* The loop of lua_newmessage is over: msg_new.  The flags are bits of the types
\* it writes.
NewMessage ==
  /\ Over({"message"}) /\ msg = NoObj
  /\ msg' = [values |-> builder.values, size |-> builder.bytes, count |-> builder.count,
             shared |-> builder.shared, flagged |-> builder.flagged]
  /\ UNCHANGED <<builder, calls>>

-----------------------------------------------------------------------------
(* decode_value. *)

\* The call that decode_value comes from, the item it is about, and the values
\* it decodes.
Top == Last(reader.calls)
Here == msg.values[Top.index + 1]
Needed == IF Here.type = "table" THEN 2 * Here.parts ELSE Here.parts

\* decode_value is called or returns.
Decoding ==
  /\ msg # NoObj /\ msg.count # 0
  /\ reader.more /\ ~ reader.fault
  /\ UNCHANGED <<heap, args, builder, calls, msg, below>>

\* It is called, and msg_next reads this, if there is more.
Due == Decoding /\ (Top.index # -1 => Top.got < Needed)
More == Offsets(msg.values)[reader.next] < msg.size
Item == msg.values[reader.next + 1]

\* The calls when it has been.
Asked == Append(Front(reader.calls), [Top EXCEPT !.got = @ + 1])
Read == [reader EXCEPT !.next = @ + 1, !.calls = Asked]

\* msg_next fails: the loop ends, any other caller goes on without a value.
NothingMore ==
  /\ Due /\ ~ More
  /\ reader' = IF Top.index = -1 THEN [reader EXCEPT !.more = FALSE]
                                 ELSE [reader EXCEPT !.calls = Asked]

ReadAtom ==
  /\ Due /\ More /\ Item.type = "atom"
  /\ reader' = Attach(PushValue(Read, Item), reader.next)

\* The table of references knows the tables that were marked.
ReadReference ==
  /\ Due /\ More /\ Item.type = "reference"
  /\ reader' = Attach(PushValue(Read, IF Item.ref \in msg.shared
                                        THEN [type |-> "object", id |-> Item.ref]
                                        ELSE [type |-> "atom", val |-> Nil]), reader.next)

ReadObject ==
  /\ Due /\ More /\ Item.type \in {"table", "function", "userdata"}
  /\ reader' = [PushValue(Read, [type |-> "object", id |-> reader.next])
                  EXCEPT !.calls = Append(@, Reading(reader.next, Len(reader.stack) + 1))]

EndObject ==
  /\ Decoding
  /\ Top.index # -1 /\ Top.got = Needed
  /\ reader' = Attach([Collect(reader, Top.index, Here.type, Top.base, Needed)
                         EXCEPT !.calls = Front(@)], Top.index)

\* The end of lua_decodemessage.  A table of references lies on top of what the
\* receiver had on its stack, the function to call for one; lua_remove takes
\* that away, and leaves the table.
DecodeEnd ==
  /\ msg # NoObj
  /\ ~ reader.more /\ ~ reader.fault
  /\ References(msg.values) > 0
  /\ below = "receiver"
  /\ below' = "references"
  /\ UNCHANGED <<heap, args, builder, calls, msg, reader>>

-----------------------------------------------------------------------------
Next ==
  \/ Skip
  \/ \E v \in Atom : WriteAtom(v)
  \/ \E v \in Obj : WriteReference(v) \/ Raise(v) \/ WriteObject(v)
  \/ EndParts \/ EndMeta \/ NewMessage
  \/ NothingMore \/ ReadAtom \/ ReadReference \/ ReadObject \/ EndObject \/ DecodeEnd

Spec == Init /\ [][Next]_vars

-----------------------------------------------------------------------------
\* The bytes counted while the items are pushed, which msg_new allocates, are
\* those it then writes, except that each reference takes four bytes more: it is a
\* message without references that fits in its memory.
SizeOffByReferences ==
  msg # NoObj => SizeOf(msg.values) = msg.size + 4 * References(msg.values)

\* The memory of a message holds all of it.
SizeExact == msg # NoObj => SizeOf(msg.values) = msg.size

\* Nothing of a type that is not written is reached from the arguments.
Supported ==
  \E vs \in SUBSET (Value \ {Thread}) :
    /\ Range(args) \subseteq vs
    /\ \A o \in vs \cap Obj : Range(heap[o].parts) \cup ({heap[o].meta} \ {NoObj}) \subseteq vs

\* count, with which the receiver calls a function, is the number of arguments,
\* however they are nested and shared.
CountIsArguments == msg # NoObj /\ Supported => msg.count = Len(args)

\* Value d of the receiver is value v of the sender, where object o of the
\* receiver has been made from object origin[o] of the sender.
Image(origin, v, d) ==
  IF v \in Obj THEN d.type = "object" /\ d.id \in DOMAIN origin /\ origin[d.id] = v
  ELSE d.type = "atom" /\ d.val = v

\* A message whose last item begins within its size is decoded into the
\* arguments it was made of: it can be read to the end, and then the objects
\* decoded are copies of those sent, to any depth, cycles included, where each
\* table has one copy.  Metatables do not arrive, and what is not written upsets
\* what follows it.
Readable ==
  /\ msg # NoObj /\ msg.flagged = {} /\ msg.values # <<>>
  /\ Offsets(msg.values)[Len(msg.values) - 1] < msg.size
  /\ Supported
RoundTrip ==
  Readable =>
    /\ ~ reader.fault
    /\ ~ reader.more =>
         \E origin \in [{r.id : r \in Range(reader.objects)} -> Obj] :
           /\ Len(reader.stack) = Len(args)
           /\ \A i \in DOMAIN args : Image(origin, args[i], reader.stack[i])
           /\ \A r \in Range(reader.objects) :
                LET o == heap[origin[r.id]]
                IN /\ r.kind = o.kind /\ Len(r.parts) = Len(Listed(o))
                   /\ \A i \in DOMAIN r.parts : Image(origin, Listed(o)[i], r.parts[i])
           /\ \A q, r \in Range(reader.objects) :
                q.kind = "table" /\ origin[q.id] = origin[r.id] => q = r

\* What the receiver had on its stack stays there.
ReceiverKept == below = "receiver"

\* Decoding never looks for a value that is not on the stack.
DecodesSafely == ~ reader.fault

=============================================================================

\* Two objects of any kind and any shape with at most two parts each. The program ends.
\* With the same constants SizeExact and ReceiverKept are refuted.
CONSTANTS
  o1 = o1 o2 = o2
  Number = Number
  String = String
  Nil = Nil
  Thread = Thread
  Obj = {o1, o2}
  Heaps <- Everything
  Arguments <- Lists
  NoObj = NoObj
SPECIFICATION Spec
INVARIANTS SizeOffByReferences CountIsArguments RoundTrip
CHECK_DEADLOCK FALSE

\* Tables that may hold a coroutine. The program ends.
CONSTANTS
  o1 = o1 o2 = o2
  Number = Number
  String = String
  Nil = Nil
  Thread = Thread
  Obj = {o1, o2}
  Heaps <- WithThread
  Arguments <- Plain
  NoObj = NoObj
SPECIFICATION Spec
INVARIANT DecodesSafely
CHECK_DEADLOCK FALSE

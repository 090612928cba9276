\* The host program opens the library in two Lua states, by two threads.
CONSTANTS
  p1 = p1 p2 = p2 p3 = p3
  State = {p1, p2}
  Host = {p1, p2}
  Slot = {1}
  MaxId = 2
  MaxErrors = 0
  NoChannel = NoChannel
SPECIFICATION Spec
INVARIANT RefsAccounted
CHECK_DEADLOCK FALSE

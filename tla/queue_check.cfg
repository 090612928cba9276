\* Four nodes, so that the list has inner nodes; two values told apart. A push finds no
\* memory when all nodes are in the list, and the program may rest then.
CONSTANTS
  c1 = c1 c2 = c2 c3 = c3 c4 = c4
  Cell = {c1, c2, c3, c4}
  HeadCell = HeadCell
  Null = Null
  Value = {v1, v2}
  NoValue = NoValue
SPECIFICATION QueueSpec
INVARIANT WellLinked
PROPERTY FifoSpec

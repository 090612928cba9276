CONSTANTS
  Key <- Keys
  dup = TRUE
  MaxDeficit = 1
SPECIFICATION Spec
INVARIANTS StaysBalanced PathFits ReleasedOnce CursorsVisitAll
PROPERTY KeySetSpec

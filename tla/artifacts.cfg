SPECIFICATION Spec
CONSTANTS
  a1 = a1 a2 = a2 a3 = a3
  Ids = {a1, a2, a3}
SYMMETRY Symmetry
INVARIANTS ReferencedIsServed ReadyHasContent
CHECK_DEADLOCK FALSE

SPECIFICATION Spec
CONSTANTS
  Block = {b1, b2, b3}
  Nil = Nil
  MaxFrame = 2
SYMMETRY Symmetry
INVARIANTS ListsExact
PROPERTIES ImplementsOwnership

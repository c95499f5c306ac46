SPECIFICATION Spec
CONSTANTS
  Block = {b1, b2, b3, b4}
  None = None
  MaxFrame = 3
SYMMETRY Symmetry
INVARIANTS TypeOK OwnerFrames Acyclic
PROPERTIES PopFreesTheFrame EscapeReachesTarget

SPECIFICATION Spec
CONSTANTS
  Programs <- StructReturns
  Bodies <- NoBodies
  MaxTurns = 2
INVARIANT ResultLives

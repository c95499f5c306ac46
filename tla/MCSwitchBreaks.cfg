SPECIFICATION Spec
CONSTANTS
  Programs <- SwitchBreaks
  Bodies <- NoBodies
  MaxTurns = 2
INVARIANT DefersInOrder

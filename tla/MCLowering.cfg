SPECIFICATION LoweringSpec
CONSTANTS
  Programs <- Regular
  Bodies <- BootstrapBodies
  MaxTurns = 2
  Block = {1, 2, 3, 4, 5, 6, 7, 8, 9, 10, 11}
  None = None
  Constant = Constant
  MaxFrame = 3
  Var = {v, w}
  Literals <- Capacities
  Reserves <- Reserved
  MaxIndex = 2
  MaxOps = 4
SYMMETRY Symmetry
INVARIANTS DefersInOrder ExitsExact ValuesLive VecsExact

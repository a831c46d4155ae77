SPECIFICATION Spec
CONSTANTS
  Id = {1, 2, 3, 4}
  Orders <- MCOrders
  MaxEdges = 4
  MaxConflicts = 4
INVARIANTS
  TypeOK
  CycleFoundIffCyclic
  WavesRespectGates
  RoundsBounded

SPECIFICATION Spec
CONSTANTS
  Writers = {c1, c2}
  Values = {}
  Fallback <- NoEntries
  Tasks = {"t1"}
  Classes = {"ACCESS_BLOCKED", "WORKER_ERROR"}
  Forced = {}
  Cap = 2
  MaxAppends = 2
  MaxFaults = 0
SYMMETRY CallSymmetry
INVARIANTS SettledStaysResolved

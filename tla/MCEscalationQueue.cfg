SPECIFICATION Spec
CONSTANTS
  Writers = {c1, c2}
  Values = {}
  Fallback <- NoEntries
  Tasks = {"t1"}
  Classes = {"ACCESS_BLOCKED", "MAX_REWORK_EXHAUSTED"}
  Forced = {"t1"}
  Cap = 2
  MaxAppends = 3
  MaxFaults = 1
SYMMETRY CallSymmetry
INVARIANTS TypeOK ReadsLastWritten KeepsRecent

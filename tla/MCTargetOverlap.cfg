SPECIFICATION Spec
CONSTANTS
  MaxSessions = 1
  MaxCommands = 2
  MaxCrashes = 0
  HandStages = {"quarantined", "completed"}
  Overlap = TRUE
INVARIANTS ArchivedStaysGone

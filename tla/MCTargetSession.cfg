SPECIFICATION FairSpec
CONSTANTS
  MaxSessions = 2
  MaxCommands = 4
  MaxCrashes = 1
  HandStages = {"quarantined", "completed"}
  Overlap = FALSE
INVARIANTS TypeOK EverySessionAccounted WorkersServeOpenSession ClarifiedBeforeWork OwnedByActive
PROPERTIES LifeImplemented ClosedSessionArchived
